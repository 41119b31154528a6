----------------------------- MODULE MCCompliance ------------------------------
(* Every kind of paper, two or three at a time; the others stay verified.     *)
EXTENDS Compliance

TheFiles ==
    { {"NRIC", "PASSPORT", "OKU_CARD"}, {"DRIVING_LICENSE", "PSV_LICENSE", "BANK_DETAILS"},
      {"ROAD_TAX", "KAD_PEMANDU"}, {"GRANT", "E_HAILING_INSURANCE"},
      {"CAR_INSURANCE", "TAXI_PERMIT_VEHICLE"}, {"PUSPAKOM_INSPECTION", "CAR_RENTAL_AGREEMENT"},
      {"AUTHORIZATION_LETTER", "GRANT"} }
================================================================================
