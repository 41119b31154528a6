---------------------------- MODULE PlatformProofs -----------------------------
(***************************************************************************)
(* Theorems about Presence, Fares and Earnings, for any drivers, passengers *)
(* and requests, any types, periods and zones, and any calendar.            *)
(*                                                                         *)
(* The connections: the commands that wait for Redis are in the order in    *)
(* which the gateway sent them, so the removal of a connection comes after  *)
(* its storing.  The rides: while nothing has set a driver loose, at most   *)
(* one handler is about him, and he is available only between his rides,    *)
(* except from his assignment, or a failure, to the write that follows it.  *)
(*                                                                         *)
(* The quotes: the arithmetic of the code is that of the reference, and a   *)
(* list that is being made goes on in the zones of now while none changed.  *)
(* The earnings: the steps of the histogram, from any day on.  What holds   *)
(* of every day or number is shown of the last, or the least, for which it  *)
(* would not hold.                                                          *)
(***************************************************************************)
EXTENDS Presence, Fares, Earnings, TLAPS, SequenceTheorems, FiniteSetTheorems, WellFoundedInduction

Kinds == {"none", "connect", "locate", "report", "driverStatus", "offer", "accept", "complete",
          "cancelRide"}

StatusSteps == {"findActive", "writeStatus"}
RideSteps == {"availability", "assign", "busy", "reread", "restore", "rereadDriver", "free",
              "endRide", "freeDriver"}
Steps == StatusSteps \cup RideSteps \cup Finished \cup {"idle", "storeUserSocket"}

PresTypes ==
    /\ PresenceTypeOK
    /\ op \in [Requests -> Kinds] /\ at \in [Requests -> Steps] /\ stops \in Nat

(* A connection that is mapped, or about to be, is open, or closed and its    *)
(* removal is still to come.                                                   *)
Awaits(cmds, c, k) == \E j \in 1..Len(cmds) : k < j /\ cmds[j].cmd = "del" /\ cmds[j].sock = c

Opened == \A c \in Requests : sock[c].state /= "none" => op[c] = "connect"

Commands ==
    \A k \in 1..Len(pipe) :
        LET c == pipe[k].sock IN
        /\ op[c] = "connect" /\ sock[c].user = pipe[k].user
        /\ pipe[k].cmd = "set" => sock[c].state = "open" \/ Awaits(pipe, c, k)

Mappings ==
    \A u \in Users : mapped[u] /= NoSocket =>
        LET c == mapped[u] IN
        /\ op[c] = "connect" /\ sock[c].user = u
        /\ sock[c].state \in {"open", "dropped"} \/ Awaits(pipe, c, 0)

(* A handler is about a driver and one of the rides offered to him. *)
RidesOffered ==
    \A i \in Rides :
        /\ ride[i].state /= "none" => ride[i].driver \in Drivers
        /\ ride[i].driver \in Drivers => i = 0 \/ Received(i)

Tasks ==
    \A r \in Requests :
        /\ at[r] \in StatusSteps => op[r] = "driverStatus" /\ task[r].driver \in Drivers
        /\ at[r] \in RideSteps =>
            /\ op[r] \in {"accept", "complete", "cancelRide"}
            /\ task[r].ride \in Rides /\ task[r].driver \in Drivers
            /\ ride[task[r].ride].driver = task[r].driver

(* The rides a driver is on; the steps between his assignment, or a failure,  *)
(* and the write of his availability.                                          *)
On(d) == RidesOf(d, {"active", "arrived"})
Unsettled == {"busy", "reread", "restore", "rereadDriver", "free"}

Bound(d) ==
    /\ \A i, j \in On(d) : i = j
    /\ \A q, r \in Handling(d) : q = r
    /\ loc[d].available /\ (\A r \in Handling(d) : at[r] \notin Unsettled) => On(d) = {}
    /\ \A r \in Handling(d) :
        /\ at[r] = "assign" => On(d) = {}
        /\ at[r] = "restore" /\ task[r].state \in {"active", "arrived"} => On(d) \subseteq {task[r].ride}
        /\ at[r] = "writeStatus" /\ task[r].status = "ONLINE" => RidesOf(d, {"active"}) = {}

PresInv ==
    /\ PresTypes /\ Opened /\ Commands /\ Mappings /\ RidesOffered /\ Tasks
    /\ \A d \in Drivers \ loose : Bound(d)

-------------------------------------------------------------------------------
(* Requests, and what is received. *)

LEMMA ZeroIsNoRequest == 0 \notin Requests /\ Requests \subseteq Rides /\ 0 \in Rides
BY RequestsAssumption DEF Requests, Rides

(* A request that is received is a new one. *)
LEMMA Newcomer ==
    ASSUME PresInv, NEW r \in Requests, NEW kind \in Kinds \ {"none"}, NEW step \in Steps,
           Receive(r, kind, step)
    PROVE  /\ ~ Received(r) /\ op[r] = "none"
           /\ op' = [op EXCEPT ![r] = kind] /\ at' = [at EXCEPT ![r] = step] /\ stops' = stops
           /\ op' \in [Requests -> Kinds] /\ at' \in [Requests -> Steps] /\ stops' \in Nat
           /\ \A q \in Requests : Received(q) => q /= r /\ Received(q)'
BY DEF Receive, IsNext, IsTurnOf, Received, PresInv, PresTypes

-------------------------------------------------------------------------------
(* The connections. *)

Sockets == Opened /\ Commands /\ Mappings

Command == [cmd : {"set", "del"}, user : Users, sock : Requests]

LEMMA PipeIsASeq ==
    ASSUME PresTypes
    PROVE  /\ pipe \in Seq(Command) /\ Len(pipe) \in Nat /\ DOMAIN pipe = 1..Len(pipe)
           /\ \A k \in 1..Len(pipe) : pipe[k] \in Command
<1>1. pipe \in Seq(Command)
    BY DEF PresTypes, PresenceTypeOK, Command
<1> QED BY <1>1, LenProperties, ElementOfSeq

LEMMA SocketsStay ==
    ASSUME Sockets, PresTypes, UNCHANGED <<sock, mapped, pipe>>,
           \A c \in Requests : op[c] = "connect" => op'[c] = "connect"
    PROVE  Sockets'
<1>1. \A k \in 1..Len(pipe) : pipe[k].sock \in Requests
    BY PipeIsASeq DEF Command
<1>2. \A u \in Users : mapped[u] /= NoSocket => mapped[u] \in Requests
    BY DEF PresTypes, PresenceTypeOK
<1>3. Opened'
    BY DEF Sockets, Opened
<1>4. Commands'
    BY <1>1 DEF Sockets, Commands
<1>5. Mappings'
    BY <1>2 DEF Sockets, Mappings
<1> QED BY <1>3, <1>4, <1>5 DEF Sockets

(* A command that is sent comes last. *)
LEMMA SentLast ==
    ASSUME PresTypes, NEW cmd \in {"set", "del"}, NEW u \in Users, NEW c \in Requests,
           Send(cmd, u, c)
    PROVE  /\ pipe' \in Seq(Command) /\ Len(pipe') = Len(pipe) + 1
           /\ \A k \in 1..Len(pipe) : pipe'[k] = pipe[k]
           /\ pipe'[Len(pipe) + 1] = [cmd |-> cmd, user |-> u, sock |-> c]
           /\ \A b \in Requests, k \in Nat : Awaits(pipe, b, k) => Awaits(pipe', b, k)
           /\ cmd = "del" => \A k \in 0..Len(pipe) : Awaits(pipe', c, k)
<1> DEFINE new == [cmd |-> cmd, user |-> u, sock |-> c]
<1>1. new \in Command /\ pipe' = Append(pipe, new) /\ new.cmd = cmd /\ new.sock = c
    BY DEF Command, Send
<1>2. pipe \in Seq(Command) /\ Len(pipe) \in Nat
    BY PipeIsASeq
<1> HIDE DEF new
<1>3. /\ pipe' \in Seq(Command) /\ Len(pipe') = Len(pipe) + 1
      /\ \A k \in 1..Len(pipe) : pipe'[k] = pipe[k]
      /\ pipe'[Len(pipe) + 1] = new
    BY <1>1, <1>2, AppendProperties
<1>4. \A b \in Requests, k \in Nat : Awaits(pipe, b, k) => Awaits(pipe', b, k)
    BY <1>2, <1>3 DEF Awaits
<1>5. cmd = "del" => \A k \in 0..Len(pipe) : Awaits(pipe', c, k)
    BY <1>1, <1>2, <1>3 DEF Awaits
<1> QED BY <1>3, <1>4, <1>5 DEF new

(* ... and one that is run was first. *)
LEMMA RunFirst ==
    ASSUME PresTypes, pipe /= <<>>, pipe' = Tail(pipe)
    PROVE  /\ pipe' \in Seq(Command) /\ Len(pipe') = Len(pipe) - 1 /\ Len(pipe) \in Nat
           /\ \A k \in 1..Len(pipe') : k + 1 \in 1..Len(pipe) /\ pipe'[k] = pipe[k + 1]
           /\ 1 \in 1..Len(pipe) /\ Head(pipe) = pipe[1] /\ pipe[1] \in Command
<1>1. pipe \in Seq(Command) /\ Len(pipe) \in Nat \ {0}
    BY PipeIsASeq, EmptySeq
<1>2. Head(pipe) = pipe[1]
    BY <1>1
<1>3. /\ pipe' \in Seq(Command) /\ Len(pipe') = Len(pipe) - 1
      /\ \A k \in 1..Len(pipe') : pipe'[k] = pipe[k + 1]
    BY <1>1, HeadTailProperties
<1> QED BY <1>1, <1>2, <1>3, PipeIsASeq

LEMMA HandleConnectionSockets ==
    ASSUME PresInv, NEW r \in Requests, NEW u \in Users, HandleConnection(r, u)
    PROVE  /\ Sockets' /\ sock' \in [Requests -> Socket] /\ pipe' \in Seq(Command)
<1>0. PresTypes /\ Commands /\ Mappings /\ Opened /\ sock \in [Requests -> Socket]
    BY DEF PresInv, PresTypes, PresenceTypeOK
<1>1. /\ \A c \in Requests : op[c] = "connect" => c /= r /\ op'[c] = "connect"
      /\ \A c \in Requests : c /= r => op'[c] = op[c]
      /\ op'[r] = "connect"
    BY Newcomer DEF HandleConnection, Kinds, Steps, PresInv, PresTypes
<1>2. /\ sock' = [sock EXCEPT ![r] = [state |-> "open", user |-> u]] /\ mapped' = mapped
      /\ Send("set", u, r)
    BY DEF HandleConnection
<1>3. sock' \in [Requests -> Socket]
    BY <1>0, <1>2 DEF Socket
<1>s. /\ sock'[r] = [state |-> "open", user |-> u]
      /\ \A c \in Requests : c /= r => sock'[c] = sock[c]
    BY <1>0, <1>2
<1>p. /\ pipe' \in Seq(Command) /\ Len(pipe') = Len(pipe) + 1 /\ Len(pipe) \in Nat
      /\ \A k \in 1..Len(pipe) : pipe'[k] = pipe[k] /\ pipe[k].sock \in Requests
      /\ pipe'[Len(pipe) + 1] = [cmd |-> "set", user |-> u, sock |-> r]
      /\ \A b \in Requests, k \in Nat : Awaits(pipe, b, k) => Awaits(pipe', b, k)
    BY <1>0, <1>2, SentLast, PipeIsASeq DEF Command
<1>5. Commands'
  <2> SUFFICES ASSUME NEW k \in 1..Len(pipe')
               PROVE  LET c == pipe'[k].sock IN
                      /\ op'[c] = "connect" /\ sock'[c].user = pipe'[k].user
                      /\ pipe'[k].cmd = "set" => sock'[c].state = "open" \/ Awaits(pipe', c, k)
    BY DEF Commands
  <2>1. CASE k = Len(pipe) + 1
    BY <1>1, <1>p, <1>s, <2>1
  <2>2. CASE k \in 1..Len(pipe)
    BY <1>0, <1>1, <1>p, <1>s, <2>2 DEF Commands
  <2> QED BY <1>p, <2>1, <2>2
<1>6. Mappings'
  <2>1. \A v \in Users : mapped[v] /= NoSocket => mapped[v] \in Requests
    BY <1>0 DEF PresTypes, PresenceTypeOK
  <2> QED BY <1>0, <1>1, <1>2, <1>p, <1>s, <2>1 DEF Mappings
<1>7. Opened'
    BY <1>0, <1>1, <1>s DEF Opened
<1> QED BY <1>3, <1>5, <1>6, <1>7, <1>p DEF Sockets

LEMMA HandleDisconnectSockets ==
    ASSUME PresInv, NEW c \in Requests, HandleDisconnect(c)
    PROVE  /\ Sockets' /\ sock' \in [Requests -> Socket] /\ pipe' \in Seq(Command)
<1>0. PresTypes /\ Commands /\ Mappings /\ Opened /\ sock \in [Requests -> Socket] /\ op' = op
    BY DEF PresInv, PresTypes, PresenceTypeOK, HandleDisconnect, handlerVars
<1>1. /\ sock[c].user \in Users /\ op[c] = "connect"
      /\ sock' = [sock EXCEPT ![c].state = "closed"] /\ mapped' = mapped
      /\ Send("del", sock[c].user, c)
    BY <1>0 DEF HandleDisconnect, Socket, Opened
<1>2. sock' \in [Requests -> Socket]
    BY <1>0, <1>1 DEF Socket
<1>s. \A b \in Requests : sock'[b].user = sock[b].user
                        /\ (b /= c => sock'[b].state = sock[b].state)
    BY <1>0, <1>1 DEF Socket
<1>p. /\ pipe' \in Seq(Command) /\ Len(pipe') = Len(pipe) + 1 /\ Len(pipe) \in Nat
      /\ \A k \in 1..Len(pipe) : pipe'[k] = pipe[k] /\ pipe[k].sock \in Requests
      /\ pipe'[Len(pipe) + 1] = [cmd |-> "del", user |-> sock[c].user, sock |-> c]
      /\ \A b \in Requests, k \in Nat : Awaits(pipe, b, k) => Awaits(pipe', b, k)
      /\ \A k \in 0..Len(pipe) : Awaits(pipe', c, k)
    BY <1>0, <1>1, SentLast, PipeIsASeq DEF Command
<1>5. Commands'
  <2> SUFFICES ASSUME NEW k \in 1..Len(pipe')
               PROVE  LET b == pipe'[k].sock IN
                      /\ op'[b] = "connect" /\ sock'[b].user = pipe'[k].user
                      /\ pipe'[k].cmd = "set" => sock'[b].state = "open" \/ Awaits(pipe', b, k)
    BY DEF Commands
  <2>1. CASE k = Len(pipe) + 1
    BY <1>0, <1>1, <1>p, <1>s, <2>1
  <2>2. CASE k \in 1..Len(pipe)
    <3>1. k \in 0..Len(pipe) /\ k \in Nat
      BY <1>p, <2>2
    <3> QED BY <1>0, <1>p, <1>s, <2>2, <3>1 DEF Commands
  <2> QED BY <1>p, <2>1, <2>2
<1>6. Mappings'
  <2>1. \A v \in Users : mapped[v] /= NoSocket => mapped[v] \in Requests
    BY <1>0 DEF PresTypes, PresenceTypeOK
  <2>2. 0 \in 0..Len(pipe) /\ 0 \in Nat
    BY <1>p
  <2> QED BY <1>0, <1>1, <1>p, <1>s, <2>1, <2>2 DEF Mappings
<1>7. Opened'
    BY <1>0, <1>1, <1>s DEF Opened
<1> QED BY <1>2, <1>5, <1>6, <1>7, <1>p DEF Sockets

LEMMA StoreUserSocketSockets ==
    ASSUME PresInv, StoreUserSocket
    PROVE  /\ Sockets' /\ mapped' \in [Users -> Requests \cup {NoSocket}] /\ pipe' \in Seq(Command)
<1> DEFINE c == pipe[1].sock  u == pipe[1].user
<1>0. PresTypes /\ Commands /\ Mappings /\ Opened /\ mapped \in [Users -> Requests \cup {NoSocket}]
      /\ op' = op /\ sock' = sock
    BY DEF PresInv, PresTypes, PresenceTypeOK, StoreUserSocket, Goto
<1>p. /\ pipe' \in Seq(Command) /\ Len(pipe') = Len(pipe) - 1 /\ Len(pipe) \in Nat
      /\ \A k \in 1..Len(pipe') : k + 1 \in 1..Len(pipe) /\ pipe'[k] = pipe[k + 1]
      /\ 1 \in 1..Len(pipe) /\ Head(pipe) = pipe[1] /\ c \in Requests /\ u \in Users
    BY <1>0, RunFirst DEF StoreUserSocket, Command
<1>a. \A b \in Requests, k \in Nat : Awaits(pipe, b, k + 1) => Awaits(pipe', b, k)
  <2> SUFFICES ASSUME NEW b \in Requests, NEW k \in Nat, Awaits(pipe, b, k + 1)
               PROVE  Awaits(pipe', b, k)
    OBVIOUS
  <2>1. PICK j \in 1..Len(pipe) : k + 1 < j /\ pipe[j].cmd = "del" /\ pipe[j].sock = b
    BY DEF Awaits
  <2>2. j - 1 \in 1..Len(pipe') /\ k < j - 1 /\ pipe'[j - 1] = pipe[j]
    BY <1>p, <2>1
  <2> QED BY <2>1, <2>2 DEF Awaits
<1>1. pipe[1].cmd = "set" /\ mapped' = [mapped EXCEPT ![u] = c]
    BY <1>p DEF StoreUserSocket
<1>2. op[c] = "connect" /\ sock[c].user = u /\ (sock[c].state = "open" \/ Awaits(pipe', c, 0))
    BY <1>0, <1>1, <1>a, <1>p DEF Commands
<1>3. Commands'
  <2> SUFFICES ASSUME NEW k \in 1..Len(pipe')
               PROVE  LET b == pipe'[k].sock IN
                      /\ op'[b] = "connect" /\ sock'[b].user = pipe'[k].user
                      /\ pipe'[k].cmd = "set" => sock'[b].state = "open" \/ Awaits(pipe', b, k)
    BY DEF Commands
  <2>1. k + 1 \in 1..Len(pipe) /\ pipe'[k] = pipe[k + 1] /\ k \in Nat /\ pipe[k + 1].sock \in Requests
    BY <1>0, <1>p, PipeIsASeq DEF Command
  <2> QED BY <1>0, <1>a, <2>1 DEF Commands
<1>4. ASSUME NEW v \in Users, mapped[v] /= NoSocket, v /= u,
             Awaits(pipe, mapped[v], 0)
      PROVE  Awaits(pipe', mapped[v], 0)
  <2>1. mapped[v] \in Requests
    BY <1>0, <1>4
  <2>2. PICK j \in 1..Len(pipe) : 0 < j /\ pipe[j].cmd = "del" /\ pipe[j].sock = mapped[v]
    BY <1>4 DEF Awaits
  <2>3. j > 1
    BY <1>1, <1>p, <2>2
  <2>4. Awaits(pipe, mapped[v], 0 + 1)
    BY <2>2, <2>3 DEF Awaits
  <2> QED BY <1>a, <2>1, <2>4
<1>5. Mappings'
  <2>1. mapped'[u] = c /\ \A v \in Users : v /= u => mapped'[v] = mapped[v]
    BY <1>0, <1>1, <1>p
  <2> QED BY <1>0, <1>2, <1>4, <1>p, <2>1 DEF Mappings
<1>6. Opened'
    BY <1>0 DEF Opened
<1> QED BY <1>0, <1>1, <1>3, <1>5, <1>6, <1>p DEF Sockets

LEMMA RemoveUserSocketSockets ==
    ASSUME PresInv, RemoveUserSocket
    PROVE  /\ Sockets' /\ mapped' \in [Users -> Requests \cup {NoSocket}] /\ pipe' \in Seq(Command)
<1> DEFINE c == pipe[1].sock  u == pipe[1].user
<1>0. PresTypes /\ Commands /\ Mappings /\ Opened /\ mapped \in [Users -> Requests \cup {NoSocket}]
      /\ op' = op /\ sock' = sock
    BY DEF PresInv, PresTypes, PresenceTypeOK, RemoveUserSocket, handlerVars
<1>p. /\ pipe' \in Seq(Command) /\ Len(pipe') = Len(pipe) - 1 /\ Len(pipe) \in Nat
      /\ \A k \in 1..Len(pipe') : k + 1 \in 1..Len(pipe) /\ pipe'[k] = pipe[k + 1]
      /\ 1 \in 1..Len(pipe) /\ Head(pipe) = pipe[1] /\ c \in Requests /\ u \in Users
    BY <1>0, RunFirst DEF RemoveUserSocket, Command
<1>a. \A b \in Requests, k \in Nat : Awaits(pipe, b, k + 1) => Awaits(pipe', b, k)
  <2> SUFFICES ASSUME NEW b \in Requests, NEW k \in Nat, Awaits(pipe, b, k + 1)
               PROVE  Awaits(pipe', b, k)
    OBVIOUS
  <2>1. PICK j \in 1..Len(pipe) : k + 1 < j /\ pipe[j].cmd = "del" /\ pipe[j].sock = b
    BY DEF Awaits
  <2>2. j - 1 \in 1..Len(pipe') /\ k < j - 1 /\ pipe'[j - 1] = pipe[j]
    BY <1>p, <2>1
  <2> QED BY <2>1, <2>2 DEF Awaits
<1>1. mapped' = [mapped EXCEPT ![u] = NoSocket] /\ sock[c].user = u
    BY <1>0, <1>p DEF RemoveUserSocket, Commands
<1>3. Commands'
  <2> SUFFICES ASSUME NEW k \in 1..Len(pipe')
               PROVE  LET b == pipe'[k].sock IN
                      /\ op'[b] = "connect" /\ sock'[b].user = pipe'[k].user
                      /\ pipe'[k].cmd = "set" => sock'[b].state = "open" \/ Awaits(pipe', b, k)
    BY DEF Commands
  <2>1. k + 1 \in 1..Len(pipe) /\ pipe'[k] = pipe[k + 1] /\ k \in Nat /\ pipe[k + 1].sock \in Requests
    BY <1>0, <1>p, PipeIsASeq DEF Command
  <2> QED BY <1>0, <1>a, <2>1 DEF Commands
<1>4. ASSUME NEW v \in Users, mapped[v] /= NoSocket, v /= u, sock[mapped[v]].user = v,
             Awaits(pipe, mapped[v], 0)
      PROVE  Awaits(pipe', mapped[v], 0)
  <2>1. mapped[v] \in Requests
    BY <1>0, <1>4
  <2>2. PICK j \in 1..Len(pipe) : 0 < j /\ pipe[j].cmd = "del" /\ pipe[j].sock = mapped[v]
    BY <1>4 DEF Awaits
  <2>3. j > 1
    BY <1>1, <1>4, <1>p, <2>2
  <2>4. Awaits(pipe, mapped[v], 0 + 1)
    BY <2>2, <2>3 DEF Awaits
  <2> QED BY <1>a, <2>1, <2>4
<1>5. Mappings'
  <2>1. mapped'[u] = NoSocket /\ \A v \in Users : v /= u => mapped'[v] = mapped[v]
    BY <1>0, <1>1, <1>p
  <2> QED BY <1>0, <1>4, <1>p, <2>1 DEF Mappings
<1>6. Opened'
    BY <1>0 DEF Opened
<1> QED BY <1>0, <1>1, <1>3, <1>5, <1>6, <1>p DEF Sockets

LEMMA MappingExpiresSockets ==
    ASSUME PresInv, NEW u \in Users, MappingExpires(u)
    PROVE  /\ Sockets' /\ mapped' \in [Users -> Requests \cup {NoSocket}]
<1>0. /\ PresTypes /\ Commands /\ Mappings /\ Opened
      /\ mapped \in [Users -> Requests \cup {NoSocket}]
      /\ mapped' = [mapped EXCEPT ![u] = NoSocket] /\ UNCHANGED <<op, sock, pipe>>
    BY DEF PresInv, PresTypes, PresenceTypeOK, MappingExpires, handlerVars
<1>1. Mappings'
    BY <1>0 DEF Mappings
<1>2. Commands' /\ Opened'
    BY <1>0 DEF Commands, Opened
<1> QED BY <1>0, <1>1, <1>2 DEF Sockets

(* A connection whose removal was still to come is dropped with the process. *)
LEMMA StopSockets ==
    ASSUME PresInv, Stop, PresenceStop
    PROVE  /\ Sockets' /\ sock' \in [Requests -> Socket] /\ pipe' \in Seq(Command)
<1>0. /\ PresTypes /\ Commands /\ Mappings /\ Opened /\ sock \in [Requests -> Socket]
      /\ op' = op /\ mapped' = mapped /\ pipe' = <<>>
      /\ sock' = [c \in Requests |-> IF sock[c].state = "open" \/ Unremoved(c)
                                     THEN [sock[c] EXCEPT !.state = "dropped"] ELSE sock[c]]
    BY DEF PresInv, PresTypes, PresenceTypeOK, Stop, PresenceStop
<1>1. pipe' \in Seq(Command) /\ Len(pipe') = 0
    BY <1>0, EmptySeq
<1>2. \A c \in Requests : /\ sock'[c] \in Socket /\ sock'[c].user = sock[c].user
                          /\ sock[c].state = "open" \/ Unremoved(c) => sock'[c].state = "dropped"
                          /\ sock[c].state = "dropped" => sock'[c].state = "dropped"
                          /\ Unremoved(c) => op[c] = "connect"
  <2> SUFFICES ASSUME NEW c \in Requests
               PROVE  /\ sock'[c] \in Socket /\ sock'[c].user = sock[c].user
                      /\ sock[c].state = "open" \/ Unremoved(c) => sock'[c].state = "dropped"
                      /\ sock[c].state = "dropped" => sock'[c].state = "dropped"
                      /\ Unremoved(c) => op[c] = "connect"
    OBVIOUS
  <2>1. sock'[c] = IF sock[c].state = "open" \/ Unremoved(c)
                   THEN [sock[c] EXCEPT !.state = "dropped"] ELSE sock[c]
    BY <1>0
  <2>2. Unremoved(c) => op[c] = "connect"
    BY <1>0, PipeIsASeq DEF Unremoved, Commands
  <2> QED BY <1>0, <2>1, <2>2 DEF Socket
<1>3. \A c \in Requests : Awaits(pipe, c, 0) => Unremoved(c)
    BY <1>0, PipeIsASeq DEF Awaits, Unremoved
<1>4. Opened'
  <2>1. \A c \in Requests : sock'[c].state /= "none" => sock[c].state /= "none" \/ Unremoved(c)
    BY <1>0
  <2> QED BY <1>0, <1>2, <2>1 DEF Opened
<1>5. Commands'
    BY <1>1 DEF Commands
<1>6. Mappings'
  <2>1. \A v \in Users : mapped[v] /= NoSocket => mapped[v] \in Requests
    BY <1>0 DEF PresTypes, PresenceTypeOK
  <2> QED BY <1>0, <1>2, <1>3, <2>1 DEF Mappings
<1>7. sock' \in [Requests -> Socket]
    BY <1>0, <1>2
<1> QED BY <1>1, <1>4, <1>5, <1>6, <1>7 DEF Sockets

-------------------------------------------------------------------------------
(* The rides of a driver. *)

LEMMA TypesOfPresence ==
    ASSUME PresInv
    PROVE  /\ loc \in [Drivers -> Location] /\ ride \in [Rides -> Ride]
           /\ task \in [Requests -> Task] /\ loose \subseteq Drivers
           /\ op \in [Requests -> Kinds] /\ at \in [Requests -> Steps]
           /\ RidesOffered /\ Tasks
BY DEF PresInv, PresTypes, PresenceTypeOK

LEMMA LooseGrows ==
    ASSUME NEW d \in Drivers, NEW freed \in BOOLEAN, loose \subseteq Drivers, LooseIf(d, freed)
    PROVE  loose \subseteq loose' /\ loose' \subseteq Drivers /\ (freed => d \in loose')
BY DEF LooseIf

(* What is bound stays so when nothing about the driver changes but that     *)
(* rides of his end.                                                          *)
LEMMA BoundStays ==
    ASSUME PresTypes, NEW d \in Drivers, Bound(d), Handling(d)' = Handling(d),
           \A r \in Handling(d) : at'[r] = at[r] /\ task'[r] = task[r],
           loc'[d].available = loc[d].available,
           On(d)' \subseteq On(d), RidesOf(d, {"active"})' \subseteq RidesOf(d, {"active"})
    PROVE  Bound(d)'
<1>1. \A i, j \in On(d)' : i = j
    BY DEF Bound
<1>2. \A q, r \in Handling(d)' : q = r
    BY DEF Bound
<1>3. loc'[d].available /\ (\A r \in Handling(d)' : at'[r] \notin Unsettled) => On(d)' = {}
    BY DEF Bound
<1>4. \A r \in Handling(d)' :
        /\ at'[r] = "assign" => On(d)' = {}
        /\ at'[r] = "restore" /\ task'[r].state \in {"active", "arrived"} => On(d)' \subseteq {task'[r].ride}
        /\ at'[r] = "writeStatus" /\ task'[r].status = "ONLINE" => RidesOf(d, {"active"})' = {}
    BY DEF Bound
<1> QED BY <1>1, <1>2, <1>3, <1>4 DEF Bound

(* A step of the handler of request r. *)
HandlerStep(r) ==
    /\ at[r] \in StatusSteps \cup RideSteps
    /\ \E step \in Finished \cup (IF at[r] \in StatusSteps THEN StatusSteps ELSE RideSteps) :
         at' = [at EXCEPT ![r] = step]
    /\ UNCHANGED <<op, stops, sock, mapped, pipe>>
    /\ \E t \in Task : /\ t.driver = task[r].driver /\ t.ride = task[r].ride
                       /\ task' = [task EXCEPT ![r] = t]
    /\ \/ ride' = ride
       \/ /\ at[r] \in RideSteps
          /\ \E s \in RideStates : ride' = [ride EXCEPT ![task[r].ride].state = s]
    /\ \E l \in Location : loc' = [loc EXCEPT ![task[r].driver] = l]
    /\ loose \subseteq loose' /\ loose' \subseteq Drivers

(* ... leaves the other handlers, drivers and rides alone. *)
LEMMA HandlerStepParts ==
    ASSUME PresInv, NEW r \in Requests, HandlerStep(r)
    PROVE  /\ op' = op /\ Received(r) /\ task[r].driver \in Drivers /\ op[r] \in RideKinds
           /\ at' \in [Requests -> Steps] /\ task' \in [Requests -> Task]
           /\ ride' \in [Rides -> Ride] /\ loc' \in [Drivers -> Location]
           /\ \A q \in Requests : q /= r => at'[q] = at[q] /\ task'[q] = task[q]
           /\ task'[r].driver = task[r].driver /\ task'[r].ride = task[r].ride
           /\ \A d \in Drivers : d /= task[r].driver => loc'[d] = loc[d]
           /\ \A i \in Rides : ride'[i].driver = ride[i].driver
           /\ \A i \in Rides : at[r] \notin RideSteps \/ i /= task[r].ride => ride'[i] = ride[i]
           /\ r \in Handling(task[r].driver)
<1>1. /\ loc \in [Drivers -> Location] /\ ride \in [Rides -> Ride]
      /\ task \in [Requests -> Task] /\ at \in [Requests -> Steps] /\ Tasks
    BY TypesOfPresence
<1>2. /\ task[r].driver \in Drivers /\ op[r] \in RideKinds /\ Received(r)
      /\ at[r] \in RideSteps => task[r].ride \in Rides /\ ride[task[r].ride].driver = task[r].driver
    BY <1>1 DEF HandlerStep, Tasks, Received, RideKinds
<1>3. PICK step \in Finished \cup StatusSteps \cup RideSteps : at' = [at EXCEPT ![r] = step]
    BY DEF HandlerStep
<1>4. at' \in [Requests -> Steps] /\ \A q \in Requests : q /= r => at'[q] = at[q]
    BY <1>1, <1>3 DEF Steps
<1>5. PICK t \in Task : t.driver = task[r].driver /\ t.ride = task[r].ride
                       /\ task' = [task EXCEPT ![r] = t]
    BY DEF HandlerStep
<1>6. PICK l \in Location : loc' = [loc EXCEPT ![task[r].driver] = l]
    BY DEF HandlerStep
<1>7. /\ ride' \in [Rides -> Ride]
      /\ \A i \in Rides : ride'[i].driver = ride[i].driver
      /\ \A i \in Rides : at[r] \notin RideSteps \/ i /= task[r].ride => ride'[i] = ride[i]
  <2>1. CASE ride' = ride
    BY <1>1, <2>1
  <2>2. CASE /\ at[r] \in RideSteps
             /\ \E s \in RideStates : ride' = [ride EXCEPT ![task[r].ride].state = s]
    BY <1>1, <1>2, <2>2 DEF Ride
  <2> QED BY <2>1, <2>2 DEF HandlerStep
<1>8. Running(r)
    BY <1>2 DEF Running, HandlerStep, StatusSteps, RideSteps, Finished
<1>9. r \in Handling(task[r].driver)
    BY <1>2, <1>8 DEF Handling
<1> QED BY <1>1, <1>2, <1>4, <1>5, <1>6, <1>7, <1>9 DEF HandlerStep

LEMMA HandlerStepOthers ==
    ASSUME PresInv, NEW r \in Requests, HandlerStep(r)
    PROVE  /\ Sockets' /\ RidesOffered' /\ Tasks'
           /\ \A d \in Drivers \ loose' : d /= task[r].driver => Bound(d)'
<1>1. PresTypes /\ RidesOffered /\ Tasks /\ Sockets
    BY DEF PresInv, Sockets
<1>2. Sockets'
    BY <1>1, SocketsStay DEF HandlerStep
<1>3. RidesOffered'
  <2>1. \A i \in Rides : ride'[i].state /= "none" => ride[i].state /= "none" \/ ride[i].driver \in Drivers
    <3> TAKE i \in Rides
    <3>1. CASE at[r] \in RideSteps /\ i = task[r].ride
        BY <1>1, <3>1 DEF Tasks
    <3>2. CASE ~ (at[r] \in RideSteps /\ i = task[r].ride)
        <4>1. ride'[i] = ride[i]
            BY <3>2, HandlerStepParts
        <4> QED BY <4>1
    <3> QED BY <3>1, <3>2
  <2> QED BY <1>1, <2>1, HandlerStepParts DEF RidesOffered, Received
<1>4. Tasks'
  <2> SUFFICES ASSUME NEW q \in Requests
               PROVE  /\ at'[q] \in StatusSteps => op'[q] = "driverStatus" /\ task'[q].driver \in Drivers
                      /\ at'[q] \in RideSteps =>
                          /\ op'[q] \in {"accept", "complete", "cancelRide"}
                          /\ task'[q].ride \in Rides /\ task'[q].driver \in Drivers
                          /\ ride'[task'[q].ride].driver = task'[q].driver
    BY DEF Tasks
  <2>1. /\ at[q] \in StatusSteps => op[q] = "driverStatus" /\ task[q].driver \in Drivers
        /\ at[q] \in RideSteps =>
            /\ op[q] \in {"accept", "complete", "cancelRide"}
            /\ task[q].ride \in Rides /\ task[q].driver \in Drivers
            /\ ride[task[q].ride].driver = task[q].driver
    BY <1>1 DEF Tasks
  <2>2. at[q] \in StatusSteps \/ at[q] \in RideSteps \/ q /= r
    BY DEF HandlerStep
  <2>3. /\ at'[q] \in StatusSteps => at[q] \in StatusSteps
        /\ at'[q] \in RideSteps => at[q] \in RideSteps
    <3>1. CASE q /= r
      BY <3>1, HandlerStepParts
    <3>2. CASE q = r
      <4>1. at'[r] \in Finished \cup (IF at[r] \in StatusSteps THEN StatusSteps ELSE RideSteps)
        BY <1>1 DEF HandlerStep, PresTypes
      <4>2. at[r] \in StatusSteps \cup RideSteps
        BY DEF HandlerStep
      <4> QED BY <3>2, <4>1, <4>2 DEF StatusSteps, RideSteps, Finished
    <3> QED BY <3>1, <3>2
  <2>4. task'[q].driver = task[q].driver /\ task'[q].ride = task[q].ride /\ op'[q] = op[q]
    BY HandlerStepParts
  <2> QED BY <2>1, <2>3, <2>4, HandlerStepParts
<1>5. ASSUME NEW d \in Drivers \ loose', d /= task[r].driver
      PROVE  Bound(d)'
  <2>1. Bound(d)
    BY <1>5 DEF PresInv, HandlerStep
  <2>2. r \notin Handling(d) /\ r \notin Handling(d)'
    BY <1>5, HandlerStepParts DEF Handling
  <2>3. \A q \in Requests : q /= r => (q \in Handling(d)' <=> q \in Handling(d))
    BY HandlerStepParts DEF Handling, Running, Received
  <2>4. Handling(d)' = Handling(d)
    BY <2>2, <2>3 DEF Handling
  <2>5. \A q \in Handling(d) : at'[q] = at[q] /\ task'[q] = task[q]
    BY <2>2, HandlerStepParts DEF Handling
  <2>6. \A i \in Rides : ride[i].driver = d => ride'[i] = ride[i]
    BY <1>1, <1>5, HandlerStepParts DEF Tasks
  <2>7. On(d)' = On(d) /\ RidesOf(d, {"active"})' = RidesOf(d, {"active"})
    BY <2>6, HandlerStepParts DEF On, RidesOf
  <2>8. loc'[d] = loc[d]
    BY <1>5, HandlerStepParts
  <2> QED BY <1>1, <2>1, <2>4, <2>5, <2>7, <2>8, BoundStays
<1> QED BY <1>2, <1>3, <1>4, <1>5

(* The driver that the handler is about stays bound when his rides and his    *)
(* availability follow its step.                                              *)
LEMMA OwnBound ==
    ASSUME PresInv, NEW r \in Requests, HandlerStep(r), NEW d \in Drivers \ loose',
           d = task[r].driver,
           \A i, j \in On(d)' : i = j,
           loc'[d].available /\ at'[r] \notin Unsettled => On(d)' = {},
           at'[r] = "assign" => On(d)' = {},
           at'[r] = "restore" /\ task'[r].state \in {"active", "arrived"} => On(d)' \subseteq {task'[r].ride},
           at'[r] = "writeStatus" /\ task'[r].status = "ONLINE" => RidesOf(d, {"active"})' = {}
    PROVE  Bound(d)'
<1>1. Bound(d) /\ r \in Handling(d)
    BY HandlerStepParts DEF PresInv, HandlerStep
<1>2. \A q \in Handling(d)' : q = r
  <2> SUFFICES ASSUME NEW q \in Requests, q \in Handling(d)', q /= r
               PROVE  FALSE
    BY DEF Handling
  <2>1. q \in Handling(d)
    BY HandlerStepParts DEF Handling, Running, Received
  <2> QED BY <1>1, <2>1 DEF Bound
<1>3. at'[r] \in Unsettled => r \in Handling(d)'
    BY HandlerStepParts DEF Unsettled, Handling, Running, Received, Finished
<1>4. loc'[d].available /\ (\A q \in Handling(d)' : at'[q] \notin Unsettled) => On(d)' = {}
    BY <1>3
<1> QED BY <1>2, <1>4 DEF Bound

-------------------------------------------------------------------------------
(* The steps of the handlers, one by one. *)

(* What a step of a handler has to show, of its own driver. *)
Settled(r) == task[r].driver \notin loose' => Bound(task[r].driver)'

LEMMA HandlerFacts ==
    ASSUME PresInv, NEW r \in Requests, at[r] \in StatusSteps \cup RideSteps
    PROVE  /\ task[r] \in Task /\ task[r].driver \in Drivers /\ loc[task[r].driver] \in Location
           /\ at \in [Requests -> Steps] /\ task \in [Requests -> Task]
           /\ loc \in [Drivers -> Location] /\ ride \in [Rides -> Ride] /\ loose \subseteq Drivers
           /\ at[r] \in RideSteps => /\ task[r].ride \in Rides
                                     /\ ride[task[r].ride].driver = task[r].driver
                                     /\ ride[task[r].ride] \in Ride
           /\ Running(r) /\ r \in Handling(task[r].driver)
           /\ task[r].driver \notin loose => Bound(task[r].driver)
           /\ loc = [loc EXCEPT ![task[r].driver] = loc[task[r].driver]]
           /\ task = [task EXCEPT ![r] = task[r]]
<1>1. /\ loc \in [Drivers -> Location] /\ ride \in [Rides -> Ride] /\ loose \subseteq Drivers
      /\ task \in [Requests -> Task] /\ at \in [Requests -> Steps] /\ Tasks
      /\ \A d \in Drivers \ loose : Bound(d)
    BY TypesOfPresence DEF PresInv
<1>2. /\ task[r].driver \in Drivers /\ op[r] \in RideKinds /\ Received(r)
      /\ at[r] \in RideSteps => task[r].ride \in Rides /\ ride[task[r].ride].driver = task[r].driver
    BY <1>1 DEF Tasks, Received, RideKinds
<1>3. Running(r)
    BY <1>2 DEF Running, StatusSteps, RideSteps, Finished
<1>4. r \in Handling(task[r].driver)
    BY <1>2, <1>3 DEF Handling
<1> QED BY <1>1, <1>2, <1>3, <1>4

(* A handler that only looks. *)
LEMMA LookStep ==
    ASSUME PresInv, NEW r \in Requests, at[r] \in StatusSteps \cup RideSteps,
           NEW step \in Finished \cup (IF at[r] \in StatusSteps THEN StatusSteps ELSE RideSteps),
           Look(r, step)
    PROVE  /\ HandlerStep(r) /\ at'[r] = step /\ UNCHANGED <<loc, ride, task, loose>>
           /\ \A d \in Drivers : On(d)' = On(d) /\ RidesOf(d, {"active"})' = RidesOf(d, {"active"})
<1>1. /\ at' = [at EXCEPT ![r] = step] /\ UNCHANGED <<op, stops, sock, mapped, pipe>>
      /\ UNCHANGED <<loc, ride, task, loose>>
    BY DEF Look, Goto, presenceVars
<1>2. HandlerStep(r)
    BY <1>1, HandlerFacts DEF HandlerStep
<1> QED BY <1>1, <1>2, HandlerFacts DEF On, RidesOf

LEMMA FindActiveStep ==
    ASSUME PresInv, NEW r \in Requests, FindActive(r)
    PROVE  HandlerStep(r) /\ Settled(r)
<1> DEFINE d == task[r].driver
           step == IF FindActiveRideByDriver(d) = {} THEN "writeStatus" ELSE "failed"
<1>1. at[r] \in StatusSteps /\ Look(r, step)
      /\ step \in Finished \cup (IF at[r] \in StatusSteps THEN StatusSteps ELSE RideSteps)
    BY DEF FindActive, At, StatusSteps, Finished
<1>2. /\ HandlerStep(r) /\ at'[r] = step /\ UNCHANGED <<loc, ride, task, loose>>
      /\ \A e \in Drivers : On(e)' = On(e) /\ RidesOf(e, {"active"})' = RidesOf(e, {"active"})
    BY <1>1, LookStep
<1>3. ASSUME d \notin loose' PROVE Bound(d)'
  <2>1. Bound(d) /\ d \in Drivers /\ r \in Handling(d)
    BY <1>1, <1>2, <1>3, HandlerFacts
  <2>2. \A q \in Handling(d) : at[q] \notin Unsettled
    BY <2>1 DEF Bound, FindActive, At, Unsettled
  <2>3. loc[d].available => On(d) = {}
    BY <2>1, <2>2 DEF Bound
  <2>4. step = "writeStatus" => RidesOf(d, {"active"}) = {}
    BY DEF FindActiveRideByDriver
  <2>5. step /= "assign" /\ step /= "restore"
    OBVIOUS
  <2>6. \A i, j \in On(d) : i = j
    BY <2>1 DEF Bound
  <2> QED BY <1>2, <1>3, <2>1, <2>3, <2>4, <2>5, <2>6, OwnBound
<1> QED BY <1>2, <1>3 DEF Settled

LEMMA WriteDriverStatusStep ==
    ASSUME PresInv, NEW r \in Requests, WriteDriverStatus(r)
    PROVE  HandlerStep(r) /\ Settled(r)
<1> DEFINE d == task[r].driver  status == task[r].status
           l == [doc |-> TRUE, status |-> status, available |-> status = "ONLINE"]
<1>1. at[r] \in StatusSteps /\ at[r] = "writeStatus"
    BY DEF WriteDriverStatus, At, StatusSteps
<1>2. /\ at' = [at EXCEPT ![r] = "done"] /\ loc' = [loc EXCEPT ![d] = l]
      /\ LooseIf(d, status = "ONLINE" /\ RidesOf(d, {"arrived"}) /= {})
      /\ UNCHANGED <<op, stops, sock, mapped, pipe, ride, task>>
    BY DEF WriteDriverStatus, Goto
<1>3. l \in Location /\ d \in Drivers /\ status \in Statuses
    BY <1>1, HandlerFacts DEF Task, Location
<1>4. loose \subseteq loose' /\ loose' \subseteq Drivers
      /\ (status = "ONLINE" /\ RidesOf(d, {"arrived"}) /= {} => d \in loose')
    BY <1>1, <1>2, <1>3, LooseGrows, HandlerFacts
<1>5. HandlerStep(r)
    BY <1>1, <1>2, <1>3, <1>4, HandlerFacts DEF HandlerStep, Finished
<1>6. ASSUME d \notin loose' PROVE Bound(d)'
  <2>1. Bound(d) /\ r \in Handling(d)
    BY <1>1, <1>3, <1>4, <1>6, HandlerFacts
  <2>2. On(d)' = On(d) /\ at'[r] = "done" /\ loc'[d] = l
    BY <1>1, <1>2, <1>3, HandlerFacts DEF On, RidesOf
  <2>3. status = "ONLINE" => RidesOf(d, {"active"}) = {} /\ RidesOf(d, {"arrived"}) = {}
    BY <1>1, <1>4, <1>6, <2>1 DEF Bound
  <2>4. status = "ONLINE" => On(d) = {}
    BY <2>3 DEF On, RidesOf
  <2>5. \A i, j \in On(d) : i = j
    BY <2>1 DEF Bound
  <2>6. loc'[d].available => status = "ONLINE"
    <3>1. CASE status = "ONLINE"
      BY <3>1
    <3>2. CASE status /= "ONLINE"
      <4>1. (status = "ONLINE") = FALSE
        BY <3>2
      <4>2. l = [doc |-> TRUE, status |-> status, available |-> FALSE]
        BY <4>1
      <4> HIDE DEF l
      <4> QED BY <2>2, <4>2
    <3> QED BY <3>1, <3>2
  <2>7. \A i, j \in On(d)' : i = j
    BY <2>2, <2>5
  <2>8. loc'[d].available => On(d)' = {}
    BY <2>2, <2>4, <2>6
  <2>9. at'[r] /= "assign" /\ at'[r] /= "writeStatus" /\ at'[r] /= "restore"
    BY <2>2
  <2> HIDE DEF l, status
  <2> QED BY <1>2, <1>3, <1>5, <1>6, <2>7, <2>8, <2>9, OwnBound
<1> QED BY <1>5, <1>6 DEF Settled

LEMMA CheckAvailabilityStep ==
    ASSUME PresInv, NEW r \in Requests, CheckAvailability(r)
    PROVE  HandlerStep(r) /\ Settled(r)
<1> DEFINE d == task[r].driver
           step == IF loc[d].available THEN "assign" ELSE "reread"
<1>1. at[r] \in RideSteps /\ Look(r, step) /\ at[r] \notin StatusSteps
      /\ step \in Finished \cup (IF at[r] \in StatusSteps THEN StatusSteps ELSE RideSteps)
    BY DEF CheckAvailability, At, StatusSteps, RideSteps
<1>2. /\ HandlerStep(r) /\ at'[r] = step /\ UNCHANGED <<loc, ride, task, loose>>
      /\ \A e \in Drivers : On(e)' = On(e) /\ RidesOf(e, {"active"})' = RidesOf(e, {"active"})
    BY <1>1, LookStep
<1>3. ASSUME d \notin loose' PROVE Bound(d)'
  <2>1. Bound(d) /\ d \in Drivers /\ r \in Handling(d)
    BY <1>1, <1>2, <1>3, HandlerFacts
  <2>2. \A q \in Handling(d) : at[q] \notin Unsettled
    BY <2>1 DEF Bound, CheckAvailability, At, Unsettled
  <2>3. loc[d].available => On(d) = {}
    BY <2>1, <2>2 DEF Bound
  <2>5. step /= "writeStatus" /\ step /= "restore"
    OBVIOUS
  <2>6. \A i, j \in On(d) : i = j
    BY <2>1 DEF Bound
  <2> QED BY <1>2, <1>3, <2>1, <2>3, <2>5, <2>6, OwnBound
<1> QED BY <1>2, <1>3 DEF Settled

LEMMA AcceptFailsStep ==
    ASSUME PresInv, NEW r \in Requests, AcceptFails(r)
    PROVE  HandlerStep(r) /\ Settled(r)
<1> DEFINE d == task[r].driver
<1>1. at[r] \in RideSteps /\ Look(r, "reread") /\ at[r] \notin StatusSteps
      /\ "reread" \in Finished \cup (IF at[r] \in StatusSteps THEN StatusSteps ELSE RideSteps)
    BY DEF AcceptFails, StatusSteps, RideSteps
<1>2. /\ HandlerStep(r) /\ at'[r] = "reread" /\ UNCHANGED <<loc, ride, task, loose>>
      /\ \A e \in Drivers : On(e)' = On(e) /\ RidesOf(e, {"active"})' = RidesOf(e, {"active"})
    BY <1>1, LookStep
<1>3. ASSUME d \notin loose' PROVE Bound(d)'
  <2>1. Bound(d) /\ d \in Drivers
    BY <1>1, <1>2, <1>3, HandlerFacts
  <2>2. \A i, j \in On(d) : i = j
    BY <2>1 DEF Bound
  <2>3. at'[r] \in Unsettled
    BY <1>2 DEF Unsettled
  <2> QED BY <1>2, <1>3, <2>1, <2>2, <2>3, OwnBound
<1> QED BY <1>2, <1>3 DEF Settled

(* A write of the ride that the handler is about. *)
LEMMA SetRideStep ==
    ASSUME PresInv, NEW r \in Requests, at[r] \in RideSteps, NEW s \in RideStates,
           NEW step \in RideSteps, SetRide(r, s), Goto(r, step)
    PROVE  /\ HandlerStep(r) /\ at'[r] = step /\ UNCHANGED <<loc, task, loose>>
           /\ On(task[r].driver)' = IF s \in {"active", "arrived"}
                                    THEN On(task[r].driver) \cup {task[r].ride}
                                    ELSE On(task[r].driver) \ {task[r].ride}
<1> DEFINE d == task[r].driver  i == task[r].ride
<1>1. /\ ride' = [ride EXCEPT ![i].state = s] /\ at' = [at EXCEPT ![r] = step]
      /\ UNCHANGED <<sock, mapped, pipe, loc, task, loose, op, stops>>
    BY DEF SetRide, Goto
<1>2. at[r] \notin StatusSteps
    BY DEF StatusSteps, RideSteps
<1>3. HandlerStep(r)
    BY <1>1, <1>2, HandlerFacts DEF HandlerStep
<1>4. /\ i \in Rides /\ ride[i].driver = d /\ ride'[i].driver = d /\ ride'[i].state = s
      /\ \A j \in Rides : j /= i => ride'[j] = ride[j]
    BY <1>1, HandlerFacts DEF Ride
<1>5. On(d)' = IF s \in {"active", "arrived"} THEN On(d) \cup {i} ELSE On(d) \ {i}
  <2>1. CASE s \in {"active", "arrived"}
    BY <1>1, <1>4, <2>1 DEF On, RidesOf
  <2>2. CASE s \notin {"active", "arrived"}
    BY <1>1, <1>4, <2>2 DEF On, RidesOf
  <2> QED BY <2>1, <2>2
<1> QED BY <1>1, <1>3, <1>5, HandlerFacts

LEMMA AssignDriverStep ==
    ASSUME PresInv, NEW r \in Requests, AssignDriver(r)
    PROVE  HandlerStep(r) /\ Settled(r)
<1> DEFINE d == task[r].driver
<1>1. at[r] \in RideSteps /\ at[r] = "assign" /\ "busy" \in RideSteps /\ "active" \in RideStates
      /\ SetRide(r, "active") /\ Goto(r, "busy")
    BY DEF AssignDriver, At, RideSteps, RideStates
<1>2. /\ HandlerStep(r) /\ at'[r] = "busy" /\ UNCHANGED <<loc, task, loose>>
      /\ On(d)' = On(d) \cup {task[r].ride}
    BY <1>1, SetRideStep
<1>3. ASSUME d \notin loose' PROVE Bound(d)'
  <2>1. Bound(d) /\ d \in Drivers /\ r \in Handling(d)
    BY <1>1, <1>2, <1>3, HandlerFacts
  <2>2. On(d) = {}
    BY <1>1, <2>1 DEF Bound
  <2>3. at'[r] \in Unsettled
    BY <1>2 DEF Unsettled
  <2> QED BY <1>2, <1>3, <2>1, <2>2, <2>3, OwnBound
<1> QED BY <1>2, <1>3 DEF Settled

LEMMA RestoreRideStep ==
    ASSUME PresInv, NEW r \in Requests, RestoreRide(r)
    PROVE  HandlerStep(r) /\ Settled(r)
<1> DEFINE d == task[r].driver  s == task[r].state
<1>1. at[r] \in RideSteps /\ at[r] = "restore" /\ "rereadDriver" \in RideSteps
      /\ SetRide(r, s) /\ Goto(r, "rereadDriver")
    BY DEF RestoreRide, At, RideSteps
<1>2. s \in RideStates
    BY <1>1, HandlerFacts DEF Task
<1>3. /\ HandlerStep(r) /\ at'[r] = "rereadDriver" /\ UNCHANGED <<loc, task, loose>>
      /\ On(d)' = IF s \in {"active", "arrived"} THEN On(d) \cup {task[r].ride} ELSE On(d) \ {task[r].ride}
    BY <1>1, <1>2, SetRideStep
<1>4. ASSUME d \notin loose' PROVE Bound(d)'
  <2>1. Bound(d) /\ d \in Drivers /\ r \in Handling(d)
    BY <1>1, <1>3, <1>4, HandlerFacts
  <2>2. \A i, j \in On(d) : i = j
    BY <2>1 DEF Bound
  <2>3. s \in {"active", "arrived"} => On(d) \subseteq {task[r].ride}
    BY <1>1, <2>1 DEF Bound
  <2>4. \A i, j \in On(d)' : i = j
    BY <1>3, <2>2, <2>3
  <2>5. at'[r] \in Unsettled
    BY <1>3 DEF Unsettled
  <2> QED BY <1>3, <1>4, <2>1, <2>4, <2>5, OwnBound
<1> QED BY <1>3, <1>4 DEF Settled

LEMMA EndRideStep ==
    ASSUME PresInv, NEW r \in Requests, EndRide(r)
    PROVE  HandlerStep(r) /\ Settled(r)
<1> DEFINE d == task[r].driver
<1>1. at[r] \in RideSteps /\ at[r] = "endRide" /\ "freeDriver" \in RideSteps /\ "over" \in RideStates
      /\ SetRide(r, "over") /\ Goto(r, "freeDriver")
    BY DEF EndRide, At, RideSteps, RideStates
<1>2. /\ HandlerStep(r) /\ at'[r] = "freeDriver" /\ UNCHANGED <<loc, task, loose>>
      /\ On(d)' = On(d) \ {task[r].ride}
    BY <1>1, SetRideStep
<1>3. ASSUME d \notin loose' PROVE Bound(d)'
  <2>1. Bound(d) /\ d \in Drivers /\ r \in Handling(d)
    BY <1>1, <1>2, <1>3, HandlerFacts
  <2>2. \A q \in Handling(d) : at[q] \notin Unsettled
    BY <1>1, <2>1 DEF Bound, Unsettled
  <2>3. (loc[d].available => On(d) = {}) /\ \A i, j \in On(d) : i = j
    BY <2>1, <2>2 DEF Bound
  <2> QED BY <1>2, <1>3, <2>1, <2>3, OwnBound
<1> QED BY <1>2, <1>3 DEF Settled

LEMMA RereadRideStep ==
    ASSUME PresInv, NEW r \in Requests, RereadRide(r)
    PROVE  HandlerStep(r) /\ Settled(r)
<1> DEFINE i == task[r].ride  t == [task[r] EXCEPT !.state = ride[i].state]
<1>1. at[r] \in RideSteps /\ at[r] = "reread" /\ "restore" \in RideSteps /\ at[r] \notin StatusSteps
    BY DEF RereadRide, At, RideSteps, StatusSteps
<1>2. /\ at' = [at EXCEPT ![r] = "restore"] /\ task' = [task EXCEPT ![r].state = ride[i].state]
      /\ UNCHANGED <<op, stops, sock, mapped, pipe, loc, ride, loose>>
    BY DEF RereadRide, Goto
<1>3. PICK d \in Drivers : d = task[r].driver
    BY <1>1, HandlerFacts
<1>4. t \in Task /\ t.driver = d /\ t.ride = i /\ t.state = ride[i].state
      /\ task' = [task EXCEPT ![r] = t] /\ task'[r] = t
    BY <1>1, <1>2, <1>3, HandlerFacts DEF Task, Ride
<1>5. HandlerStep(r)
    BY <1>1, <1>2, <1>3, <1>4, HandlerFacts DEF HandlerStep
<1>6. ASSUME d \notin loose' PROVE Bound(d)'
  <2>1. Bound(d) /\ i \in Rides /\ ride[i].driver = d
    BY <1>1, <1>2, <1>3, <1>6, HandlerFacts
  <2>2. \A j, k \in On(d) : j = k
    BY <2>1 DEF Bound
  <2>3. t.state \in {"active", "arrived"} => On(d) \subseteq {i}
    BY <1>4, <2>1, <2>2 DEF On, RidesOf
  <2>4. On(d)' = On(d) /\ at'[r] = "restore"
    BY <1>1, <1>2, HandlerFacts DEF On, RidesOf
  <2>5. at'[r] \in Unsettled
    BY <2>4 DEF Unsettled
  <2>6. task'[r].state \in {"active", "arrived"} => On(d)' \subseteq {task'[r].ride}
    BY <1>4, <2>3, <2>4
  <2>7. (\A j, k \in On(d)' : j = k) /\ at'[r] /= "assign" /\ at'[r] /= "writeStatus"
    BY <2>2, <2>4
  <2> QED BY <1>3, <1>5, <1>6, <2>5, <2>6, <2>7, OwnBound
<1> QED BY <1>3, <1>4, <1>5, <1>6 DEF Settled

LEMMA RereadDriverStep ==
    ASSUME PresInv, NEW r \in Requests, RereadDriver(r)
    PROVE  HandlerStep(r) /\ Settled(r)
<1>1. at[r] \in RideSteps /\ at[r] = "rereadDriver" /\ "free" \in RideSteps /\ at[r] \notin StatusSteps
    BY DEF RereadDriver, At, RideSteps, StatusSteps
<1>3. PICK d \in Drivers : d = task[r].driver
    BY <1>1, HandlerFacts
<1> DEFINE t == [task[r] EXCEPT !.status = loc[d].status]
<1>2. /\ at' = [at EXCEPT ![r] = "free"] /\ task' = [task EXCEPT ![r].status = loc[d].status]
      /\ UNCHANGED <<op, stops, sock, mapped, pipe, loc, ride, loose>>
    BY <1>3 DEF RereadDriver, Goto
<1>4. t \in Task /\ t.driver = d /\ t.ride = task[r].ride /\ task' = [task EXCEPT ![r] = t]
      /\ task'[r] = t
    BY <1>1, <1>2, <1>3, HandlerFacts, ZenonT(60) DEF Task, Location
<1>5. HandlerStep(r)
    <2>1. \E step \in Finished \cup (IF at[r] \in StatusSteps THEN StatusSteps ELSE RideSteps) :
             at' = [at EXCEPT ![r] = step]
        BY <1>1, <1>2
    <2>2. \E u \in Task : /\ u.driver = task[r].driver /\ u.ride = task[r].ride
                           /\ task' = [task EXCEPT ![r] = u]
        BY <1>3, <1>4
    <2>3. \E l \in Location : loc' = [loc EXCEPT ![task[r].driver] = l]
        BY <1>1, <1>2, HandlerFacts
    <2>4. loose' = loose /\ loose \subseteq Drivers
        BY <1>1, <1>2, HandlerFacts
    <2> HIDE DEF t
    <2> QED BY <1>1, <1>2, <2>1, <2>2, <2>3, <2>4 DEF HandlerStep
<1>6. ASSUME d \notin loose' PROVE Bound(d)'
  <2>1. Bound(d)
    BY <1>1, <1>2, <1>3, <1>6, HandlerFacts
  <2>2. \A j, k \in On(d) : j = k
    BY <2>1 DEF Bound
  <2>4. On(d)' = On(d) /\ at'[r] = "free"
    BY <1>1, <1>2, HandlerFacts DEF On, RidesOf
  <2>5. at'[r] \in Unsettled
    BY <2>4 DEF Unsettled
  <2>6. /\ \A j, k \in On(d)' : j = k
        /\ at'[r] /= "assign" /\ at'[r] /= "writeStatus" /\ at'[r] /= "restore"
    BY <2>2, <2>4
  <2> QED BY <1>3, <1>5, <1>6, <2>5, <2>6, OwnBound
<1> QED BY <1>3, <1>4, <1>5, <1>6 DEF Settled

(* The last write of a handler: the driver's availability. *)
LEMMA SetLocStep ==
    ASSUME PresInv, NEW r \in Requests, at[r] \in RideSteps, NEW status \in Statuses,
           NEW available \in BOOLEAN, NEW step \in {"done", "failed"},
           SetLoc(task[r].driver, status, available), Goto(r, step),
           UNCHANGED <<sock, mapped, pipe, ride, task>>, loose \subseteq loose', loose' \subseteq Drivers,
           available /\ task[r].driver \notin loose' => On(task[r].driver) = {}
    PROVE  HandlerStep(r) /\ Settled(r)
<1> DEFINE d == task[r].driver  l == [loc[d] EXCEPT !.status = status, !.available = available]
<1>1. at' = [at EXCEPT ![r] = step] /\ UNCHANGED <<op, stops>>
      /\ at[r] \notin StatusSteps /\ step \in Finished
    BY DEF Goto, StatusSteps, RideSteps, Finished
<1>2. l \in Location /\ l.available = available /\ loc' = [loc EXCEPT ![d] = l]
    BY HandlerFacts DEF SetLoc, Location
<1>3. HandlerStep(r)
    BY <1>1, <1>2, HandlerFacts DEF HandlerStep
<1>4. ASSUME d \notin loose' PROVE Bound(d)'
  <2>1. Bound(d) /\ d \in Drivers
    BY <1>4, HandlerFacts
  <2>2. \A j, k \in On(d) : j = k
    BY <2>1 DEF Bound
  <2>4. On(d)' = On(d) /\ at'[r] = step /\ loc'[d].available = available
    BY <1>1, <1>2, HandlerFacts DEF On, RidesOf
  <2> QED BY <1>3, <1>4, <2>1, <2>2, <2>4, OwnBound
<1> QED BY <1>3, <1>4 DEF Settled

LEMMA MarkBusyStep ==
    ASSUME PresInv, NEW r \in Requests, MarkBusy(r)
    PROVE  HandlerStep(r) /\ Settled(r)
<1>1. at[r] \in RideSteps /\ "OFFLINE" \in Statuses /\ loose \subseteq Drivers
    BY TypesOfPresence DEF MarkBusy, At, RideSteps, Statuses
<1> QED BY <1>1, SetLocStep DEF MarkBusy

LEMMA FreeSteps ==
    ASSUME PresInv, NEW r \in Requests, FreeRefusedDriver(r) \/ FreeDriver(r)
    PROVE  HandlerStep(r) /\ Settled(r)
<1> DEFINE d == task[r].driver
<1>1. at[r] \in RideSteps /\ "ONLINE" \in Statuses /\ loose \subseteq Drivers
    BY TypesOfPresence DEF FreeRefusedDriver, FreeDriver, At, RideSteps, Statuses
<1>2. d \in Drivers /\ task[r].status \in Statuses
    BY <1>1, HandlerFacts DEF Task
<1>3. LooseIf(d, Freed(d, r)) /\ Freed(d, r) \in BOOLEAN
    BY DEF FreeRefusedDriver, FreeDriver, Freed
<1>4. /\ loose \subseteq loose' /\ loose' \subseteq Drivers
      /\ d \notin loose' => On(d) = {}
    BY <1>1, <1>2, <1>3, LooseGrows DEF Freed, On
<1>5. CASE FreeRefusedDriver(r)
    BY <1>1, <1>2, <1>4, <1>5, SetLocStep DEF FreeRefusedDriver
<1>6. CASE FreeDriver(r)
    BY <1>1, <1>2, <1>4, <1>6, SetLocStep DEF FreeDriver
<1> QED BY <1>5, <1>6

LEMMA PresenceStepStep ==
    ASSUME PresInv, NEW r \in Requests, PresenceStep(r)
    PROVE  HandlerStep(r) /\ Settled(r)
BY FindActiveStep, WriteDriverStatusStep, CheckAvailabilityStep, AssignDriverStep, MarkBusyStep,
   AcceptFailsStep, RereadRideStep, RestoreRideStep, RereadDriverStep, FreeSteps, EndRideStep
   DEF PresenceStep

-------------------------------------------------------------------------------
(* The steps of connections, locations and passengers. *)

(* A step that is not of a handler about a driver: no ride of his begins, and *)
(* he is made available only when he was, or is on no ride.                   *)
Aside ==
    /\ task' = task /\ loose \subseteq loose'
    /\ \A c \in Requests : \/ op'[c] = op[c] /\ at'[c] = at[c]
                           \/ /\ op[c] \notin RideKinds /\ op'[c] \notin RideKinds \cup {"none"}
                              /\ at'[c] \notin StatusSteps \cup RideSteps
    /\ \A d \in Drivers \ loose' : loc'[d].available => loc[d].available \/ On(d) = {}
    /\ \A d \in Drivers : /\ On(d)' \subseteq On(d)
                          /\ RidesOf(d, {"active"})' \subseteq RidesOf(d, {"active"})
    /\ \A i \in Rides : ride[i].driver \in Drivers => ride'[i].driver = ride[i].driver

LEMMA AsideKeeps ==
    ASSUME PresInv, Aside
    PROVE  Tasks' /\ \A d \in Drivers \ loose' : Bound(d)'
<1>1. Tasks'
    BY TypesOfPresence DEF Aside, Tasks
<1>2. ASSUME NEW d \in Drivers \ loose' PROVE Bound(d)'
  <2>1. Bound(d)
    BY <1>2 DEF PresInv, Aside
  <2>2. \A c \in Requests : c \in Handling(d)' <=> c \in Handling(d)
    BY DEF Aside, Handling, Running, Received
  <2>3. Handling(d)' = Handling(d)
    BY <2>2 DEF Handling
  <2>4. \A c \in Handling(d) : at'[c] = at[c] /\ task'[c] = task[c]
    BY DEF Aside, Handling
  <2>5. On(d)' \subseteq On(d) /\ RidesOf(d, {"active"})' \subseteq RidesOf(d, {"active"})
    BY DEF Aside
  <2>6. \A i, j \in On(d)' : i = j
    BY <2>1, <2>5 DEF Bound
  <2>7. \A q, r \in Handling(d)' : q = r
    BY <2>1, <2>3 DEF Bound
  <2>8. loc'[d].available /\ (\A r \in Handling(d)' : at'[r] \notin Unsettled) => On(d)' = {}
    BY <2>1, <2>3, <2>4, <2>5 DEF Bound, Aside
  <2>9. \A r \in Handling(d)' :
          /\ at'[r] = "assign" => On(d)' = {}
          /\ at'[r] = "restore" /\ task'[r].state \in {"active", "arrived"} => On(d)' \subseteq {task'[r].ride}
          /\ at'[r] = "writeStatus" /\ task'[r].status = "ONLINE" => RidesOf(d, {"active"})' = {}
    BY <2>1, <2>3, <2>4, <2>5 DEF Bound
  <2> QED BY <2>6, <2>7, <2>8, <2>9 DEF Bound
<1> QED BY <1>1, <1>2

LEMMA SameRides ==
    ASSUME ride' = ride
    PROVE  /\ \A d \in Drivers : On(d)' = On(d) /\ RidesOf(d, {"active"})' = RidesOf(d, {"active"})
           /\ \A i \in Rides : ride'[i].driver = ride[i].driver
BY DEF On, RidesOf

LEMMA PresInvParts ==
    PresInv <=> PresTypes /\ Sockets /\ RidesOffered /\ Tasks /\ \A d \in Drivers \ loose : Bound(d)
BY DEF PresInv, Sockets

LEMMA PresInvPartsAfter ==
    ASSUME PresTypes', Sockets', RidesOffered', Tasks', \A d \in Drivers \ loose' : Bound(d)'
    PROVE  PresInv'
BY PresInvParts DEF PresInv, Sockets

LEMMA TypesAfter ==
    ASSUME sock' \in [Requests -> Socket], mapped' \in [Users -> Requests \cup {NoSocket}],
           pipe' \in Seq(Command), loc' \in [Drivers -> Location], ride' \in [Rides -> Ride],
           task' \in [Requests -> Task], loose' \subseteq Drivers,
           op' \in [Requests -> Kinds], at' \in [Requests -> Steps], stops' \in Nat
    PROVE  PresTypes'
BY DEF PresTypes, PresenceTypeOK, Command

LEMMA AllTypes ==
    ASSUME PresInv
    PROVE  /\ sock \in [Requests -> Socket] /\ mapped \in [Users -> Requests \cup {NoSocket}]
           /\ pipe \in Seq(Command) /\ loc \in [Drivers -> Location] /\ ride \in [Rides -> Ride]
           /\ task \in [Requests -> Task] /\ loose \subseteq Drivers
           /\ op \in [Requests -> Kinds] /\ at \in [Requests -> Steps] /\ stops \in Nat
           /\ PresTypes /\ Sockets /\ RidesOffered /\ Tasks
BY DEF PresInv, PresTypes, PresenceTypeOK, Command, Sockets

(* The gateway's connections leave the drivers' rides alone. *)
LEMMA ConnectionsKeep ==
    ASSUME PresInv, UNCHANGED <<loc, ride, task, loose>>,
           op' \in [Requests -> Kinds], at' \in [Requests -> Steps], stops' \in Nat,
           \A c \in Requests : \/ op'[c] = op[c] /\ at'[c] = at[c]
                               \/ /\ op[c] \notin RideKinds /\ op'[c] \notin RideKinds \cup {"none"}
                                  /\ at'[c] \notin StatusSteps \cup RideSteps,
           Sockets', sock' \in [Requests -> Socket],
           mapped' \in [Users -> Requests \cup {NoSocket}], pipe' \in Seq(Command)
    PROVE  PresInv'
<1>1. Aside
    BY SameRides DEF Aside
<1>2. RidesOffered'
    BY AllTypes DEF RidesOffered, Received, Rides
<1>3. PresTypes'
    BY AllTypes, TypesAfter
<1> QED BY <1>1, <1>2, <1>3, AsideKeeps, PresInvPartsAfter

LEMMA HandleConnectionKeeps ==
    ASSUME PresInv, NEW r \in Requests, NEW u \in Users, HandleConnection(r, u)
    PROVE  PresInv'
<1>1. Receive(r, "connect", "storeUserSocket") /\ UNCHANGED <<mapped, loc, ride, task, loose>>
    BY DEF HandleConnection
<1>2. "connect" \in Kinds \ {"none"} /\ "storeUserSocket" \in Steps /\ "connect" \notin RideKinds
      /\ "storeUserSocket" \notin StatusSteps \cup RideSteps /\ "none" \notin RideKinds
    BY DEF Kinds, Steps, RideKinds, StatusSteps, RideSteps
<1>3. /\ op' \in [Requests -> Kinds] /\ at' \in [Requests -> Steps] /\ stops' \in Nat
      /\ \A c \in Requests : c /= r => op'[c] = op[c] /\ at'[c] = at[c]
      /\ op[r] = "none" /\ op'[r] = "connect" /\ at'[r] = "storeUserSocket"
    BY <1>1, <1>2, Newcomer, AllTypes
<1> QED BY <1>1, <1>2, <1>3, HandleConnectionSockets, AllTypes, ConnectionsKeep

LEMMA OtherConnectionsKeep ==
    ASSUME PresInv,
           \/ \E c \in Requests : HandleDisconnect(c)
           \/ StoreUserSocket \/ RemoveUserSocket
           \/ \E u \in Users : MappingExpires(u)
    PROVE  PresInv'
<1>1. ASSUME NEW c \in Requests, HandleDisconnect(c) PROVE PresInv'
  <2>1. UNCHANGED <<op, at, stops, mapped, loc, ride, task, loose>>
    BY <1>1 DEF HandleDisconnect, handlerVars
  <2> QED BY <1>1, <2>1, HandleDisconnectSockets, AllTypes, ConnectionsKeep
<1>2. CASE StoreUserSocket
  <2>1. pipe /= <<>> /\ pipe' = Tail(pipe) /\ PresTypes
    BY <1>2, AllTypes DEF StoreUserSocket
  <2>2. 1 \in 1..Len(pipe) /\ Head(pipe) = pipe[1] /\ pipe[1] \in Command
    BY <2>1, RunFirst
  <2>3. PICK c \in Requests : c = Head(pipe).sock
    BY <2>2 DEF Command
  <2>4. op[c] = "connect"
    BY <2>2, <2>3 DEF PresInv, Commands
  <2>5. /\ UNCHANGED <<op, stops, sock, loc, ride, task, loose>> /\ at' = [at EXCEPT ![c] = "done"]
    BY <1>2, <2>3 DEF StoreUserSocket, Goto
  <2>6. "done" \in Steps /\ "done" \notin StatusSteps \cup RideSteps /\ "connect" \notin RideKinds
    BY DEF Steps, Finished, StatusSteps, RideSteps, RideKinds
  <2> QED BY <1>2, <2>4, <2>5, <2>6, StoreUserSocketSockets, AllTypes, ConnectionsKeep
<1>3. CASE RemoveUserSocket
  <2>1. UNCHANGED <<op, at, stops, sock, loc, ride, task, loose>>
    BY <1>3 DEF RemoveUserSocket, handlerVars
  <2> QED BY <1>3, <2>1, RemoveUserSocketSockets, AllTypes, ConnectionsKeep
<1>4. ASSUME NEW u \in Users, MappingExpires(u) PROVE PresInv'
  <2>1. UNCHANGED <<op, at, stops, sock, pipe, loc, ride, task, loose>>
    BY <1>4 DEF MappingExpires, handlerVars
  <2> QED BY <1>4, <2>1, MappingExpiresSockets, AllTypes, ConnectionsKeep
<1> QED BY <1>1, <1>2, <1>3, <1>4

(* A location that is written at once. *)
LEMMA AnswerKeeps ==
    ASSUME PresInv, NEW r \in Requests, NEW kind \in {"locate", "report"}, Answer(r, kind),
           NEW d \in Drivers, NEW l \in Location, loc' = [loc EXCEPT ![d] = l],
           loose \subseteq loose', loose' \subseteq Drivers,
           d \notin loose' /\ l.available => loc[d].available \/ On(d) = {}
    PROVE  PresInv'
<1>1. Receive(r, kind, "done") /\ UNCHANGED <<sock, mapped, pipe, ride, task>>
    BY DEF Answer
<1>2. kind \in Kinds \ {"none"} /\ "done" \in Steps /\ kind \notin RideKinds /\ kind /= "none"
      /\ "done" \notin StatusSteps \cup RideSteps /\ "none" \notin RideKinds /\ kind /= "connect"
    BY DEF Kinds, Steps, RideKinds, StatusSteps, RideSteps, Finished
<1>3. /\ op' \in [Requests -> Kinds] /\ at' \in [Requests -> Steps] /\ stops' \in Nat
      /\ \A c \in Requests : c /= r => op'[c] = op[c] /\ at'[c] = at[c]
      /\ op[r] = "none" /\ op'[r] = kind /\ at'[r] = "done"
    BY <1>1, <1>2, Newcomer, AllTypes
<1>4. loc' \in [Drivers -> Location] /\ loc'[d] = l /\ \A e \in Drivers : e /= d => loc'[e] = loc[e]
    BY AllTypes
<1>5. Aside
    BY <1>1, <1>2, <1>3, <1>4, SameRides DEF Aside
<1>6. RidesOffered'
    BY <1>1, <1>2, <1>3, AllTypes DEF RidesOffered, Received, Rides
<1>7. PresTypes'
    BY <1>1, <1>3, <1>4, AllTypes, TypesAfter
<1>8. Sockets'
  <2>1. \A c \in Requests : op[c] = "connect" => op'[c] = "connect"
    BY <1>2, <1>3
  <2> QED BY <1>1, <2>1, AllTypes, SocketsStay
<1> QED BY <1>5, <1>6, <1>7, <1>8, AsideKeeps, PresInvPartsAfter

LEMMA ReportKeeps ==
    ASSUME PresInv, NEW r \in Requests, NEW d \in Drivers, NEW status \in Statuses,
           NEW available \in BOOLEAN, Report(r, d, status, available)
    PROVE  PresInv'
<1> DEFINE l == [loc[d] EXCEPT !.status = status, !.available = available]
<1>1. l \in Location /\ loc' = [loc EXCEPT ![d] = l] /\ l.available = available
    BY AllTypes DEF Report, SetLoc, Location
<1>2. LooseIf(d, available /\ Freed(d, r)) /\ (available /\ Freed(d, r)) \in BOOLEAN
    BY DEF Report, Freed
<1>3. loose \subseteq loose' /\ loose' \subseteq Drivers /\ (available /\ Freed(d, r) => d \in loose')
    BY <1>2, LooseGrows, AllTypes
<1>4. ~ Freed(d, r) => On(d) = {}
    BY DEF Freed, On
<1>5. Answer(r, "report")
    BY DEF Report
<1> QED BY <1>1, <1>3, <1>4, <1>5, AnswerKeeps

LEMMA LocationsKeep ==
    ASSUME PresInv, NEW r \in Requests,
           \/ \E c \in Requests : DriverLocationUpdate(r, c)
           \/ \E d \in Drivers : DriverLocationRoutes(r, d) \/ Logout(r, d)
    PROVE  PresInv'
<1>1. ASSUME NEW c \in Requests, DriverLocationUpdate(r, c) PROVE PresInv'
  <2>1. PICK d \in Drivers : d = sock[c].user
    BY <1>1 DEF DriverLocationUpdate
  <2> DEFINE l == [doc |-> TRUE, status |-> "ONLINE", available |-> TRUE]
  <2>2. l \in Location /\ loc' = [loc EXCEPT ![d] = l] /\ Answer(r, "locate")
    BY <1>1, <2>1 DEF DriverLocationUpdate, UpdateDriverLocation, Location, Statuses
  <2>3. LooseIf(d, Freed(d, r)) /\ Freed(d, r) \in BOOLEAN
    BY <1>1, <2>1 DEF DriverLocationUpdate, Freed
  <2>4. loose \subseteq loose' /\ loose' \subseteq Drivers /\ (Freed(d, r) => d \in loose')
    BY <2>3, LooseGrows, AllTypes
  <2>5. ~ Freed(d, r) => On(d) = {}
    BY DEF Freed, On
  <2> QED BY <2>2, <2>4, <2>5, AnswerKeeps
<1>2. ASSUME NEW d \in Drivers, UpdateLocation(r, d) PROVE PresInv'
  <2> DEFINE l == [loc[d] EXCEPT !.doc = TRUE]
  <2>1. l \in Location /\ loc' = [loc EXCEPT ![d] = l] /\ l.available = loc[d].available
        /\ Answer(r, "locate") /\ loose' = loose
    BY <1>2, AllTypes DEF UpdateLocation, Location
  <2> QED BY <2>1, AllTypes, AnswerKeeps
<1>3. ASSUME NEW d \in Drivers,
             UpdateStatus(r, d) \/ GoOnline(r, d) \/ GoOffline(r, d) \/ SetBusy(r, d) \/ Logout(r, d)
      PROVE  PresInv'
  <2>1. "ONLINE" \in Statuses /\ "OFFLINE" \in Statuses
    BY DEF Statuses
  <2> QED BY <1>3, <2>1, ReportKeeps DEF UpdateStatus, GoOnline, GoOffline, SetBusy, Logout
<1> QED BY <1>1, <1>2, <1>3 DEF DriverLocationRoutes

LEMMA OfferKeeps ==
    ASSUME PresInv, NEW r \in Requests, NEW d \in Drivers, Offer(r, d)
    PROVE  PresInv'
<1>1. /\ Receive(r, "offer", "done") /\ UNCHANGED <<sock, mapped, pipe, loc, task, loose>>
      /\ ride' = [ride EXCEPT ![r] = [state |-> "offered", driver |-> d]]
    BY DEF Offer
<1>2. "offer" \in Kinds \ {"none"} /\ "done" \in Steps /\ "offer" \notin RideKinds
      /\ "done" \notin StatusSteps \cup RideSteps /\ "none" \notin RideKinds
    BY DEF Kinds, Steps, RideKinds, StatusSteps, RideSteps, Finished
<1>3. /\ op' \in [Requests -> Kinds] /\ at' \in [Requests -> Steps] /\ stops' \in Nat
      /\ \A c \in Requests : c /= r => op'[c] = op[c] /\ at'[c] = at[c]
      /\ op[r] = "none" /\ op'[r] = "offer" /\ at'[r] = "done" /\ ~ Received(r)
    BY <1>1, <1>2, Newcomer, AllTypes
<1>4. r \in Rides /\ r /= 0 /\ ride[r].driver \notin Drivers
    BY <1>3, ZeroIsNoRequest, AllTypes DEF RidesOffered
<1>5. /\ ride' \in [Rides -> Ride] /\ \A i \in Rides : i /= r => ride'[i] = ride[i]
      /\ ride'[r].state = "offered" /\ ride'[r].driver = d
    BY <1>1, <1>4, AllTypes DEF Ride, RideStates
<1>6. \A e \in Drivers : On(e)' = On(e) /\ RidesOf(e, {"active"})' = RidesOf(e, {"active"})
    BY <1>4, <1>5 DEF On, RidesOf
<1>7. Aside
    BY <1>1, <1>2, <1>3, <1>4, <1>5, <1>6 DEF Aside
<1>8. RidesOffered'
    BY <1>3, <1>4, <1>5, AllTypes DEF RidesOffered, Received, Rides
<1>9. PresTypes'
    BY <1>1, <1>3, <1>5, AllTypes, TypesAfter
<1>10. Sockets'
  <2>1. \A c \in Requests : op[c] = "connect" => op'[c] = "connect"
    BY <1>3
  <2> QED BY <1>1, <2>1, AllTypes, SocketsStay
<1> QED BY <1>7, <1>8, <1>9, <1>10, AsideKeeps, PresInvPartsAfter

LEMMA MoveRideKeeps ==
    ASSUME PresInv, NEW i \in Rides, ReachDestination(i) \/ PassengerCancels(i)
    PROVE  PresInv'
<1>1. PICK to \in {"arrived", "over"} :
        /\ ride' = [ride EXCEPT ![i].state = to] /\ ride[i].state \in {"offered", "active", "arrived"}
        /\ to = "arrived" => ride[i].state = "active"
        /\ UNCHANGED <<op, at, stops, sock, mapped, pipe, loc, task, loose>>
    BY DEF ReachDestination, PassengerCancels, MoveRide, handlerVars
<1>2. /\ ride' \in [Rides -> Ride] /\ ride'[i].state = to /\ ride'[i].driver = ride[i].driver
      /\ \A j \in Rides : j /= i => ride'[j] = ride[j]
    BY <1>1, AllTypes DEF Ride, RideStates
<1>3. \A d \in Drivers : On(d)' \subseteq On(d) /\ RidesOf(d, {"active"})' \subseteq RidesOf(d, {"active"})
    BY <1>1, <1>2 DEF On, RidesOf
<1>4. Aside
    BY <1>1, <1>2, <1>3 DEF Aside
<1>5. RidesOffered'
    BY <1>1, <1>2, AllTypes DEF RidesOffered, Received
<1>6. PresTypes'
    BY <1>1, <1>2, AllTypes, TypesAfter
<1>7. Sockets'
    BY <1>1, AllTypes, SocketsStay
<1> QED BY <1>4, <1>5, <1>6, <1>7, AsideKeeps, PresInvPartsAfter

-------------------------------------------------------------------------------
(* A handler begins, about a driver whom no other handler is about, or loose. *)

LEMMA BeginKeeps ==
    ASSUME PresInv, NEW r \in Requests, NEW kind \in RideKinds, NEW step, NEW new \in Task,
           Begin(r, kind, step, new), new.driver \in Drivers,
           \/ kind = "driverStatus" /\ step \in StatusSteps
           \/ /\ kind /= "driverStatus" /\ step \in {"availability", "reread", "endRide"}
              /\ new.ride \in Rides /\ ride[new.ride].driver = new.driver,
           step = "writeStatus" => new.status /= "ONLINE"
    PROVE  PresInv'
<1>1. /\ Receive(r, kind, step) /\ task' = [task EXCEPT ![r] = new]
      /\ LooseIf(new.driver, Handling(new.driver) /= {})
      /\ UNCHANGED <<sock, mapped, pipe, loc, ride>>
    BY DEF Begin
<1>2. kind \in Kinds \ {"none"} /\ step \in Steps /\ kind /= "connect"
      /\ step \notin {"assign", "restore"} \cup Finished
    BY DEF Kinds, Steps, RideKinds, StatusSteps, RideSteps, Finished
<1>3. /\ op' \in [Requests -> Kinds] /\ at' \in [Requests -> Steps] /\ stops' \in Nat
      /\ \A c \in Requests : c /= r => op'[c] = op[c] /\ at'[c] = at[c]
      /\ op[r] = "none" /\ op'[r] = kind /\ at'[r] = step
    BY <1>1, <1>2, Newcomer, AllTypes
<1>4. /\ task' \in [Requests -> Task] /\ task'[r] = new
      /\ \A c \in Requests : c /= r => task'[c] = task[c]
    BY <1>1, AllTypes
<1>5. loose \subseteq loose' /\ loose' \subseteq Drivers
      /\ (Handling(new.driver) /= {} => new.driver \in loose')
    BY <1>1, LooseGrows, AllTypes
<1>6. PresTypes'
    BY <1>1, <1>3, <1>4, <1>5, AllTypes, TypesAfter
<1>7. Sockets'
  <2>1. \A c \in Requests : op[c] = "connect" => op'[c] = "connect"
    BY <1>3
  <2> QED BY <1>1, <2>1, AllTypes, SocketsStay
<1>8. RidesOffered'
    BY <1>1, <1>2, <1>3, AllTypes DEF RidesOffered, Received, Rides
<1>9. Tasks'
  <2> SUFFICES ASSUME NEW q \in Requests
               PROVE  /\ at'[q] \in StatusSteps => op'[q] = "driverStatus" /\ task'[q].driver \in Drivers
                      /\ at'[q] \in RideSteps =>
                          /\ op'[q] \in {"accept", "complete", "cancelRide"}
                          /\ task'[q].ride \in Rides /\ task'[q].driver \in Drivers
                          /\ ride'[task'[q].ride].driver = task'[q].driver
    BY DEF Tasks
  <2>1. CASE q /= r
    BY <1>1, <1>3, <1>4, <2>1, AllTypes DEF Tasks
  <2>2. CASE q = r /\ kind = "driverStatus"
    BY <1>3, <1>4, <2>2 DEF StatusSteps, RideSteps
  <2>3. CASE q = r /\ kind /= "driverStatus"
    BY <1>1, <1>3, <1>4, <2>3 DEF StatusSteps, RideSteps, RideKinds
  <2> QED BY <2>1, <2>2, <2>3
<1>10. ASSUME NEW d \in Drivers \ loose' PROVE Bound(d)'
  <2>1. Bound(d)
    BY <1>5, <1>10 DEF PresInv
  <2>2. On(d)' = On(d) /\ RidesOf(d, {"active"})' = RidesOf(d, {"active"}) /\ loc' = loc
    BY <1>1, SameRides
  <2>3. \A c \in Requests : c /= r => (c \in Handling(d)' <=> c \in Handling(d))
    BY <1>3, <1>4 DEF Handling, Running, Received
  <2>4. r \notin Handling(d)
    BY <1>3 DEF Handling, Running, Received
  <2>5. CASE d /= new.driver
    <3>1. r \notin Handling(d)'
      BY <1>4, <2>5 DEF Handling
    <3>2. Handling(d)' = Handling(d)
      BY <2>3, <2>4, <3>1 DEF Handling
    <3>3. \A c \in Handling(d) : at'[c] = at[c] /\ task'[c] = task[c]
      BY <1>3, <1>4, <2>4 DEF Handling
    <3> QED BY <2>1, <2>2, <3>2, <3>3, AllTypes, BoundStays
  <2>6. CASE d = new.driver
    <3>1. Handling(d) = {}
      BY <1>5, <1>10, <2>6
    <3>2. \A c \in Handling(d)' : c = r
      BY <2>3, <3>1 DEF Handling
    <3>3. (\A i, j \in On(d) : i = j) /\ (loc[d].available => On(d) = {})
      BY <2>1, <3>1 DEF Bound
    <3>4. at'[r] \notin {"assign", "restore"} /\ ~ (at'[r] = "writeStatus" /\ task'[r].status = "ONLINE")
      BY <1>2, <1>3, <1>4
    <3> QED BY <2>2, <3>2, <3>3, <3>4 DEF Bound
  <2> QED BY <2>5, <2>6
<1> QED BY <1>6, <1>7, <1>8, <1>9, <1>10, PresInvPartsAfter

LEMMA BeginsKeep ==
    ASSUME PresInv, NEW r \in Requests,
           \/ \E d \in Drivers, s \in Statuses : UpdateDriverStatus(r, d, s)
           \/ \E i \in Rides : AcceptRide(r, i) \/ CompleteRide(r, i) \/ CancelRide(r, i)
    PROVE  PresInv'
<1>0. NoTask \in Task /\ {"driverStatus", "accept", "complete", "cancelRide"} \subseteq RideKinds
    BY DEF NoTask, Task, Statuses, RideStates, RideKinds
<1>1. ASSUME NEW d \in Drivers, NEW s \in Statuses, UpdateDriverStatus(r, d, s) PROVE PresInv'
  <2> DEFINE new == [NoTask EXCEPT !.driver = d, !.status = s]
             step == IF s = "ONLINE" THEN "findActive" ELSE "writeStatus"
  <2>1. new \in Task /\ new.driver = d /\ new.status = s
    BY <1>0 DEF NoTask, Task
  <2>2. step \in StatusSteps /\ (step = "writeStatus" => s /= "ONLINE")
    BY DEF StatusSteps
  <2>3. Begin(r, "driverStatus", step, new)
    BY <1>1 DEF UpdateDriverStatus
  <2> HIDE DEF new, step
  <2> QED BY <1>0, <2>1, <2>2, <2>3, BeginKeeps
<1>2. ASSUME NEW i \in Rides, AcceptRide(r, i) \/ CompleteRide(r, i) \/ CancelRide(r, i) PROVE PresInv'
  <2> DEFINE new == [NoTask EXCEPT !.driver = ride[i].driver, !.ride = i]
  <2>1. ride[i].state /= "none" /\ ride[i].driver \in Drivers
    BY <1>2, AllTypes DEF AcceptRide, CompleteRide, CancelRide, RidesOffered
  <2>2. new \in Task /\ new.driver = ride[i].driver /\ new.ride = i
    BY <1>0, <2>1 DEF NoTask, Task
  <2>3. PICK kind \in RideKinds \ {"driverStatus"}, step \in {"availability", "reread", "endRide"} :
           Begin(r, kind, step, new)
    BY <1>0, <1>2 DEF AcceptRide, CompleteRide, CancelRide
  <2>4. step /= "writeStatus" /\ kind /= "driverStatus"
    OBVIOUS
  <2> HIDE DEF new
  <2> QED BY <2>1, <2>2, <2>3, <2>4, BeginKeeps
<1> QED BY <1>1, <1>2

LEMMA PresenceReceiveKeeps ==
    ASSUME PresInv, NEW r \in Requests, PresenceReceive(r)
    PROVE  PresInv'
BY HandleConnectionKeeps, LocationsKeep, OfferKeeps, BeginsKeep DEF PresenceReceive

LEMMA PresenceStepKeeps ==
    ASSUME PresInv, NEW r \in Requests, PresenceStep(r)
    PROVE  PresInv'
<1>1. HandlerStep(r) /\ Settled(r)
    BY PresenceStepStep
<1>2. /\ at' \in [Requests -> Steps] /\ task' \in [Requests -> Task]
      /\ ride' \in [Rides -> Ride] /\ loc' \in [Drivers -> Location]
      /\ task'[r].driver = task[r].driver
    BY <1>1, HandlerStepParts
<1>3. PresTypes'
  <2>1. UNCHANGED <<op, stops, sock, mapped, pipe>> /\ loose' \subseteq Drivers
    BY <1>1 DEF HandlerStep
  <2> QED BY <1>2, <2>1, AllTypes, TypesAfter
<1>4. /\ Sockets' /\ RidesOffered' /\ Tasks'
      /\ \A d \in Drivers \ loose' : d /= task[r].driver => Bound(d)'
    BY <1>1, HandlerStepOthers
<1>5. ASSUME NEW d \in Drivers \ loose' PROVE Bound(d)'
  <2>1. CASE d = task[r].driver
    BY <1>1, <1>2, <1>5, <2>1 DEF Settled
  <2> QED BY <1>4, <1>5, <2>1
<1> QED BY <1>3, <1>4, <1>5, PresInvPartsAfter

(* The end of the process takes the handlers with it. *)
LEMMA StopKeeps ==
    ASSUME PresInv, Stop, PresenceStop
    PROVE  PresInv'
<1>1. /\ op' = op /\ stops' = stops + 1 /\ UNCHANGED <<mapped, loc, ride, task>>
      /\ at' = [r \in Requests |-> IF Running(r) THEN "lost" ELSE at[r]]
      /\ loose' = loose \cup {d \in Drivers : Handling(d) /= {}}
    BY DEF Stop, PresenceStop
<1>2. at' \in [Requests -> Steps] /\ \A r \in Requests : at'[r] = IF Running(r) THEN "lost" ELSE at[r]
    BY <1>1, AllTypes DEF Steps, Finished
<1>3. PresTypes'
    BY <1>1, <1>2, StopSockets, AllTypes, TypesAfter
<1>4. RidesOffered'
    BY <1>1, AllTypes DEF RidesOffered, Received
<1>5. Tasks'
    BY <1>1, <1>2, AllTypes DEF Tasks, StatusSteps, RideSteps
<1>6. ASSUME NEW d \in Drivers \ loose' PROVE Bound(d)'
  <2>1. Bound(d) /\ Handling(d) = {}
    BY <1>1, <1>6 DEF PresInv
  <2>2. Handling(d)' = {}
    BY <1>1, <1>2, <2>1 DEF Handling, Running, Received, Finished
  <2>3. On(d)' = On(d) /\ RidesOf(d, {"active"})' = RidesOf(d, {"active"})
    BY <1>1, SameRides
  <2> QED BY <1>1, <2>1, <2>2, <2>3, AllTypes, BoundStays
<1> QED BY <1>3, <1>4, <1>5, <1>6, StopSockets, PresInvPartsAfter

LEMMA PresInvInit ==
    ASSUME HandlersInit, PresenceInit
    PROVE  PresInv
<1>1. op = [r \in Requests |-> "none"] /\ at = [r \in Requests |-> "idle"] /\ stops = 0
    BY DEF HandlersInit
<1>2. PICK onRide \in Drivers \cup {NoDriver} :
       /\ ride = [i \in Rides |-> IF i = 0 /\ onRide /= NoDriver
                                  THEN [state |-> "active", driver |-> onRide]
                                  ELSE [state |-> "none", driver |-> NoDriver]]
       /\ loc \in [Drivers -> {NoLocation, Waiting, Away}]
       /\ \A d \in Drivers : loc[d] = Away <=> d = onRide
    BY DEF PresenceInit
<1>3. NoDriver \notin Drivers
    BY PresenceAssumption
<1>4. AnyUser \in Users
  <2>1. Users /= {}
    BY PresenceAssumption DEF Users
  <2> QED BY <2>1 DEF AnyUser
<1>5. PresTypes
  <2>1. sock \in [Requests -> Socket] /\ mapped \in [Users -> Requests \cup {NoSocket}]
        /\ task \in [Requests -> Task] /\ loose \subseteq Drivers
    BY <1>4 DEF PresenceInit, Socket, Task, NoTask, Statuses, RideStates
  <2>2. pipe \in Seq(Command)
    BY EmptySeq DEF PresenceInit
  <2>3. loc \in [Drivers -> Location]
    <3>1. {NoLocation, Waiting, Away} \subseteq Location
      BY DEF Location, NoLocation, Waiting, Away, Statuses
    <3> QED BY <1>2, <3>1
  <2>4. ride \in [Rides -> Ride]
    BY <1>2 DEF Ride, RideStates
  <2>5. op \in [Requests -> Kinds] /\ at \in [Requests -> Steps] /\ stops \in Nat
    BY <1>1 DEF Kinds, Steps
  <2> QED BY <2>1, <2>2, <2>3, <2>4, <2>5 DEF PresTypes, PresenceTypeOK, Command
<1>6. Sockets
  <2>1. Len(pipe) = 0
    BY EmptySeq DEF PresenceInit
  <2> QED BY <2>1 DEF PresenceInit, Sockets, Opened, Commands, Mappings
<1>7. RidesOffered
    BY <1>2, <1>3, ZeroIsNoRequest DEF RidesOffered
<1>8. Tasks
    BY <1>1 DEF Tasks, StatusSteps, RideSteps
<1>9. ASSUME NEW d \in Drivers PROVE Bound(d)
  <2>1. Handling(d) = {}
    BY <1>1 DEF Handling, Running, Received
  <2>2. On(d) = IF d = onRide THEN {0} ELSE {}
    BY <1>2, <1>3, ZeroIsNoRequest DEF On, RidesOf
  <2>3. loc[d].available => d /= onRide
    BY <1>2 DEF Away
  <2> QED BY <2>1, <2>2, <2>3 DEF Bound
<1> QED BY <1>5, <1>6, <1>7, <1>8, <1>9, PresInvParts

LEMMA PresInvNext ==
    PresInv /\ [PresenceNext \/ (Stop /\ PresenceStop)]_<<handlerVars, presenceVars>> => PresInv'
<1> SUFFICES ASSUME PresInv, [PresenceNext \/ (Stop /\ PresenceStop)]_<<handlerVars, presenceVars>>
             PROVE  PresInv'
    OBVIOUS
<1>1. CASE PresenceNext
    BY <1>1, PresenceReceiveKeeps, PresenceStepKeeps, OtherConnectionsKeep, MoveRideKeeps
       DEF PresenceNext
<1>2. CASE Stop /\ PresenceStop
    BY <1>2, StopKeeps
<1>3. CASE UNCHANGED <<handlerVars, presenceVars>>
  <2>1. UNCHANGED <<op, at, stops, sock, mapped, pipe, loc, ride, task, loose>>
    BY <1>3 DEF handlerVars, presenceVars
  <2>2. Sockets'
    BY <2>1, AllTypes, SocketsStay
  <2> QED BY <2>1, <2>2, AllTypes, ConnectionsKeep
<1> QED BY <1>1, <1>2, <1>3

LEMMA PresInvHolds == PresenceSpec => []PresInv
BY PresInvInit, PresInvNext, PTL DEF PresenceSpec

-------------------------------------------------------------------------------
(* A message to a user goes to a connection that is open, that the end of the *)
(* process closed, or whose removal is under way: the mapping in Redis never   *)
(* outlives its connection for good, in whatever order the gateway's events   *)
(* and the commands come.                                                      *)
THEOREM MappingsFollowConnections == PresenceSpec => []MappedSocketIsOpen
<1>1. PresInv => MappedSocketIsOpen
  <2> SUFFICES ASSUME PresInv, NEW u \in Users, mapped[u] /= NoSocket
               PROVE  \/ Reached(u) \/ sock[mapped[u]].state = "dropped"
                      \/ \E k \in DOMAIN pipe : pipe[k].cmd = "del" /\ pipe[k].user = u
    BY DEF MappedSocketIsOpen
  <2>1. /\ sock[mapped[u]].user = u
        /\ sock[mapped[u]].state \in {"open", "dropped"} \/ Awaits(pipe, mapped[u], 0)
    BY DEF PresInv, Mappings
  <2>2. CASE Awaits(pipe, mapped[u], 0)
    <3>1. PICK k \in 1..Len(pipe) : pipe[k].cmd = "del" /\ pipe[k].sock = mapped[u]
      BY <2>2 DEF Awaits
    <3>2. sock[pipe[k].sock].user = pipe[k].user /\ k \in DOMAIN pipe
      BY AllTypes, PipeIsASeq DEF PresInv, Commands
    <3> QED BY <2>1, <3>1, <3>2
  <2> QED BY <2>1, <2>2 DEF Reached
<1> QED BY <1>1, PresInvHolds, PTL

(* Whatever rides are offered to a driver and however he reports, accepts,     *)
(* turns down, completes and fails, he has one active ride at a time until he  *)
(* is made available while a ride of his is not over, or handlers about him    *)
(* overlap or are lost.                                                        *)
THEOREM DriversKeepToOneRide == PresenceSpec => []OneRideAtATime
<1>1. PresInv => OneRideAtATime
  <2> SUFFICES ASSUME PresInv, NEW d \in Drivers \ loose
               PROVE  Cardinality(RidesOf(d, {"active"})) <= 1
    BY DEF OneRideAtATime
  <2>1. \A i, j \in RidesOf(d, {"active"}) : i = j
    BY DEF PresInv, Bound, On, RidesOf
  <2>2. CASE RidesOf(d, {"active"}) = {}
    BY <2>2, FS_EmptySet
  <2>3. CASE RidesOf(d, {"active"}) /= {}
    <3>1. PICK i : i \in RidesOf(d, {"active"})
      BY <2>3
    <3>2. RidesOf(d, {"active"}) = {i}
      BY <2>1, <3>1
    <3>3. Cardinality({i}) = 1
      BY FS_Singleton
    <3> QED BY <3>2, <3>3
  <2> QED BY <2>2, <2>3
<1> QED BY <1>1, PresInvHolds, PTL

--------------------------------------------------------------------------------
(* The quotes. *)

AllEqual(S) == \A x, y \in S : x = y

(* The least of some numbers. *)
LEMMA LeastOf ==
    ASSUME NEW S \in SUBSET Nat, S /= {}
    PROVE  /\ Least(S) \in S /\ \A j \in S : Least(S) <= j
           /\ \A k \in S : (\A j \in S : k <= j) => Least(S) = k
<1>1. PICK x \in S : \A y \in S : ~ (<<y, x>> \in OpToRel(<, Nat))
    BY WFMin, NatLessThanWellFounded
<1>2. \A y \in S : ~ (y < x)
    BY <1>1 DEF OpToRel
<1>3. \E k \in S : \A j \in S : k <= j
    BY <1>2
<1>4. Least(S) \in S /\ \A j \in S : Least(S) <= j
    BY <1>3 DEF Least
<1>5. ASSUME NEW k \in S, \A j \in S : k <= j PROVE Least(S) = k
    <2>1. Least(S) <= k /\ k <= Least(S) /\ Least(S) \in Nat /\ k \in Nat
        BY <1>4, <1>5
    <2> QED BY <2>1
<1> QED BY <1>4, <1>5

--------------------------------------------------------------------------------
(* The time of day. *)

LEMMA UntilIs ==
    ASSUME NEW a \in Times, NEW b \in Times
    PROVE  /\ Until(a, b) = IF a <= b THEN b - a ELSE b + DayLength - a
           /\ Until(a, b) \in Nat /\ Until(a, b) < DayLength
BY FaresAssumption DEF Until, Times

LEMMA RangeIsCover ==
    ASSUME NEW t \in Times, NEW p \in PricingPeriod
    PROVE  IsTimeInRange(t, p) <=> Covers(p, t)
<1>1. p.start \in Times /\ p.end \in Times
    BY DEF PricingPeriod
<1>2. p.start \in Nat /\ p.end \in Nat /\ t \in Nat /\ DayLength \in Nat
      /\ p.start < DayLength /\ p.end < DayLength /\ t < DayLength
    BY <1>1, FaresAssumption DEF Times
<1>3. /\ Until(p.start, t) = IF p.start <= t THEN t - p.start ELSE t + DayLength - p.start
      /\ Until(p.start, p.end) = IF p.start <= p.end THEN p.end - p.start
                                                     ELSE p.end + DayLength - p.start
    BY <1>1, UntilIs
<1>4. CASE p.start < p.end
    BY <1>2, <1>3, <1>4 DEF IsTimeInRange, Covers
<1>5. CASE p.start = p.end
    BY <1>2, <1>5 DEF IsTimeInRange, Covers
<1>6. CASE p.start > p.end
    BY <1>2, <1>3, <1>6 DEF IsTimeInRange, Covers
<1> QED BY <1>2, <1>4, <1>5, <1>6

LEMMA DifferenceIs ==
    ASSUME NEW a \in Times, NEW b \in Times
    PROVE  /\ TimeDifference(a, b) \in {Until(a, b), Until(b, a)} /\ TimeDifference(a, b) \in Nat
           /\ TimeDifference(a, b) <= Until(a, b) /\ TimeDifference(a, b) <= Until(b, a)
<1>1. a \in Nat /\ b \in Nat /\ DayLength \in Nat /\ a < DayLength /\ b < DayLength
    BY FaresAssumption DEF Times
<1>2. PICK h \in Nat : h = DayLength \div 2 /\ 2 * h <= DayLength /\ DayLength <= 2 * h + 1
    <2>1. /\ DayLength \div 2 \in Nat /\ 2 * (DayLength \div 2) <= DayLength
          /\ DayLength <= 2 * (DayLength \div 2) + 1
        BY FaresAssumption
    <2> QED BY <2>1
<1>3. /\ Until(a, b) = IF a <= b THEN b - a ELSE b + DayLength - a
      /\ Until(b, a) = IF b <= a THEN a - b ELSE a + DayLength - b
    BY UntilIs
<1>4. CASE a < b
    <2>1. TimeDifference(a, b) = IF b - a > h THEN DayLength - (b - a) ELSE b - a
        BY <1>2, <1>4 DEF TimeDifference
    <2> QED BY <1>1, <1>2, <1>3, <1>4, <2>1
<1>5. CASE ~ (a < b)
    <2>1. TimeDifference(a, b) = IF a - b > h THEN DayLength - (a - b) ELSE a - b
        BY <1>2, <1>5 DEF TimeDifference
    <2> QED BY <1>1, <1>2, <1>3, <1>5, <2>1
<1> QED BY <1>4, <1>5

(* How far a period is from the time, as the code measures it. *)
Apart(p, t) == Least({TimeDifference(t, p.start), TimeDifference(t, p.end)})

LEMMA ApartIsGap ==
    ASSUME NEW t \in Times, NEW p \in PricingPeriod
    PROVE  Apart(p, t) = Gap(p, t) /\ Gap(p, t) \in Nat
<1>1. p.start \in Times /\ p.end \in Times
    BY DEF PricingPeriod
<1> DEFINE x == TimeDifference(t, p.start)  y == TimeDifference(t, p.end)
           a == Until(t, p.start)  b == Until(p.start, t)  c == Until(t, p.end)  d == Until(p.end, t)
<1>2. /\ x \in {a, b} /\ x <= a /\ x <= b /\ y \in {c, d} /\ y <= c /\ y <= d
      /\ x \in Nat /\ y \in Nat /\ a \in Nat /\ b \in Nat /\ c \in Nat /\ d \in Nat
    BY <1>1, DifferenceIs, UntilIs
<1>3. Apart(p, t) = Least({x, y}) /\ Gap(p, t) = Least({a, b, c, d})
    BY DEF Apart, Gap
<1> HIDE DEF x, y, a, b, c, d
<1>4. PICK m \in {x, y} : m <= x /\ m <= y
    BY <1>2
<1>5. m \in {a, b, c, d} /\ m \in Nat /\ \A j \in {a, b, c, d} : m <= j
    BY <1>2, <1>4
<1>6. Least({x, y}) = m
    BY <1>2, <1>4, LeastOf
<1>7. Least({a, b, c, d}) = m
    <2>1. {a, b, c, d} \in SUBSET Nat
        BY <1>2
    <2> QED BY <2>1, <1>5, LeastOf
<1> QED BY <1>3, <1>5, <1>6, <1>7

(* The period that is found is the one of the reference. *)
LEMMA PeriodFound ==
    ASSUME NEW periods \in Seq(PricingPeriod), periods /= <<>>, NEW t \in Times
    PROVE  \E k \in DOMAIN periods :
              /\ k = CHOOSE j \in DOMAIN periods : IsPeriodFor(periods, t, j)
              /\ FindApplicablePricingPeriod(periods, t) = periods[k] /\ periods[k] \in PricingPeriod
<1> DEFINE inRange == {k \in DOMAIN periods : IsTimeInRange(t, periods[k])}
           closest == {k \in DOMAIN periods : \A j \in DOMAIN periods : Apart(periods[k], t) <= Apart(periods[j], t)}
           found == Least(IF inRange /= {} THEN inRange ELSE closest)
<1>1. /\ DOMAIN periods = 1..Len(periods) /\ Len(periods) \in Nat /\ DOMAIN periods /= {}
      /\ \A k \in DOMAIN periods : periods[k] \in PricingPeriod
    <2>1. DOMAIN periods = 1..Len(periods) /\ Len(periods) \in Nat
        BY LenProperties
    <2>2. Len(periods) /= 0
        BY EmptySeq
    <2>3. \A k \in 1..Len(periods) : periods[k] \in PricingPeriod
        BY ElementOfSeq
    <2>4. 1 \in 1..Len(periods)
        BY <2>1, <2>2
    <2> QED BY <2>1, <2>3, <2>4
<1>2. DOMAIN periods \in SUBSET Nat
    BY <1>1
<1>3. FindApplicablePricingPeriod(periods, t) = periods[found]
    BY DEF FindApplicablePricingPeriod, Apart
<1>4. \A k \in DOMAIN periods : /\ IsTimeInRange(t, periods[k]) <=> Covers(periods[k], t)
                                /\ Apart(periods[k], t) = Gap(periods[k], t)
                                /\ Gap(periods[k], t) \in Nat
    BY <1>1, RangeIsCover, ApartIsGap
<1>5. found \in DOMAIN periods /\ IsPeriodFor(periods, t, found)
    <2>1. CASE inRange /= {}
        <3>1. inRange \in SUBSET Nat /\ found = Least(inRange)
            BY <1>2, <2>1
        <3>2. found \in inRange /\ \A j \in inRange : found <= j
            BY <2>1, <3>1, LeastOf
        <3> HIDE DEF found
        <3>3. found \in DOMAIN periods /\ Covers(periods[found], t)
            BY <1>4, <3>2
        <3>4. \A j \in 1..(found - 1) : ~ Covers(periods[j], t)
            <4> SUFFICES ASSUME NEW j \in 1..(found - 1), Covers(periods[j], t) PROVE FALSE
                OBVIOUS
            <4>1. j \in DOMAIN periods /\ ~ (found <= j)
                BY <1>1, <3>3
            <4> QED BY <4>1, <1>4, <3>2
        <3> QED BY <3>3, <3>4 DEF IsPeriodFor
    <2>2. CASE inRange = {}
        <3>1. closest \in SUBSET Nat /\ found = Least(closest)
            BY <1>2, <2>2
        <3>2. closest /= {}
            <4> DEFINE gaps == {Apart(periods[k], t) : k \in DOMAIN periods}
            <4>1. gaps \in SUBSET Nat /\ gaps /= {}
                BY <1>1, <1>4
            <4>2. Least(gaps) \in gaps /\ \A j \in gaps : Least(gaps) <= j
                BY <4>1, LeastOf
            <4>3. PICK k \in DOMAIN periods : Apart(periods[k], t) = Least(gaps)
                BY <4>2
            <4>4. \A j \in DOMAIN periods : Apart(periods[k], t) <= Apart(periods[j], t)
                BY <4>2, <4>3
            <4> QED BY <4>4
        <3>3. found \in closest /\ \A j \in closest : found <= j
            BY <3>1, <3>2, LeastOf
        <3> HIDE DEF found
        <3>4. \A j \in DOMAIN periods : ~ Covers(periods[j], t)
            BY <1>4, <2>2
        <3>5. ASSUME NEW j \in DOMAIN periods
              PROVE  IF j < found THEN Gap(periods[found], t) < Gap(periods[j], t)
                                  ELSE Gap(periods[found], t) <= Gap(periods[j], t)
            <4>1. found \in DOMAIN periods /\ \A i \in DOMAIN periods : Gap(periods[found], t) <= Gap(periods[i], t)
                BY <1>4, <3>3
            <4>2. CASE j < found
                <5>1. j \notin closest
                    BY <1>2, <3>3, <4>1, <4>2
                <5>2. PICK i \in DOMAIN periods : ~ (Apart(periods[j], t) <= Apart(periods[i], t))
                    BY <5>1
                <5>3. Gap(periods[i], t) < Gap(periods[j], t) /\ Gap(periods[found], t) <= Gap(periods[i], t)
                    BY <1>4, <4>1, <5>2
                <5> QED BY <1>4, <4>1, <4>2, <5>3
            <4>3. CASE ~ (j < found)
                BY <4>1, <4>3
            <4> QED BY <4>2, <4>3
        <3> QED BY <3>3, <3>4, <3>5 DEF IsPeriodFor
    <2> QED BY <2>1, <2>2
<1> HIDE DEF found, inRange, closest
<1>6. ASSUME NEW k \in DOMAIN periods, NEW j \in DOMAIN periods,
             IsPeriodFor(periods, t, k), IsPeriodFor(periods, t, j)
      PROVE  k = j
    <2>1. k \in 1..Len(periods) /\ j \in 1..Len(periods) /\ Len(periods) \in Nat
        BY <1>1
    <2>2. CASE \E i \in DOMAIN periods : Covers(periods[i], t)
        BY <1>6, <2>1, <2>2 DEF IsPeriodFor
    <2>3. CASE ~ \E i \in DOMAIN periods : Covers(periods[i], t)
        BY <1>4, <1>6, <2>1, <2>3 DEF IsPeriodFor
    <2> QED BY <2>2, <2>3
<1>7. found = CHOOSE j \in DOMAIN periods : IsPeriodFor(periods, t, j)
    BY <1>5, <1>6
<1> QED BY <1>1, <1>3, <1>5, <1>7

--------------------------------------------------------------------------------
(* What was begun of a way, in steps and in long ways, as it is counted and as *)
(* it is divided.                                                              *)

LEMMA DivideIs ==
    ASSUME NEW a \in Nat, NEW b \in Nat \ {0}
    PROVE  a \div b \in Nat /\ (a \div b) * b <= a /\ a < (a \div b) * b + b
OBVIOUS

LEMMA MulMonotone ==
    ASSUME NEW a \in Nat, NEW b \in Nat, NEW c \in Nat, a <= b
    PROVE  a * c <= b * c /\ c * a <= c * b /\ a * c \in Nat /\ b * c \in Nat
OBVIOUS

LEMMA CountUpTo ==
    ASSUME NEW c \in Nat
    PROVE  /\ IsFiniteSet(0..(c - 1)) /\ Cardinality(0..(c - 1)) = c
           /\ IsFiniteSet(1..c) /\ Cardinality(1..c) = c
<1>1. /\ IsFiniteSet(0..(c - 1))
      /\ Cardinality(0..(c - 1)) = IF 0 > c - 1 THEN 0 ELSE (c - 1) - 0 + 1
    BY FS_Interval
<1>2. IsFiniteSet(1..c) /\ Cardinality(1..c) = IF 1 > c THEN 0 ELSE c - 1 + 1
    BY FS_Interval
<1> QED BY <1>1, <1>2

StepsBegun(p, d) == {n \in 0..d : p.baseDistance + n * p.incrementalDistance < d}
LongWays(p, d)   == {n \in 1..d : n * p.longDistance <= d /\ p.longDistance > 0}

(* No number of steps makes up the way exactly when a step is no way. *)
LEMMA EndlessIs ==
    ASSUME NEW p \in PricingPeriod, NEW d \in Nat
    PROVE  Endless(p, d) <=> d > p.baseDistance /\ p.incrementalDistance = 0
<1>1. p.baseDistance \in Nat /\ p.incrementalDistance \in Nat
    BY DEF PricingPeriod
<1>2. ASSUME Endless(p, d) PROVE d > p.baseDistance
    <2>1. 0 \in 0..d /\ 0 * p.incrementalDistance = 0
        BY <1>1
    <2>2. p.baseDistance + 0 * p.incrementalDistance < d
        BY <1>2, <2>1 DEF Endless
    <2> QED BY <1>1, <2>1, <2>2
<1>3. ASSUME Endless(p, d) PROVE p.incrementalDistance = 0
    <2> SUFFICES ASSUME p.incrementalDistance /= 0 PROVE FALSE
        OBVIOUS
    <2>1. d * 1 <= d * p.incrementalDistance /\ d * p.incrementalDistance \in Nat
        BY <1>1, MulMonotone
    <2>2. p.baseDistance + d * p.incrementalDistance < d
        BY <1>3 DEF Endless
    <2> QED BY <1>1, <2>1, <2>2
<1>4. ASSUME d > p.baseDistance, p.incrementalDistance = 0 PROVE Endless(p, d)
    <2>1. \A n \in 0..d : n * 0 = 0
        OBVIOUS
    <2> QED BY <1>1, <1>4, <2>1 DEF Endless
<1> QED BY <1>2, <1>3, <1>4

LEMMA BegunIs ==
    ASSUME NEW p \in PricingPeriod, NEW d \in Nat, ~ Endless(p, d)
    PROVE  /\ Begun(p, d) = IF d > p.baseDistance
                              THEN CeilDiv(d - p.baseDistance, p.incrementalDistance) ELSE 0
           /\ IsFiniteSet(StepsBegun(p, d)) /\ Begun(p, d) \in Nat
<1>1. /\ p.baseDistance \in Nat /\ p.incrementalDistance \in Nat
      /\ d > p.baseDistance => p.incrementalDistance \in Nat \ {0}
    BY EndlessIs DEF PricingPeriod
<1> DEFINE base == p.baseDistance  s == p.incrementalDistance
<1>2. Begun(p, d) = Cardinality(StepsBegun(p, d))
    BY DEF Begun, StepsBegun
<1>3. CASE d > base
    <2>1. PICK x \in Nat : x = d - base /\ x > 0 /\ x <= d /\ s \in Nat \ {0}
        BY <1>1, <1>3
    <2>2. PICK c \in Nat : c = CeilDiv(x, s) /\ c * s <= x + s - 1 /\ x + s - 1 < c * s + s
        <3>1. x + s - 1 \in Nat
            BY <2>1
        <3> QED BY <2>1, <3>1, DivideIs DEF CeilDiv
    <2> HIDE DEF base, s
    <2>3. \A n \in Nat : base + n * s < d <=> n < c
        <3> TAKE n \in Nat
        <3>1. n * s \in Nat /\ c * s \in Nat /\ (n + 1) * s = n * s + s
            BY <1>1 DEF s
        <3>2. CASE n < c
            <4>1. (n + 1) * s <= c * s
                BY <1>1, <3>2, MulMonotone DEF s
            <4> QED BY <1>1, <2>1, <2>2, <3>1, <3>2, <4>1 DEF base, s
        <3>3. CASE ~ (n < c)
            <4>1. c * s <= n * s
                BY <1>1, <3>3, MulMonotone DEF s
            <4> QED BY <1>1, <2>1, <2>2, <3>1, <3>3, <4>1 DEF base, s
        <3> QED BY <3>2, <3>3
    <2>4. c <= d
        <3> SUFFICES ASSUME c > d PROVE FALSE
            BY <2>2
        <3>1. base + d * s < d
            BY <2>3
        <3>2. d * 1 <= d * s /\ d * s \in Nat
            BY <2>1, MulMonotone
        <3> QED BY <1>1, <3>1, <3>2 DEF base, s
    <2>5. StepsBegun(p, d) = 0..(c - 1)
        BY <2>2, <2>3, <2>4 DEF StepsBegun, base, s
    <2> QED BY <1>2, <1>3, <2>1, <2>2, <2>5, CountUpTo DEF base, s
<1>4. CASE ~ (d > base)
    <2>1. \A n \in 0..d : ~ (base + n * s < d)
        <3> TAKE n \in 0..d
        <3>1. n * s \in Nat
            BY <1>1
        <3> QED BY <1>1, <1>4, <3>1
    <2>2. StepsBegun(p, d) = {}
        BY <2>1 DEF StepsBegun
    <2> QED BY <1>2, <1>4, <2>2, FS_EmptySet
<1> QED BY <1>3, <1>4

LEMMA LongIs ==
    ASSUME NEW p \in PricingPeriod, NEW d \in Nat
    PROVE  /\ Long(p, d) = IF d >= p.longDistance /\ p.longDistance > 0
                             THEN d \div p.longDistance ELSE 0
           /\ IsFiniteSet(LongWays(p, d)) /\ Long(p, d) \in Nat
<1>1. p.longDistance \in Nat
    BY DEF PricingPeriod
<1> DEFINE l == p.longDistance
<1>2. Long(p, d) = Cardinality(LongWays(p, d))
    BY DEF Long, LongWays
<1>3. CASE d >= l /\ l > 0
    <2> HIDE DEF l
    <2>1. PICK c \in Nat : c = d \div l /\ c * l <= d /\ d < c * l + l
        <3>1. l \in Nat \ {0}
            BY <1>1, <1>3 DEF l
        <3>2. d \div l \in Nat /\ (d \div l) * l <= d /\ d < (d \div l) * l + l
            BY <3>1, DivideIs
        <3> QED BY <3>2
    <2>2. \A n \in Nat : n * l <= d <=> n <= c
        <3> TAKE n \in Nat
        <3>1. n * l \in Nat /\ c * l \in Nat /\ (c + 1) * l = c * l + l
            BY <1>1 DEF l
        <3>2. CASE n <= c
            <4>1. n * l <= c * l
                BY <1>1, <3>2, MulMonotone DEF l
            <4> QED BY <2>1, <3>1, <3>2, <4>1
        <3>3. CASE ~ (n <= c)
            <4>1. (c + 1) * l <= n * l
                BY <1>1, <3>3, MulMonotone DEF l
            <4> QED BY <1>1, <2>1, <3>1, <3>3, <4>1 DEF l
        <3> QED BY <3>2, <3>3
    <2>3. c <= d
        <3>1. c * 1 <= c * l /\ c * l \in Nat
            BY <1>1, <1>3, MulMonotone DEF l
        <3> QED BY <2>1, <3>1
    <2>4. LongWays(p, d) = 1..c
        BY <1>3, <2>2, <2>3 DEF LongWays, l
    <2> QED BY <1>2, <1>3, <2>1, <2>4, CountUpTo DEF l
<1>4. CASE ~ (d >= l /\ l > 0)
    <2>1. \A n \in 1..d : ~ (n * l <= d /\ l > 0)
        <3> TAKE n \in 1..d
        <3>1. 1 * l <= n * l /\ n * l \in Nat
            BY <1>1, MulMonotone
        <3> QED BY <1>1, <1>4, <3>1
    <2>2. LongWays(p, d) = {}
        BY <2>1 DEF LongWays
    <2> QED BY <1>2, <1>4, <2>2, FS_EmptySet
<1> QED BY <1>3, <1>4

(* The price of the reference is the price of the code, and no shorter way     *)
(* costs more.                                                                 *)
Counted(p, d) == p.baseFare + Begun(p, d) * p.incrementalRate + Long(p, d) * p.longDistanceSurcharge

LEMMA CountedIs ==
    ASSUME NEW p \in PricingPeriod, NEW d \in Nat
    PROVE  /\ PeriodFare(p, d) = IF Endless(p, d) THEN NoPrice ELSE Counted(p, d)
           /\ ~ Endless(p, d) => Counted(p, d) \in Nat
<1>0. CASE Endless(p, d)
    BY <1>0, EndlessIs DEF PeriodFare
<1> SUFFICES ASSUME ~ Endless(p, d)
             PROVE  PeriodFare(p, d) = Counted(p, d) /\ Counted(p, d) \in Nat
    BY <1>0
<1>1. /\ p.baseFare \in Nat /\ p.incrementalRate \in Nat /\ p.longDistanceSurcharge \in Nat
    BY DEF PricingPeriod
<1>2. 0 * p.incrementalRate = 0 /\ 0 * p.longDistanceSurcharge = 0
    BY <1>1
<1>3. PeriodFare(p, d) = Counted(p, d)
    <2>1. (IF d > p.baseDistance
             THEN CeilDiv(d - p.baseDistance, p.incrementalDistance) * p.incrementalRate ELSE 0)
          = Begun(p, d) * p.incrementalRate
        BY <1>2, BegunIs
    <2>2. (IF d >= p.longDistance /\ p.longDistance > 0
             THEN (d \div p.longDistance) * p.longDistanceSurcharge ELSE 0)
          = Long(p, d) * p.longDistanceSurcharge
        BY <1>2, LongIs
    <2> QED BY <2>1, <2>2, EndlessIs DEF PeriodFare, Counted
<1>4. Begun(p, d) \in Nat /\ Long(p, d) \in Nat
    BY BegunIs, LongIs
<1>5. Begun(p, d) * p.incrementalRate \in Nat /\ Long(p, d) * p.longDistanceSurcharge \in Nat
    BY <1>1, <1>4, MulMonotone
<1> QED BY <1>1, <1>3, <1>5 DEF Counted

LEMMA ShorterCostsNoMore ==
    ASSUME NEW p \in PricingPeriod, NEW d \in Nat, NEW e \in Nat, d <= e, ~ Endless(p, e)
    PROVE  ~ Endless(p, d) /\ Counted(p, d) <= Counted(p, e)
<1>0. ~ Endless(p, d)
    BY EndlessIs DEF PricingPeriod
<1>1. /\ p.baseFare \in Nat /\ p.incrementalRate \in Nat /\ p.longDistanceSurcharge \in Nat
      /\ p.baseDistance \in Nat /\ p.incrementalDistance \in Nat /\ p.longDistance \in Nat
    BY DEF PricingPeriod
<1>2. Begun(p, d) <= Begun(p, e) /\ Begun(p, d) \in Nat /\ Begun(p, e) \in Nat
    <2>1. StepsBegun(p, d) \subseteq StepsBegun(p, e)
        <3> SUFFICES ASSUME NEW n \in 0..d, p.baseDistance + n * p.incrementalDistance < d
                     PROVE  n \in 0..e /\ p.baseDistance + n * p.incrementalDistance < e
            BY DEF StepsBegun
        <3>1. n * p.incrementalDistance \in Nat
            BY <1>1, MulMonotone
        <3> QED BY <1>1, <3>1
    <2>2. Begun(p, d) = Cardinality(StepsBegun(p, d)) /\ Begun(p, e) = Cardinality(StepsBegun(p, e))
        BY DEF Begun, StepsBegun
    <2> QED BY <1>0, <2>1, <2>2, BegunIs, FS_Subset
<1>3. Long(p, d) <= Long(p, e) /\ Long(p, d) \in Nat /\ Long(p, e) \in Nat
    <2>1. LongWays(p, d) \subseteq LongWays(p, e)
        <3> SUFFICES ASSUME NEW n \in 1..d, n * p.longDistance <= d
                     PROVE  n \in 1..e /\ n * p.longDistance <= e
            BY DEF LongWays
        <3>1. n * p.longDistance \in Nat
            BY <1>1, MulMonotone
        <3> QED BY <3>1
    <2>2. Long(p, d) = Cardinality(LongWays(p, d)) /\ Long(p, e) = Cardinality(LongWays(p, e))
        BY DEF Long, LongWays
    <2> QED BY <2>1, <2>2, LongIs, FS_Subset
<1>4. /\ Begun(p, d) * p.incrementalRate <= Begun(p, e) * p.incrementalRate
      /\ Begun(p, d) * p.incrementalRate \in Nat /\ Begun(p, e) * p.incrementalRate \in Nat
    BY <1>1, <1>2, MulMonotone
<1>5. /\ Long(p, d) * p.longDistanceSurcharge <= Long(p, e) * p.longDistanceSurcharge
      /\ Long(p, d) * p.longDistanceSurcharge \in Nat /\ Long(p, e) * p.longDistanceSurcharge \in Nat
    BY <1>1, <1>3, MulMonotone
<1> QED BY <1>0, <1>1, <1>4, <1>5 DEF Counted

--------------------------------------------------------------------------------
(* A price of a list. *)

FactorOf(factors) == IF factors = {} THEN 1 ELSE Greatest(factors)

PriceOf(periods, time, factors, distance) ==
    IF periods = <<>> THEN CalculateFare(distance)
    ELSE ZonedFare(PeriodFare(FindApplicablePricingPeriod(periods, time), distance), FactorOf(factors))

PricedFairly(q) == /\ q.price = FareOf(q, q.distance)
                   /\ q.price /= NoPrice =>
                         \A d \in Distances : d <= q.distance => FareOf(q, d) \in 0..q.price

LEMMA PriceIsFair ==
    ASSUME NEW q \in VehiclePrice, FactorOf(q.factors) \in Nat,
           q.price = PriceOf(q.periods, q.time, q.factors, q.distance)
    PROVE  PricedFairly(q)
<1>1. /\ q.periods \in Seq(PricingPeriod) /\ q.time \in Times /\ q.distance \in Distances
      /\ Distances \subseteq Nat
    BY FaresAssumption DEF VehiclePrice
<1>2. CASE q.periods = <<>>
    <2>1. ASSUME NEW d \in Nat
          PROVE  CalculateFare(d) = 300 + 175 * d /\ 300 + 175 * d \in Nat
        BY DEF CalculateFare, EstimateDuration
    <2>2. \A d \in Distances : FareOf(q, d) = 300 + 175 * d
        BY <1>2, Zenon DEF FareOf
    <2>3. q.price = CalculateFare(q.distance)
        BY <1>2, Zenon DEF PriceOf
    <2>4. \A d, e \in Nat : d <= e => 300 + 175 * d <= 300 + 175 * e
        OBVIOUS
    <2>5. q.distance \in Nat /\ q.price = 300 + 175 * q.distance
        BY <1>1, <2>1, <2>3
    <2>6. ASSUME NEW d \in Distances, d <= q.distance
          PROVE  300 + 175 * d <= 300 + 175 * q.distance
        BY <1>1, <2>4, <2>5, <2>6
    <2>7. q.price = FareOf(q, q.distance)
        BY <1>1, <2>2, <2>5
    <2>8. \A d \in Distances : d <= q.distance => FareOf(q, d) \in 0..q.price
        <3>1. \A a, b \in Nat : a <= b => a \in 0..b
            OBVIOUS
        <3>2. ASSUME NEW d \in Distances, d <= q.distance PROVE FareOf(q, d) \in 0..q.price
            <4>1. 300 + 175 * d \in Nat /\ 300 + 175 * q.distance \in Nat
                BY <1>1, <2>1, ZenonT(60)
            <4>2. 300 + 175 * d <= 300 + 175 * q.distance
                BY <2>6, <3>2
            <4>3. FareOf(q, d) = 300 + 175 * d /\ q.price = 300 + 175 * q.distance
                BY <2>2, <2>5
            <4> QED BY <3>1, <4>1, <4>2, <4>3, ZenonT(60)
        <3> QED BY <3>2
    <2> QED BY <2>7, <2>8 DEF PricedFairly
<1>3. CASE q.periods /= <<>>
    <2>1. PICK k \in DOMAIN q.periods :
              /\ k = CHOOSE j \in DOMAIN q.periods : IsPeriodFor(q.periods, q.time, j)
              /\ FindApplicablePricingPeriod(q.periods, q.time) = q.periods[k]
              /\ q.periods[k] \in PricingPeriod
        BY <1>1, <1>3, PeriodFound
    <2>2. PICK p \in PricingPeriod : p = q.periods[k]
        BY <2>1
    <2>3. PICK f \in Nat : f = FactorOf(q.factors)
        OBVIOUS
    <2>4. \A d \in Distances :
              FareOf(q, d) = IF Endless(p, d) THEN NoPrice ELSE Counted(p, d) * f
        BY <1>3, <2>1, <2>2, <2>3 DEF FareOf, Counted, FactorOf
    <2>5. \A d \in Distances :
              /\ ~ Endless(p, d) => Counted(p, d) \in Nat /\ Counted(p, d) /= NoPrice
              /\ PeriodFare(p, d) = IF Endless(p, d) THEN NoPrice ELSE Counted(p, d)
        BY <1>1, CountedIs, FaresAssumption
    <2>6. q.price = ZonedFare(PeriodFare(p, q.distance), f)
        BY <1>3, <2>1, <2>2, <2>3 DEF PriceOf
    <2>7. q.price = FareOf(q, q.distance)
        BY <1>1, <2>4, <2>5, <2>6 DEF ZonedFare
    <2>8. ASSUME q.price /= NoPrice, NEW d \in Distances, d <= q.distance
          PROVE  FareOf(q, d) \in 0..q.price
        <3>1. ~ Endless(p, q.distance)
            BY <1>1, <2>4, <2>7, <2>8
        <3>2. ~ Endless(p, d) /\ Counted(p, d) <= Counted(p, q.distance)
            BY <1>1, <2>8, <3>1, ShorterCostsNoMore
        <3>3. /\ Counted(p, d) * f <= Counted(p, q.distance) * f
              /\ Counted(p, d) * f \in Nat /\ Counted(p, q.distance) * f \in Nat
            BY <1>1, <2>5, <3>1, <3>2, MulMonotone
        <3>4. /\ FareOf(q, d) = Counted(p, d) * f
              /\ q.price = Counted(p, q.distance) * f
            BY <1>1, <2>4, <2>7, <3>1, <3>2
        <3>5. \A a, b \in Nat : a <= b => a \in 0..b
            OBVIOUS
        <3> QED BY <3>3, <3>4, <3>5, Zenon
    <2> QED BY <2>7, <2>8 DEF PricedFairly
<1> QED BY <1>2, <1>3

(* A place has at most one multiplier. *)
LEMMA MultiplierIs ==
    ASSUME zone \in [ZoneNames -> ZoneForms \cup {NoForm}], NEW place
    PROVE  \E m \in Nat : MultiplierAt(place) \subseteq {m}
<1> DEFINE around == {z \in ZoneNames : /\ zone[z] /= NoForm /\ zone[z].active
                                        /\ place \in zone[z].covers}
           nearest == CHOOSE z \in around : \A y \in around : zone[z].radius <= zone[y].radius
<1>1. \A z \in around : zone[z] \in PricingZone
    BY FormsAssumption
<1>2. CASE around = {}
    BY <1>2 DEF MultiplierAt, FindZoneForLocation
<1>3. CASE around /= {}
    <2> DEFINE radii == {zone[z].radius : z \in around}
    <2>1. radii \in SUBSET Nat /\ radii /= {}
        BY <1>1, <1>3 DEF PricingZone
    <2>2. Least(radii) \in radii /\ \A j \in radii : Least(radii) <= j
        BY <2>1, LeastOf
    <2>3. \E z \in around : \A y \in around : zone[z].radius <= zone[y].radius
        BY <2>2
    <2>4. nearest \in around
        BY <2>3
    <2>5. FindZoneForLocation(place) = zone[nearest]
        BY <1>3 DEF FindZoneForLocation
    <2> HIDE DEF nearest
    <2>6. MultiplierAt(place) = {zone[nearest].multiplier}
        BY <2>4, <2>5 DEF MultiplierAt
    <2>7. zone[nearest].multiplier \in Nat
        BY <1>1, <2>4 DEF PricingZone
    <2> QED BY <2>6, <2>7
<1> QED BY <1>2, <1>3

LEMMA FactorIs ==
    ASSUME NEW F, NEW m \in Nat, NEW n \in Nat, F \subseteq {m, n}
    PROVE  F \in SUBSET Nat /\ FactorOf(F) \in Nat
<1>1. CASE F = {}
    BY <1>1 DEF FactorOf
<1>2. CASE F /= {}
    <2>1. \E k \in F : \A j \in F : j <= k
        <3>1. CASE m \in F /\ n \in F
            <4>1. CASE m <= n
                BY <3>1, <4>1
            <4>2. CASE ~ (m <= n)
                BY <3>1, <4>2
            <4> QED BY <4>1, <4>2
        <3>2. CASE ~ (m \in F /\ n \in F)
            <4>1. PICK k \in F : TRUE
                BY <1>2
            <4>2. \A j \in F : j = k
                BY <3>2, <4>1
            <4> QED BY <4>1, <4>2
        <3> QED BY <3>1, <3>2
    <2>2. Greatest(F) \in F
        BY <2>1 DEF Greatest
    <2> QED BY <1>2, <2>2 DEF FactorOf
<1> QED BY <1>1, <1>2

--------------------------------------------------------------------------------
(* The invariant: a list of quotes goes on with the types and the way it was    *)
(* asked for, and while no zone has changed every type of it is priced in the   *)
(* zones of now; one settings document, until two first requests have met.      *)

FaresKinds == {"none", "quote", "createType", "updateType", "removeType", "createZone", "updateZone",
               "removeZone", "settings"}
QuoteSteps == {"pickupZone", "dropoffZone"}
SettingsSteps == {"createSettings", "writeSettings"}
FaresSteps == QuoteSteps \cup SettingsSteps \cup Finished \cup {"idle"}

FaresTypes ==
    /\ FaresTypeOK
    /\ op \in [Requests -> FaresKinds] /\ at \in [Requests -> FaresSteps]

FactorsNow(r) ==
    IF NoPlace \in {quoting[r].from, quoting[r].to} THEN {}
    ELSE MultiplierAt(quoting[r].from) \cup MultiplierAt(quoting[r].to)

QuoteHandler(r) ==
    at[r] \in QuoteSteps =>
        /\ op[r] = "quote" /\ quoting[r].left /= {}
        /\ \A v \in quoting[r].left : quoting[r].of[v] /= NoForm
        /\ at[r] = "dropoffZone" =>
               /\ PeriodsFor(r) /= <<>> /\ NoPlace \notin {quoting[r].from, quoting[r].to}
               /\ AllEqual(quoting[r].pickup)
               /\ r \notin stirred => quoting[r].pickup = MultiplierAt(quoting[r].from)

ShownInOrder(q) ==
    /\ PricedFairly(q) /\ Received(q.of)
    /\ at[q.of] \in QuoteSteps /\ q.of \notin stirred /\ q.periods /= <<>> =>
           q.factors = FactorsNow(q.of)

SamePlaces(q, s) ==
    (q.of = s.of /\ q.of \notin stirred /\ <<>> \notin {q.periods, s.periods})
        => q.factors = s.factors

FirstRequestsMet == \E r \in stirred : op[r] = "settings"

SettingsInOrder ==
    \/ FirstRequestsMet
    \/ Len(settings) <= 1 /\ (settings /= <<>> => \A r \in Requests : at[r] /= "createSettings")

FaresInv ==
    /\ FaresTypes
    /\ \A r \in Requests : QuoteHandler(r) /\ (at[r] = "createSettings" => op[r] = "settings")
    /\ \A q \in quotes : ShownInOrder(q)
    /\ \A q, s \in quotes : SamePlaces(q, s)
    /\ SettingsInOrder

--------------------------------------------------------------------------------
(* A list that a step does not price. *)

SameHandler(q) ==
    /\ op'[q] = op[q] /\ quoting'[q] = quoting[q]
    /\ at'[q] \in QuoteSteps => at'[q] = at[q] /\ (zone' = zone \/ q \in stirred')

GoesOn(q) ==
    Received(q) =>
        /\ op'[q] = op[q]
        /\ at'[q] \in QuoteSteps /\ q \notin stirred' =>
               /\ at[q] \in QuoteSteps /\ zone' = zone
               /\ quoting'[q].from = quoting[q].from /\ quoting'[q].to = quoting[q].to

LEMMA SameGoesOn ==
    ASSUME NEW q, SameHandler(q)
    PROVE  GoesOn(q)
BY DEF SameHandler, GoesOn

LEMMA SameZones ==
    ASSUME zone' = zone, NEW place
    PROVE  MultiplierAt(place)' = MultiplierAt(place)
BY DEF MultiplierAt, FindZoneForLocation

LEMMA HandlerGoesOn ==
    ASSUME FaresInv, NEW q \in Requests, SameHandler(q), stirred \subseteq stirred'
    PROVE  QuoteHandler(q)'
<1> SUFFICES ASSUME at'[q] \in QuoteSteps PROVE QuoteHandler(q)'
    BY DEF QuoteHandler
<1>1. /\ at'[q] = at[q] /\ op'[q] = op[q] /\ quoting'[q] = quoting[q]
      /\ zone' = zone \/ q \in stirred'
    BY DEF SameHandler
<1>2. QuoteHandler(q) /\ at[q] \in QuoteSteps
    BY <1>1 DEF FaresInv
<1>3. PeriodsFor(q)' = PeriodsFor(q)
    BY <1>1 DEF PeriodsFor, NextType
<1>4. q \notin stirred' => q \notin stirred /\ MultiplierAt(quoting[q].from)' = MultiplierAt(quoting[q].from)
    <2>1. CASE zone' = zone
        <3>1. quoting'[q].from = quoting[q].from
            BY <1>1
        <3>2. MultiplierAt(quoting[q].from)' = MultiplierAt(quoting[q].from)
            BY <1>1, <2>1 DEF MultiplierAt, FindZoneForLocation
        <3> QED BY <3>2
    <2> QED BY <1>1, <2>1
<1> QED BY <1>1, <1>2, <1>3, <1>4 DEF QuoteHandler

LEMMA ShownGoesOn ==
    ASSUME FaresInv, NEW q \in quotes, GoesOn(q.of), stirred \subseteq stirred'
    PROVE  ShownInOrder(q)'
<1>1. ShownInOrder(q) /\ Received(q.of)
    BY DEF FaresInv, ShownInOrder
<1>2. Received(q.of)' /\ PricedFairly(q)'
    BY <1>1 DEF GoesOn, Received, ShownInOrder
<1>3. ASSUME at'[q.of] \in QuoteSteps, q.of \notin stirred', q.periods /= <<>>
      PROVE  q.factors = FactorsNow(q.of)'
    <2>1. /\ at[q.of] \in QuoteSteps /\ q.of \notin stirred /\ zone' = zone
          /\ quoting'[q.of].from = quoting[q.of].from /\ quoting'[q.of].to = quoting[q.of].to
        BY <1>1, <1>3 DEF GoesOn
    <2>2. FactorsNow(q.of)' = FactorsNow(q.of)
        BY <2>1 DEF FactorsNow, MultiplierAt, FindZoneForLocation
    <2> QED BY <1>1, <1>3, <2>1, <2>2 DEF ShownInOrder
<1> QED BY <1>2, <1>3 DEF ShownInOrder

LEMMA SettingsGoOn ==
    ASSUME FaresInv, stirred \subseteq stirred', settings' = settings,
           \A q \in Requests : Received(q) => op'[q] = op[q],
           \A q \in Requests : at'[q] = "createSettings" => at[q] = "createSettings" \/ settings = <<>>
    PROVE  SettingsInOrder'
<1>1. FirstRequestsMet => FirstRequestsMet'
    <2> SUFFICES ASSUME NEW r \in stirred, op[r] = "settings" PROVE r \in stirred' /\ op'[r] = "settings"
        BY DEF FirstRequestsMet
    <2>1. r \in Requests
        BY DEF FaresInv, FaresTypes, FaresTypeOK
    <2> QED BY <2>1 DEF Received
<1> QED BY <1>1 DEF FaresInv, SettingsInOrder

LEMMA Unpriced ==
    ASSUME FaresInv, FaresTypes', NEW r \in Requests,
           quotes' = quotes, stirred \subseteq stirred',
           \A q \in Requests \ {r} : SameHandler(q) /\ (at'[q] = "createSettings" => at[q] = "createSettings"),
           GoesOn(r), QuoteHandler(r)', at'[r] = "createSettings" => op'[r] = "settings",
           SettingsInOrder'
    PROVE  FaresInv'
<1>1. \A q \in Requests : GoesOn(q) /\ QuoteHandler(q)'
    BY SameGoesOn, HandlerGoesOn
<1>2. \A q \in quotes : q.of \in Requests
    BY DEF FaresInv, FaresTypes, FaresTypeOK, VehiclePrice
<1>3. \A q \in quotes' : ShownInOrder(q)'
    BY <1>1, <1>2, ShownGoesOn
<1>4. \A q, s \in quotes' : SamePlaces(q, s)'
    BY DEF FaresInv, SamePlaces
<1>5. ASSUME NEW q \in Requests, at'[q] = "createSettings" PROVE op'[q] = "settings"
    BY <1>5 DEF SameHandler, FaresInv
<1> QED BY <1>1, <1>3, <1>4, <1>5 DEF FaresInv

(* The arrival of a request. *)
LEMMA FaresReceived ==
    ASSUME FaresInv, NEW r \in Requests, NEW kind \in FaresKinds \ {"none"},
           NEW step \in FaresSteps, Receive(r, kind, step)
    PROVE  /\ ~ Received(r) /\ op'[r] = kind /\ at'[r] = step
           /\ op' \in [Requests -> FaresKinds] /\ at' \in [Requests -> FaresSteps]
           /\ \A q \in Requests \ {r} : op'[q] = op[q] /\ at'[q] = at[q]
           /\ \A q \in Requests : Received(q) => op'[q] = op[q]
<1>1. ~ Received(r) /\ op' = [op EXCEPT ![r] = kind] /\ at' = [at EXCEPT ![r] = step]
    BY DEF Receive, IsNext, IsTurnOf
<1>2. op \in [Requests -> FaresKinds] /\ at \in [Requests -> FaresSteps]
    BY DEF FaresInv, FaresTypes
<1> QED BY <1>1, <1>2

LEMMA FaresStepped ==
    ASSUME FaresInv, NEW r \in Requests, NEW step \in FaresSteps, Goto(r, step)
    PROVE  /\ at'[r] = step /\ op' = op
           /\ op' \in [Requests -> FaresKinds] /\ at' \in [Requests -> FaresSteps]
           /\ \A q \in Requests \ {r} : at'[q] = at[q]
BY DEF Goto, FaresInv, FaresTypes

LEMMA IdleTyped == Idle \in Quoting
<1>1. (CHOOSE d \in Distances : TRUE) \in Distances
    BY FaresAssumption
<1>2. 0 \in Times
    BY FaresAssumption DEF Times
<1> QED BY <1>1, <1>2 DEF Idle, Quoting

LEMMA ListIsAsked ==
    ASSUME FaresInv, NEW r \in Requests, NEW capacity, NEW distance \in Distances,
           NEW from \in Places \cup {NoPlace}, NEW to \in Places \cup {NoPlace},
           GetVehiclesByCapacityAndPrice(r, capacity, distance, from, to)
    PROVE  FaresInv'
<1> DEFINE eligible == {v \in TypeNames : /\ vtype[v] /= NoForm /\ vtype[v].active
                                          /\ vtype[v].capacity >= capacity}
           step == IF eligible = {} THEN "failed" ELSE "pickupZone"
           new == [Idle EXCEPT !.left = eligible, !.of = vtype, !.distance = distance,
                               !.from = from, !.to = to]
<1>1. /\ Receive(r, "quote", step) /\ quoting' = [quoting EXCEPT ![r] = new]
      /\ UNCHANGED <<vtype, zone, settings, quotes, stirred>>
    BY DEF GetVehiclesByCapacityAndPrice
<1>2. step \in FaresSteps /\ "quote" \in FaresKinds \ {"none"} /\ step /= "createSettings"
    BY DEF FaresSteps, QuoteSteps, Finished, FaresKinds
<1>3. FaresTypes
    BY DEF FaresInv
<1>4. new \in Quoting
    BY <1>3, IdleTyped DEF Quoting, FaresTypes, FaresTypeOK
<1> HIDE DEF step
<1>5. /\ ~ Received(r) /\ op'[r] = "quote" /\ at'[r] = step
      /\ op' \in [Requests -> FaresKinds] /\ at' \in [Requests -> FaresSteps]
      /\ \A q \in Requests \ {r} : op'[q] = op[q] /\ at'[q] = at[q]
      /\ \A q \in Requests : Received(q) => op'[q] = op[q]
    BY <1>1, <1>2, FaresReceived
<1>6. quoting'[r].left = eligible /\ quoting'[r].of = vtype
    BY <1>1, <1>3 DEF FaresTypes, FaresTypeOK, Idle
<1>7. FaresTypes'
    BY <1>1, <1>3, <1>4, <1>5 DEF FaresTypes, FaresTypeOK
<1>8. \A q \in Requests \ {r} : SameHandler(q) /\ (at'[q] = "createSettings" => at[q] = "createSettings")
    BY <1>1, <1>3, <1>5 DEF SameHandler, FaresTypes, FaresTypeOK
<1>9. QuoteHandler(r)'
    BY <1>5, <1>6 DEF QuoteHandler, QuoteSteps, step
<1>10. GoesOn(r)
    BY <1>5 DEF GoesOn
<1>11. SettingsInOrder'
    <2>1. \A q \in Requests : at'[q] = "createSettings" => at[q] = "createSettings"
        BY <1>2, <1>5
    <2> QED BY <1>1, <1>5, <2>1, SettingsGoOn
<1> QED BY <1>1, <1>2, <1>5, <1>7, <1>8, <1>9, <1>10, <1>11, Unpriced

(* A price is shown. *)
LEMMA PriceShown ==
    ASSUME FaresInv, NEW r \in Requests, at[r] \in QuoteSteps, NEW time \in Times,
           NEW factors \in SUBSET Nat, FactorOf(factors) \in Nat, NEW price \in Nat \cup {NoPrice},
           price = PriceOf(PeriodsFor(r), time, factors, quoting[r].distance),
           PeriodsFor(r) /= <<>> /\ r \notin stirred => factors = FactorsNow(r),
           Show(r, time, factors, price)
    PROVE  FaresInv'
<1> DEFINE v == NextType(r)
           step == IF quoting[r].left = {v} THEN "done" ELSE "pickupZone"
           priced == [of |-> r, type |-> v, periods |-> PeriodsFor(r), time |-> time,
                     distance |-> quoting[r].distance, factors |-> factors, price |-> price]
           rest == [quoting[r] EXCEPT !.left = @ \ {v}, !.time = 0, !.pickup = {}]
<1>1. /\ quotes' = quotes \cup {priced} /\ Goto(r, step)
      /\ quoting' = [quoting EXCEPT ![r] = rest]
      /\ UNCHANGED <<vtype, zone, settings, stirred>>
    <2>1. quotes' = quotes \cup {priced} /\ Goto(r, step) /\ UNCHANGED <<vtype, zone, settings, stirred>>
        BY DEF Show
    <2>2. quoting' = [quoting EXCEPT ![r].left = @ \ {v}, ![r].time = 0, ![r].pickup = {}]
        BY DEF Show
    <2>3. quoting' = [quoting EXCEPT ![r] = rest]
        BY <2>2 DEF FaresInv, FaresTypes, FaresTypeOK
    <2> QED BY <2>1, <2>3
<1>2. step \in FaresSteps /\ step /= "dropoffZone" /\ step /= "createSettings"
    BY DEF FaresSteps, QuoteSteps, Finished
<1>3. FaresTypes /\ QuoteHandler(r) /\ quoting[r] \in Quoting
    BY DEF FaresInv, FaresTypes, FaresTypeOK
<1>4. op[r] = "quote" /\ quoting[r].left /= {} /\ \A w \in quoting[r].left : quoting[r].of[w] /= NoForm
    BY <1>3 DEF QuoteHandler
<1>5. v \in quoting[r].left /\ quoting[r].left \in SUBSET TypeNames
    BY <1>3, <1>4 DEF NextType, Quoting
<1>6. PeriodsFor(r) \in Seq(PricingPeriod)
    <2>1. quoting[r].of[v] \in TypeForms
        BY <1>3, <1>4, <1>5 DEF Quoting
    <2> QED BY <2>1, FormsAssumption DEF PeriodsFor, VehicleType
<1> HIDE DEF v, step
<1>7. PICK n \in VehiclePrice : n = priced
    BY <1>3, <1>5, <1>6 DEF VehiclePrice, Quoting
<1>8. PricedFairly(n)
    BY <1>7, PriceIsFair
<1>9. /\ at'[r] = step /\ op' = op
      /\ op' \in [Requests -> FaresKinds] /\ at' \in [Requests -> FaresSteps]
      /\ \A q \in Requests \ {r} : at'[q] = at[q]
    BY <1>1, <1>2, FaresStepped
<1>10. /\ quoting'[r].left = quoting[r].left \ {v} /\ quoting'[r].of = quoting[r].of
       /\ quoting'[r].from = quoting[r].from /\ quoting'[r].to = quoting[r].to
       /\ quoting'[r] \in Quoting /\ quoting' \in [Requests -> Quoting]
       /\ \A q \in Requests \ {r} : quoting'[q] = quoting[q]
    <2>1. 0 \in Times
        BY FaresAssumption DEF Times
    <2>2. /\ rest \in Quoting /\ rest.left = quoting[r].left \ {v} /\ rest.of = quoting[r].of
          /\ rest.from = quoting[r].from /\ rest.to = quoting[r].to
        BY <1>3, <2>1 DEF Quoting
    <2>3. quoting \in [Requests -> Quoting]
        BY <1>3 DEF FaresTypes, FaresTypeOK
    <2> HIDE DEF rest
    <2> QED BY <1>1, <2>2, <2>3
<1>11. n.of = r /\ n.periods = PeriodsFor(r) /\ n.factors = factors /\ quotes' = quotes \cup {n}
    BY <1>1, <1>7
<1>12. FaresTypes'
    BY <1>1, <1>3, <1>7, <1>9, <1>10, <1>11 DEF FaresTypes, FaresTypeOK
<1>13. \A q \in Requests \ {r} : SameHandler(q)
    BY <1>1, <1>9, <1>10 DEF SameHandler
<1>14. QuoteHandler(r)'
    BY <1>2, <1>4, <1>5, <1>9, <1>10 DEF QuoteHandler, QuoteSteps, step
<1>15. GoesOn(r)
    BY <1>1, <1>9, <1>10 DEF GoesOn
<1>16. \A q \in Requests : GoesOn(q) /\ QuoteHandler(q)'
    BY <1>1, <1>13, <1>14, <1>15, SameGoesOn, HandlerGoesOn
<1>17. FactorsNow(r)' = FactorsNow(r)
    <2>1. quoting'[r].from = quoting[r].from /\ quoting'[r].to = quoting[r].to /\ zone' = zone
        BY <1>1, <1>10
    <2>2. \A place : MultiplierAt(place)' = MultiplierAt(place)
        BY <2>1 DEF MultiplierAt, FindZoneForLocation
    <2> QED BY <2>1, <2>2 DEF FactorsNow
<1>18. ShownInOrder(n)'
    <2>1. Received(r)'
        BY <1>4, <1>9 DEF Received
    <2>2. r \notin stirred' /\ n.periods /= <<>> => n.factors = FactorsNow(r)'
        BY <1>1, <1>11, <1>17
    <2> QED BY <1>8, <1>11, <2>1, <2>2 DEF ShownInOrder
<1>19. \A q \in quotes : q.of \in Requests
    BY <1>3 DEF FaresTypes, FaresTypeOK, VehiclePrice
<1>20. \A q \in quotes' : ShownInOrder(q)'
    BY <1>1, <1>16, <1>11, <1>18, <1>19, ShownGoesOn
<1>21. \A q \in quotes : SamePlaces(q, n)' /\ SamePlaces(n, q)'
    <2> SUFFICES ASSUME NEW q \in quotes, q.of = r, r \notin stirred, q.periods /= <<>>,
                        PeriodsFor(r) /= <<>>
                 PROVE  q.factors = factors
        BY <1>1, <1>11 DEF SamePlaces
    <2>1. q.factors = FactorsNow(r)
        BY DEF FaresInv, ShownInOrder
    <2> QED BY <2>1
<1>22. \A q, s \in quotes' : SamePlaces(q, s)'
    <2>1. \A q, s \in quotes : SamePlaces(q, s)'
        BY <1>1 DEF FaresInv, SamePlaces
    <2>2. SamePlaces(n, n)'
        BY DEF SamePlaces
    <2> QED BY <1>11, <1>21, <2>1, <2>2
<1>23. SettingsInOrder'
    <2>1. \A q \in Requests : at'[q] = "createSettings" => at[q] = "createSettings"
        BY <1>2, <1>9
    <2> QED BY <1>1, <1>9, <2>1, SettingsGoOn
<1>24. \A q \in Requests : at'[q] = "createSettings" => op'[q] = "settings"
    BY <1>2, <1>9 DEF FaresInv
<1> QED BY <1>12, <1>16, <1>20, <1>22, <1>23, <1>24 DEF FaresInv

LEMMA PricedAt ==
    ASSUME FaresInv, NEW r \in Requests, at[r] \in QuoteSteps
    PROVE  /\ QuoteHandler(r) /\ quoting[r] \in Quoting /\ quoting[r].distance \in Distances
           /\ PeriodsFor(r) \in Seq(PricingPeriod) /\ quoting[r].distance \in Nat
<1>1. QuoteHandler(r) /\ quoting[r] \in Quoting
    BY DEF FaresInv, FaresTypes, FaresTypeOK
<1>2. NextType(r) \in quoting[r].left /\ quoting[r].of[NextType(r)] /= NoForm
    BY <1>1 DEF QuoteHandler, NextType
<1>3. quoting[r].of[NextType(r)] \in TypeForms
    BY <1>1, <1>2 DEF Quoting
<1>4. PeriodsFor(r) \in Seq(PricingPeriod)
    BY <1>3, FormsAssumption DEF PeriodsFor, VehicleType
<1> QED BY <1>1, <1>4, FaresAssumption DEF Quoting

LEMMA PriceTyped ==
    ASSUME NEW periods \in Seq(PricingPeriod), NEW time \in Times, NEW distance \in Nat,
           NEW factors, FactorOf(factors) \in Nat
    PROVE  PriceOf(periods, time, factors, distance) \in Nat \cup {NoPrice}
<1>1. CASE periods = <<>>
    <2>1. CalculateFare(distance) \in Nat
        BY DEF CalculateFare, EstimateDuration
    <2> QED BY <1>1, <2>1 DEF PriceOf
<1>2. CASE periods /= <<>>
    <2>1. PICK p \in PricingPeriod : FindApplicablePricingPeriod(periods, time) = p
        BY <1>2, PeriodFound
    <2>2. PICK fare \in Nat \cup {NoPrice} : fare = PeriodFare(p, distance)
        BY CountedIs
    <2>3. fare \in Nat => fare * FactorOf(factors) \in Nat
        BY MulMonotone
    <2>4. PriceOf(periods, time, factors, distance) = ZonedFare(fare, FactorOf(factors))
        BY <1>2, <2>1, <2>2, Zenon DEF PriceOf
    <2> QED BY <2>3, <2>4 DEF ZonedFare
<1> QED BY <1>1, <1>2

LEMMA PricingPickup ==
    ASSUME FaresInv, NEW r \in Requests, PickupZone(r)
    PROVE  FaresInv'
<1>1. at[r] = "pickupZone" /\ at[r] \in QuoteSteps
    BY DEF PickupZone, At, QuoteSteps
<1>2. /\ QuoteHandler(r) /\ quoting[r] \in Quoting /\ quoting[r].distance \in Nat
      /\ PeriodsFor(r) \in Seq(PricingPeriod)
    BY <1>1, PricedAt
<1>3. FactorOf({}) = 1 /\ FactorOf({}) \in Nat /\ {} \in SUBSET Nat
    BY DEF FactorOf
<1>4. ASSUME NEW time \in Times, PeriodsFor(r) = <<>>,
             Show(r, time, {}, CalculateFare(quoting[r].distance))
      PROVE  FaresInv'
    <2>1. CalculateFare(quoting[r].distance) = PriceOf(PeriodsFor(r), time, {}, quoting[r].distance)
        BY <1>4, Zenon DEF PriceOf
    <2>2. CalculateFare(quoting[r].distance) \in Nat \cup {NoPrice}
        BY <1>2, <1>3, <2>1, PriceTyped
    <2> QED BY <1>1, <1>3, <1>4, <2>1, <2>2, PriceShown
<1>5. ASSUME NEW time \in Times, PeriodsFor(r) /= <<>>,
             NoPlace \in {quoting[r].from, quoting[r].to},
             Show(r, time, {}, PeriodFare(FindApplicablePricingPeriod(PeriodsFor(r), time),
                                          quoting[r].distance))
      PROVE  FaresInv'
    <2> DEFINE fare == PeriodFare(FindApplicablePricingPeriod(PeriodsFor(r), time), quoting[r].distance)
    <2>1. fare \in Nat \cup {NoPrice}
        <3>1. PICK p \in PricingPeriod : FindApplicablePricingPeriod(PeriodsFor(r), time) = p
            BY <1>2, <1>5, PeriodFound
        <3> QED BY <1>2, <3>1, CountedIs
    <2>2. PriceOf(PeriodsFor(r), time, {}, quoting[r].distance) = ZonedFare(fare, FactorOf({}))
        BY <1>5, Zenon DEF PriceOf
    <2>3. fare = PriceOf(PeriodsFor(r), time, {}, quoting[r].distance)
        <3> HIDE DEF fare
        <3> QED BY <1>3, <2>1, <2>2 DEF ZonedFare
    <2>4. FactorsNow(r) = {}
        BY <1>5 DEF FactorsNow
    <2>5. Show(r, time, {}, fare)
        BY <1>5
    <2> HIDE DEF fare
    <2> QED BY <1>1, <1>3, <2>1, <2>3, <2>4, <2>5, PriceShown
<1>6. ASSUME NEW time \in Times, PeriodsFor(r) /= <<>>,
             NoPlace \notin {quoting[r].from, quoting[r].to},
             quoting' = [quoting EXCEPT ![r].time = time,
                                        ![r].pickup = MultiplierAt(quoting[r].from)],
             Goto(r, "dropoffZone"), UNCHANGED <<vtype, zone, settings, quotes, stirred>>
      PROVE  FaresInv'
    <2>1. FaresTypes
        BY DEF FaresInv
    <2>2. "dropoffZone" \in FaresSteps
        BY DEF FaresSteps, QuoteSteps
    <2>3. /\ at'[r] = "dropoffZone" /\ op' = op
          /\ op' \in [Requests -> FaresKinds] /\ at' \in [Requests -> FaresSteps]
          /\ \A q \in Requests \ {r} : at'[q] = at[q]
        BY <1>6, <2>2, FaresStepped
    <2>4. PICK m \in Nat : MultiplierAt(quoting[r].from) \subseteq {m}
        BY <2>1, MultiplierIs DEF FaresTypes, FaresTypeOK
    <2>5. PICK pickup \in SUBSET Nat : pickup = MultiplierAt(quoting[r].from) /\ AllEqual(pickup)
        BY <2>4 DEF AllEqual
    <2>6. /\ quoting' \in [Requests -> Quoting] /\ quoting'[r].left = quoting[r].left
          /\ quoting'[r].of = quoting[r].of /\ quoting'[r].from = quoting[r].from
          /\ quoting'[r].to = quoting[r].to /\ quoting'[r].pickup = pickup
          /\ \A q \in Requests \ {r} : quoting'[q] = quoting[q]
        <3> DEFINE new == [quoting[r] EXCEPT !.time = time, !.pickup = pickup]
        <3>1. /\ new \in Quoting /\ new.left = quoting[r].left /\ new.of = quoting[r].of
              /\ new.from = quoting[r].from /\ new.to = quoting[r].to /\ new.pickup = pickup
            BY <1>2 DEF Quoting
        <3>2. quoting' = [quoting EXCEPT ![r] = new]
            BY <1>6, <2>1, <2>5 DEF FaresTypes, FaresTypeOK
        <3> HIDE DEF new
        <3> QED BY <2>1, <3>1, <3>2 DEF FaresTypes, FaresTypeOK
    <2>7. FaresTypes'
        BY <1>6, <2>1, <2>3, <2>6 DEF FaresTypes, FaresTypeOK
    <2>8. \A q \in Requests \ {r} : SameHandler(q) /\ (at'[q] = "createSettings" => at[q] = "createSettings")
        BY <1>6, <2>3, <2>6 DEF SameHandler
    <2>9. GoesOn(r)
        BY <1>1, <1>6, <2>3, <2>6 DEF GoesOn
    <2>10. PeriodsFor(r)' = PeriodsFor(r)
        BY <2>6 DEF PeriodsFor, NextType
    <2>11. MultiplierAt(quoting[r].from)' = MultiplierAt(quoting[r].from)
        <3>1. quoting'[r].from = quoting[r].from /\ zone' = zone
            BY <1>6, <2>6
        <3> QED BY <3>1 DEF MultiplierAt, FindZoneForLocation
    <2>12. QuoteHandler(r)'
        BY <1>1, <1>2, <1>6, <2>3, <2>5, <2>6, <2>10, <2>11 DEF QuoteHandler, QuoteSteps
    <2>13. SettingsInOrder'
        <3>1. \A q \in Requests : at'[q] = "createSettings" => at[q] = "createSettings"
            BY <2>3
        <3> QED BY <1>6, <2>3, <3>1, SettingsGoOn
    <2> QED BY <1>6, <2>3, <2>7, <2>8, <2>9, <2>12, <2>13, Unpriced
<1> QED BY <1>4, <1>5, <1>6, Zenon DEF PickupZone

LEMMA PricingDropoff ==
    ASSUME FaresInv, NEW r \in Requests, DropoffZone(r)
    PROVE  FaresInv'
<1>1. at[r] = "dropoffZone" /\ at[r] \in QuoteSteps
    BY DEF DropoffZone, At, QuoteSteps
<1>2. /\ QuoteHandler(r) /\ quoting[r] \in Quoting /\ quoting[r].distance \in Nat
      /\ PeriodsFor(r) \in Seq(PricingPeriod)
    BY <1>1, PricedAt
<1>3. /\ PeriodsFor(r) /= <<>> /\ NoPlace \notin {quoting[r].from, quoting[r].to}
      /\ AllEqual(quoting[r].pickup)
      /\ r \notin stirred => quoting[r].pickup = MultiplierAt(quoting[r].from)
    BY <1>1, <1>2 DEF QuoteHandler
<1> DEFINE factors == quoting[r].pickup \cup MultiplierAt(quoting[r].to)
           time == quoting[r].time
           price == ZonedFare(PeriodFare(FindApplicablePricingPeriod(PeriodsFor(r), time),
                                         quoting[r].distance), FactorOf(factors))
<1>4. Show(r, time, factors, price)
    BY DEF DropoffZone, FactorOf
<1>5. time \in Times
    BY <1>2 DEF Quoting
<1>6. factors \in SUBSET Nat /\ FactorOf(factors) \in Nat
    <2>1. PICK n \in Nat : MultiplierAt(quoting[r].to) \subseteq {n}
        BY MultiplierIs DEF FaresInv, FaresTypes, FaresTypeOK
    <2>2. PICK m \in Nat : quoting[r].pickup \subseteq {m}
        <3>1. quoting[r].pickup \in SUBSET Nat
            BY <1>2 DEF Quoting
        <3>2. CASE quoting[r].pickup = {}
            BY <3>2
        <3>3. CASE quoting[r].pickup /= {}
            BY <1>3, <3>1, <3>3 DEF AllEqual
        <3> QED BY <3>2, <3>3
    <2>3. factors \subseteq {m, n}
        BY <2>1, <2>2
    <2> HIDE DEF factors
    <2> QED BY <2>3, FactorIs
<1>7. r \notin stirred => factors = FactorsNow(r)
    BY <1>3 DEF FactorsNow
<1>8. price = PriceOf(PeriodsFor(r), time, factors, quoting[r].distance)
    BY <1>3, Zenon DEF PriceOf
<1> HIDE DEF price, factors, time
<1>9. price \in Nat \cup {NoPrice}
    BY <1>2, <1>5, <1>6, <1>8, PriceTyped
<1> QED BY <1>1, <1>4, <1>5, <1>6, <1>7, <1>8, <1>9, PriceShown

--------------------------------------------------------------------------------
(* Administrators, and the settings. *)

LEMMA FormWritten ==
    ASSUME FaresInv, NEW r \in Requests, NEW kind \in FaresKinds \ {"none"}, Receive(r, kind, "done"),
           vtype' \in [TypeNames -> TypeForms \cup {NoForm}],
           zone' \in [ZoneNames -> ZoneForms \cup {NoForm}],
           stirred' = stirred \/ stirred' = stirred \cup RunningNow,
           zone' = zone \/ RunningNow \subseteq stirred',
           UNCHANGED <<settings, quoting, quotes>>
    PROVE  FaresInv'
<1>1. "done" \in FaresSteps /\ "done" \notin QuoteSteps
    BY DEF FaresSteps, Finished, QuoteSteps
<1>2. /\ ~ Received(r) /\ op'[r] = kind /\ at'[r] = "done"
      /\ op' \in [Requests -> FaresKinds] /\ at' \in [Requests -> FaresSteps]
      /\ \A q \in Requests \ {r} : op'[q] = op[q] /\ at'[q] = at[q]
      /\ \A q \in Requests : Received(q) => op'[q] = op[q]
    BY <1>1, FaresReceived
<1>3. FaresTypes /\ RunningNow \subseteq Requests
    BY DEF FaresInv, RunningNow
<1>4. FaresTypes'
    BY <1>2, <1>3 DEF FaresTypes, FaresTypeOK
<1>5. ASSUME NEW q \in Requests \ {r} PROVE SameHandler(q)
    <2>1. at[q] \in QuoteSteps => q \in RunningNow
        BY DEF FaresInv, QuoteHandler, RunningNow, Running, Received, QuoteSteps, Finished
    <2> QED BY <1>2, <2>1 DEF SameHandler
<1>6. QuoteHandler(r)' /\ GoesOn(r)
    BY <1>1, <1>2 DEF QuoteHandler, GoesOn
<1>7. \A q \in Requests : at'[q] = "createSettings" => at[q] = "createSettings"
    BY <1>2
<1>8. SettingsInOrder'
    BY <1>2, <1>7, SettingsGoOn
<1> QED BY <1>2, <1>4, <1>5, <1>6, <1>7, <1>8, Unpriced

LEMMA TypeRequest ==
    ASSUME FaresInv, NEW r \in Requests, TypeRoutes(r)
    PROVE  FaresInv'
<1>1. ASSUME NEW kind \in FaresKinds \ {"none"}, NEW v \in TypeNames,
             NEW form \in TypeForms \cup {NoForm}, TypeWritten(r, kind, v, form)
      PROVE  FaresInv'
    <2>1. /\ Receive(r, kind, "done") /\ vtype' = [vtype EXCEPT ![v] = form]
          /\ UNCHANGED <<zone, settings, quoting, quotes, stirred>>
        BY <1>1 DEF TypeWritten
    <2>2. /\ vtype' \in [TypeNames -> TypeForms \cup {NoForm}]
          /\ zone' \in [ZoneNames -> ZoneForms \cup {NoForm}]
        BY <2>1 DEF FaresInv, FaresTypes, FaresTypeOK
    <2> QED BY <2>1, <2>2, FormWritten
<1>2. {"createType", "updateType", "removeType"} \subseteq FaresKinds \ {"none"}
    BY DEF FaresKinds
<1> QED BY <1>1, <1>2 DEF TypeRoutes, CreateVehicleType, UpdateVehicleType, RemoveVehicleType

LEMMA ZoneRequest ==
    ASSUME FaresInv, NEW r \in Requests, ZoneRoutes(r)
    PROVE  FaresInv'
<1>1. {"createZone", "updateZone", "removeZone"} \subseteq FaresKinds \ {"none"}
    BY DEF FaresKinds
<1>2. zone \in [ZoneNames -> ZoneForms \cup {NoForm}] /\ vtype \in [TypeNames -> TypeForms \cup {NoForm}]
    BY DEF FaresInv, FaresTypes, FaresTypeOK
<1>3. ASSUME NEW kind \in FaresKinds \ {"none"}, NEW z \in ZoneNames,
             NEW form \in ZoneForms \cup {NoForm}, ZoneWritten(r, kind, z, form)
      PROVE  FaresInv'
    <2>1. /\ Receive(r, kind, "done") /\ zone' = [zone EXCEPT ![z] = form]
          /\ stirred' = stirred \cup RunningNow
          /\ UNCHANGED <<vtype, settings, quoting, quotes>>
        BY <1>3 DEF ZoneWritten
    <2>2. zone' \in [ZoneNames -> ZoneForms \cup {NoForm}] /\ RunningNow \subseteq stirred'
        BY <1>2, <2>1
    <2> QED BY <1>2, <2>1, <2>2, FormWritten
<1>4. ASSUME NEW z \in ZoneNames, NEW y \in ZoneNames, RenameZone(r, z, y)
      PROVE  FaresInv'
    <2>1. /\ Receive(r, "updateZone", "done") /\ zone' = [zone EXCEPT ![z] = NoForm, ![y] = zone[z]]
          /\ stirred' = stirred \cup RunningNow
          /\ UNCHANGED <<vtype, settings, quoting, quotes>>
        BY <1>4 DEF RenameZone
    <2>2. zone' \in [ZoneNames -> ZoneForms \cup {NoForm}] /\ RunningNow \subseteq stirred'
        BY <1>2, <2>1
    <2> QED BY <1>1, <1>2, <2>1, <2>2, FormWritten
<1> QED BY <1>1, <1>3, <1>4 DEF ZoneRoutes, CreateZone, UpdateZone, RemoveZone

LEMMA SettingsAsked ==
    ASSUME FaresInv, NEW r \in Requests, UseSettings(r)
    PROVE  FaresInv'
<1> DEFINE step == IF settings = <<>> THEN "createSettings" ELSE "writeSettings"
           doc == IF settings = <<>> THEN r ELSE Head(settings)
<1>1. /\ Receive(r, "settings", step) /\ quoting' = [quoting EXCEPT ![r].doc = doc]
      /\ UNCHANGED <<vtype, zone, settings, quotes, stirred>>
    BY DEF UseSettings
<1>2. step \in FaresSteps /\ step \notin QuoteSteps /\ "settings" \in FaresKinds \ {"none"}
    BY DEF FaresSteps, SettingsSteps, QuoteSteps, FaresKinds
<1>3. FaresTypes
    BY DEF FaresInv
<1>4. doc \in Requests
    BY <1>3, HeadTailProperties DEF FaresTypes, FaresTypeOK
<1> HIDE DEF doc
<1>5. quoting' \in [Requests -> Quoting] /\ \A q \in Requests \ {r} : quoting'[q] = quoting[q]
    <2> DEFINE new == [quoting[r] EXCEPT !.doc = doc]
    <2>1. new \in Quoting
        <3>1. quoting[r] \in Quoting /\ doc \in Requests \cup {0}
            BY <1>3, <1>4 DEF FaresTypes, FaresTypeOK
        <3> QED BY <3>1 DEF Quoting
    <2>2. quoting' = [quoting EXCEPT ![r] = new]
        BY <1>1, <1>3 DEF FaresTypes, FaresTypeOK
    <2> HIDE DEF new
    <2> QED BY <1>3, <2>1, <2>2 DEF FaresTypes, FaresTypeOK
<1>6. /\ ~ Received(r) /\ op'[r] = "settings" /\ at'[r] = step
      /\ op' \in [Requests -> FaresKinds] /\ at' \in [Requests -> FaresSteps]
      /\ \A q \in Requests \ {r} : op'[q] = op[q] /\ at'[q] = at[q]
      /\ \A q \in Requests : Received(q) => op'[q] = op[q]
    BY <1>1, <1>2, FaresReceived
<1>7. FaresTypes'
    BY <1>1, <1>3, <1>5, <1>6 DEF FaresTypes, FaresTypeOK
<1>8. \A q \in Requests \ {r} : SameHandler(q) /\ (at'[q] = "createSettings" => at[q] = "createSettings")
    BY <1>1, <1>5, <1>6 DEF SameHandler
<1>9. QuoteHandler(r)' /\ GoesOn(r)
    BY <1>2, <1>6 DEF QuoteHandler, GoesOn
<1>10. \A q \in Requests : at'[q] = "createSettings" => at[q] = "createSettings" \/ settings = <<>>
    BY <1>6
<1>11. SettingsInOrder'
    BY <1>1, <1>6, <1>10, SettingsGoOn
<1> QED BY <1>1, <1>6, <1>7, <1>8, <1>9, <1>11, Unpriced

LEMMA SettingsMade ==
    ASSUME FaresInv, NEW r \in Requests, CreateSettings(r)
    PROVE  FaresInv'
<1>1. /\ at[r] = "createSettings" /\ settings' = Append(settings, r)
      /\ stirred' = stirred \cup {q \in RunningNow \ {r} : op[q] = "settings"}
      /\ Goto(r, "writeSettings") /\ UNCHANGED <<vtype, zone, quoting, quotes>>
    BY DEF CreateSettings, At
<1>2. FaresTypes /\ op[r] = "settings" /\ RunningNow \subseteq Requests
    BY <1>1 DEF FaresInv, RunningNow
<1>3. "writeSettings" \in FaresSteps
    BY DEF FaresSteps, SettingsSteps
<1>4. /\ at'[r] = "writeSettings" /\ op' = op
      /\ op' \in [Requests -> FaresKinds] /\ at' \in [Requests -> FaresSteps]
      /\ \A q \in Requests \ {r} : at'[q] = at[q]
    BY <1>1, <1>3, FaresStepped
<1>5. settings' \in Seq(Requests) /\ Len(settings') = Len(settings) + 1 /\ Len(settings) \in Nat
    BY <1>1, <1>2, AppendProperties, LenProperties DEF FaresTypes, FaresTypeOK
<1>6. FaresTypes'
    BY <1>1, <1>2, <1>4, <1>5 DEF FaresTypes, FaresTypeOK
<1>7. \A q \in Requests \ {r} : SameHandler(q) /\ (at'[q] = "createSettings" => at[q] = "createSettings")
    BY <1>1, <1>4 DEF SameHandler
<1>8. QuoteHandler(r)' /\ GoesOn(r)
    BY <1>4 DEF QuoteHandler, GoesOn, QuoteSteps
<1>9. SettingsInOrder'
    <2>1. CASE FirstRequestsMet
        BY <1>1, <1>4, <2>1 DEF FirstRequestsMet, SettingsInOrder
    <2>2. CASE ~ FirstRequestsMet
        <3>1. settings = <<>>
            BY <1>1, <2>2 DEF FaresInv, SettingsInOrder
        <3>2. Len(settings') <= 1
            BY <1>5, <3>1, EmptySeq
        <3>3. CASE \E q \in Requests : at'[q] = "createSettings"
            <4>1. PICK q \in Requests : at'[q] = "createSettings"
                BY <3>3
            <4>2. q /= r /\ at[q] = "createSettings" /\ op[q] = "settings"
                BY <1>4, <4>1 DEF FaresInv
            <4>3. q \in stirred'
                BY <1>1, <4>2 DEF RunningNow, Running, Received, Finished
            <4> QED BY <1>4, <4>2, <4>3 DEF FirstRequestsMet, SettingsInOrder
        <3> QED BY <3>2, <3>3 DEF SettingsInOrder
    <2> QED BY <2>1, <2>2
<1> QED BY <1>1, <1>4, <1>6, <1>7, <1>8, <1>9, Unpriced

LEMMA SettingsWritten ==
    ASSUME FaresInv, NEW r \in Requests, WriteSettings(r)
    PROVE  FaresInv'
<1>1. Goto(r, "done") /\ UNCHANGED <<vtype, zone, settings, quoting, quotes, stirred>>
    BY DEF WriteSettings, faresVars
<1>2. "done" \in FaresSteps
    BY DEF FaresSteps, Finished
<1>3. /\ at'[r] = "done" /\ op' = op
      /\ op' \in [Requests -> FaresKinds] /\ at' \in [Requests -> FaresSteps]
      /\ \A q \in Requests \ {r} : at'[q] = at[q]
    BY <1>1, <1>2, FaresStepped
<1>4. FaresTypes'
    BY <1>1, <1>3 DEF FaresInv, FaresTypes, FaresTypeOK
<1>5. \A q \in Requests \ {r} : SameHandler(q) /\ (at'[q] = "createSettings" => at[q] = "createSettings")
    BY <1>1, <1>3 DEF SameHandler
<1>6. QuoteHandler(r)' /\ GoesOn(r)
    BY <1>3 DEF QuoteHandler, GoesOn, QuoteSteps
<1>7. SettingsInOrder'
    <2>1. \A q \in Requests : at'[q] = "createSettings" => at[q] = "createSettings"
        BY <1>3
    <2> QED BY <1>1, <1>3, <2>1, SettingsGoOn
<1> QED BY <1>1, <1>3, <1>4, <1>5, <1>6, <1>7, Unpriced

LEMMA FaresStopped ==
    ASSUME FaresInv, at' \in [Requests -> FaresSteps], op' = op, UNCHANGED faresVars,
           \A q \in Requests : at'[q] = at[q] \/ at'[q] = "lost"
    PROVE  FaresInv'
<1>1. UNCHANGED <<vtype, zone, settings, quoting, quotes, stirred>>
    BY DEF faresVars
<1>2. FaresTypes'
    BY <1>1 DEF FaresInv, FaresTypes, FaresTypeOK
<1>3. \A q \in Requests : SameHandler(q)
    BY <1>1 DEF SameHandler, QuoteSteps
<1>4. \A q \in Requests : at'[q] = "createSettings" => at[q] = "createSettings" /\ op'[q] = "settings"
    BY DEF FaresInv
<1>5. \A q \in Requests : QuoteHandler(q)' /\ GoesOn(q)
    BY <1>1, <1>3, HandlerGoesOn, SameGoesOn
<1>6. \A q \in quotes : q.of \in Requests
    BY DEF FaresInv, FaresTypes, FaresTypeOK, VehiclePrice
<1>7. \A q \in quotes' : ShownInOrder(q)'
    BY <1>1, <1>5, <1>6, ShownGoesOn
<1>8. \A q, s \in quotes' : SamePlaces(q, s)'
    BY <1>1 DEF FaresInv, SamePlaces
<1>9. SettingsInOrder'
    BY <1>1, <1>4, SettingsGoOn
<1> QED BY <1>2, <1>4, <1>5, <1>7, <1>8, <1>9 DEF FaresInv

LEMMA FaresInitially == HandlersInit /\ FaresInit => FaresInv
<1> SUFFICES ASSUME HandlersInit, FaresInit PROVE FaresInv
    OBVIOUS
<1>1. /\ op = [r \in Requests |-> "none"] /\ at = [r \in Requests |-> "idle"]
      /\ vtype \in InitialTypes /\ zone \in InitialZones /\ settings = <<>>
      /\ quoting = [r \in Requests |-> Idle] /\ quotes = {} /\ stirred = {}
    BY DEF HandlersInit, FaresInit
<1>2. "none" \in FaresKinds /\ "idle" \in FaresSteps
    BY DEF FaresKinds, FaresSteps
<1>3. quoting \in [Requests -> Quoting]
    BY <1>1, IdleTyped
<1>4. /\ vtype \in [TypeNames -> TypeForms \cup {NoForm}]
      /\ zone \in [ZoneNames -> ZoneForms \cup {NoForm}]
    BY <1>1, FormsAssumption
<1>5. settings \in Seq(Requests) /\ Len(settings) = 0
    BY <1>1, EmptySeq
<1>6. FaresTypes
    BY <1>1, <1>2, <1>3, <1>4, <1>5 DEF FaresTypes, FaresTypeOK
<1>7. \A r \in Requests : QuoteHandler(r) /\ (at[r] = "createSettings" => op[r] = "settings")
    BY <1>1 DEF QuoteHandler, QuoteSteps
<1>8. SettingsInOrder
    BY <1>1, <1>5 DEF SettingsInOrder
<1> QED BY <1>1, <1>6, <1>7, <1>8 DEF FaresInv

LEMMA FaresInvHolds == FaresSpec => []FaresInv
<1>1. ASSUME FaresInv, [FaresNext \/ (Stop /\ FaresStop)]_<<handlerVars, faresVars>>
      PROVE  FaresInv'
    <2>1. ASSUME NEW r \in Requests, QuoteRoutes(r) PROVE FaresInv'
        <3>1. ASSUME NEW capacity, NEW distance \in Distances,
                     NEW from \in Places \cup {NoPlace}, NEW to \in Places \cup {NoPlace},
                     GetVehiclesByCapacityAndPrice(r, capacity, distance, from, to)
              PROVE  FaresInv'
            BY <1>1, <3>1, ListIsAsked
        <3> QED BY <2>1, <3>1 DEF QuoteRoutes
    <2>2. ASSUME NEW r \in Requests, FaresReceive(r) PROVE FaresInv'
        BY <1>1, <2>1, <2>2, TypeRequest, ZoneRequest, SettingsAsked DEF FaresReceive
    <2>3. ASSUME NEW r \in Requests, FaresStep(r) PROVE FaresInv'
        BY <1>1, <2>3, PricingPickup, PricingDropoff, SettingsMade, SettingsWritten DEF FaresStep
    <2>4. ASSUME Stop, FaresStop PROVE FaresInv'
        <3>1. op' = op /\ at' = [r \in Requests |-> IF Running(r) THEN "lost" ELSE at[r]]
            BY <2>4 DEF Stop
        <3>2. at' \in [Requests -> FaresSteps]
            BY <1>1, <3>1 DEF FaresInv, FaresTypes, FaresSteps, Finished
        <3>3. \A q \in Requests : at'[q] = at[q] \/ at'[q] = "lost"
            BY <3>1
        <3> QED BY <1>1, <2>4, <3>1, <3>2, <3>3, FaresStopped DEF FaresStop
    <2>5. ASSUME UNCHANGED <<handlerVars, faresVars>> PROVE FaresInv'
        <3>1. op' = op /\ at' = at /\ UNCHANGED faresVars
            BY <2>5 DEF handlerVars
        <3>2. at' \in [Requests -> FaresSteps]
            BY <1>1, <3>1 DEF FaresInv, FaresTypes
        <3> QED BY <1>1, <3>1, <3>2, FaresStopped
    <2> QED BY <1>1, <2>2, <2>3, <2>4, <2>5 DEF FaresNext
<1> QED BY <1>1, FaresInitially, PTL DEF FaresSpec

(* Every price shown is that of the period of the time of day, over midnight    *)
(* too, or of the nearest one, no shorter way costs more, and it is missing     *)
(* just where no number of steps makes up the way; one list is priced in the    *)
(* same zones unless one changed meanwhile; and there is one settings document  *)
(* unless the first requests for it met: whatever types, periods, with steps of *)
(* no way too, zones and ways there are.                                        *)
THEOREM ListsAreFair == FaresSpec => []QuotesAreFair
<1>1. ASSUME FaresInv PROVE QuotesAreFair
    <2>1. \A q \in quotes : PricedFairly(q)
        BY <1>1 DEF FaresInv, ShownInOrder
    <2>2. \A q, s \in quotes : SamePlaces(q, s)
        BY <1>1 DEF FaresInv
    <2>3. Len(settings) <= 1 \/ \E r \in stirred : op[r] = "settings"
        BY <1>1 DEF FaresInv, SettingsInOrder, FirstRequestsMet
    <2> QED BY <2>1, <2>2, <2>3 DEF QuotesAreFair, PricedFairly, SamePlaces
<1> QED BY <1>1, FaresInvHolds, PTL

--------------------------------------------------------------------------------
(* The last of some days. *)
LEMMA LastOf ==
    ASSUME NEW T \in Nat, NEW S \in SUBSET (0..T), S /= {}
    PROVE  \E k \in S : \A j \in S : j <= k
<1> DEFINE left == {T - j : j \in S}
<1>1. left \in SUBSET Nat /\ left /= {}
    <2>1. \A j \in S : T - j \in Nat
        OBVIOUS
    <2>2. PICK j \in S : TRUE
        OBVIOUS
    <2>3. T - j \in left
        BY <2>2
    <2> QED BY <2>1, <2>3
<1>2. Least(left) \in left /\ \A i \in left : Least(left) <= i
    BY <1>1, LeastOf
<1>3. PICK k \in S : Least(left) = T - k
    BY <1>2
<1>4. \A j \in S : T - k <= T - j
    BY <1>2, <1>3
<1> QED BY <1>4

--------------------------------------------------------------------------------
(* The calendar. *)

LEMMA FirstDays ==
    /\ Len(FirstOf) \in Nat /\ Len(FirstOf) >= 3
    /\ \A m \in 1..Len(FirstOf) : FirstOf[m] \in Nat
    /\ \A m, n \in 1..Len(FirstOf) : m < n => FirstOf[m] < FirstOf[n]
<1>1. FirstOf \in Seq(Nat) /\ Len(FirstOf) \in Nat /\ Len(FirstOf) >= 2
    BY EarningsAssumption, LenProperties DEF Months
<1>2. \A m \in 1..Len(FirstOf) : FirstOf[m] \in Nat
    BY <1>1, ElementOfSeq
<1>3. Len(FirstOf) >= 3
    BY <1>1, <1>2, EarningsAssumption
<1>4. ASSUME NEW m \in 1..Len(FirstOf), NEW n \in 1..Len(FirstOf), m < n, ~ (FirstOf[m] < FirstOf[n])
      PROVE  FALSE
    <2> DEFINE S == {k \in 1..Len(FirstOf) : m < k /\ ~ (FirstOf[m] < FirstOf[k])}
    <2>1. S \in SUBSET Nat /\ S /= {}
        BY <1>4
    <2>2. PICK k \in S : \A j \in S : k <= j
        BY <2>1, LeastOf
    <2>3. k - 1 \in Months /\ FirstOf[k - 1] < FirstOf[k]
        BY <1>1, <2>2, EarningsAssumption DEF Months
    <2>4. CASE k - 1 = m
        BY <2>2, <2>3, <2>4
    <2>5. CASE k - 1 /= m
        <3>1. k - 1 \in 1..Len(FirstOf) /\ m < k - 1 /\ k - 1 \notin S
            BY <1>1, <2>2, <2>5
        <3>2. FirstOf[m] < FirstOf[k - 1]
            BY <3>1
        <3> QED BY <1>2, <2>2, <2>3, <3>1, <3>2
    <2> QED BY <2>4, <2>5
<1> QED BY <1>1, <1>2, <1>3, <1>4

Days == 0..LastDay

LEMMA MonthIs ==
    ASSUME NEW day \in Days
    PROVE  /\ Month[day] \in 1..(Len(FirstOf) - 2)
           /\ FirstOf[Month[day]] <= day /\ day < FirstOf[Month[day] + 1]
           /\ \A m \in Months : FirstOf[m] <= day /\ day < FirstOf[m + 1] => Month[day] = m
           /\ \A m \in 1..Len(FirstOf) : FirstOf[m] <= day => m <= Month[day]
<1> DEFINE L == Len(FirstOf)
<1>1. /\ L \in Nat /\ L >= 3 /\ \A m \in 1..L : FirstOf[m] \in Nat
      /\ \A m, n \in 1..L : m < n => FirstOf[m] < FirstOf[n]
      /\ Months = 1..(L - 1) /\ day \in Nat /\ day < FirstOf[L - 1]
    <2>1. FirstOf[L - 1] \in Nat
        BY FirstDays
    <2> QED BY <2>1, FirstDays, EarningsAssumption DEF Months, Days
<1> HIDE DEF L
<1>2. \E m \in Months : FirstOf[m] <= day /\ day < FirstOf[m + 1]
    <2> DEFINE S == {m \in Months : day < FirstOf[m + 1]}
    <2>1. L - 2 \in S /\ S \in SUBSET Nat
        BY <1>1
    <2>2. PICK k \in S : \A j \in S : k <= j
        BY <2>1, LeastOf
    <2>3. FirstOf[k] <= day
        <3>1. CASE k = 1
            BY <1>1, <3>1, EarningsAssumption
        <3>2. CASE k /= 1
            <4>1. k - 1 \in Months /\ (k - 1) + 1 = k /\ ~ (k <= k - 1)
                BY <1>1, <2>2, <3>2
            <4>2. ~ (day < FirstOf[(k - 1) + 1])
                BY <2>2, <4>1
            <4> QED BY <1>1, <2>2, <4>1, <4>2
        <3> QED BY <3>1, <3>2
    <2> QED BY <2>2, <2>3
<1>3. Month[day] \in Months /\ FirstOf[Month[day]] <= day /\ day < FirstOf[Month[day] + 1]
    <2>1. Month[day] = CHOOSE m \in Months : FirstOf[m] <= day /\ day < FirstOf[m + 1]
        BY DEF Month, Days
    <2> QED BY <1>2, <2>1
<1>4. ASSUME NEW m \in 1..L, FirstOf[m] <= day PROVE m <= Month[day]
    <2> SUFFICES ASSUME m > Month[day] PROVE FALSE
        BY <1>1, <1>3
    <2>1. FirstOf[Month[day] + 1] <= FirstOf[m]
        BY <1>1, <1>3
    <2> QED BY <1>1, <1>3, <1>4, <2>1
<1>5. ASSUME NEW m \in Months, FirstOf[m] <= day, day < FirstOf[m + 1] PROVE Month[day] = m
    <2>1. m <= Month[day]
        BY <1>1, <1>4, <1>5
    <2> SUFFICES ASSUME m < Month[day] PROVE FALSE
        BY <1>1, <1>3, <2>1
    <2>2. FirstOf[m + 1] <= FirstOf[Month[day]]
        BY <1>1, <1>3
    <2> QED BY <1>1, <1>3, <1>5, <2>2
<1>6. Month[day] /= L - 1
    BY <1>1, <1>3
<1> QED BY <1>1, <1>3, <1>4, <1>5, <1>6 DEF L

LEMMA MonthsGrow ==
    ASSUME NEW x \in Days, NEW y \in Days, x <= y
    PROVE  Month[x] <= Month[y] /\ Month[x] \in Nat /\ Month[y] \in Nat
<1>1. Month[x] \in 1..Len(FirstOf) /\ FirstOf[Month[x]] <= y
    BY MonthIs, FirstDays DEF Days
<1> QED BY <1>1, MonthIs

LEMMA LengthIs ==
    ASSUME NEW m \in Months
    PROVE  /\ LengthOf(m) \in Nat /\ LengthOf(m) > 0 /\ FirstOf[m + 1] = FirstOf[m] + LengthOf(m)
           /\ FirstOf[m] \in Nat /\ FirstOf[m + 1] \in Nat
<1>1. m \in 1..Len(FirstOf) /\ m + 1 \in 1..Len(FirstOf)
    BY FirstDays DEF Months
<1>2. FirstOf[m] \in Nat /\ FirstOf[m + 1] \in Nat
    BY <1>1, FirstDays
<1>3. FirstOf[m] < FirstOf[m + 1]
    BY EarningsAssumption
<1> QED BY <1>2, <1>3 DEF LengthOf

LEMMA DayIs ==
    ASSUME NEW x \in Days
    PROVE  /\ DayOfMonth(x) \in Nat /\ DayOfMonth(x) < LengthOf(Month[x])
           /\ x = FirstOf[Month[x]] + DayOfMonth(x) /\ Month[x] \in Months
<1>1. Month[x] \in Months
    BY MonthIs, FirstDays DEF Months
<1> QED BY <1>1, MonthIs, LengthIs DEF DayOfMonth, Days

(* A day shorter than every month. *)
InEveryMonth(d) == \A n \in Months : d < LengthOf(n)

(* The day d of month m, which has it or gives it to the next. *)
LEMMA InMonthIs ==
    ASSUME NEW x \in Days, NEW m \in 1..(Len(FirstOf) - 2), NEW y \in Days, y = InMonth(m, x)
    PROVE  \/ /\ Month[y] = m /\ DayOfMonth(y) = DayOfMonth(x) /\ DayOfMonth(x) < LengthOf(m)
           \/ /\ Month[y] = m + 1 /\ DayOfMonth(x) >= LengthOf(m)
              /\ DayOfMonth(y) = DayOfMonth(x) - LengthOf(m) /\ InEveryMonth(DayOfMonth(y))
<1> DEFINE d == DayOfMonth(x)
<1>1. /\ d \in Nat /\ d < LengthOf(Month[x]) /\ Month[x] \in Months /\ y = FirstOf[m] + d /\ y \in Nat
      /\ m \in Months /\ m + 1 \in Months
    BY DayIs, FirstDays DEF InMonth, Days, Months
<1>2. /\ LengthOf(m) \in Nat /\ FirstOf[m + 1] = FirstOf[m] + LengthOf(m) /\ FirstOf[m] \in Nat
      /\ LengthOf(m + 1) \in Nat /\ FirstOf[m + 2] = FirstOf[m + 1] + LengthOf(m + 1)
    BY <1>1, LengthIs
<1>3. \A k \in Months : FirstOf[k] <= y /\ y < FirstOf[k + 1] => Month[y] = k
    BY MonthIs
<1>4. ASSUME NEW n \in Months, d >= LengthOf(m) PROVE d - LengthOf(m) < LengthOf(n)
    <2>1. LengthOf(Month[x]) <= 2 * LengthOf(m) /\ LengthOf(Month[x]) <= 2 * LengthOf(n)
        BY <1>1, EarningsAssumption
    <2>2. LengthOf(n) \in Nat /\ LengthOf(Month[x]) \in Nat
        BY <1>1, LengthIs
    <2> QED BY <1>1, <1>2, <1>4, <2>1, <2>2
<1> HIDE DEF d
<1>5. CASE d < LengthOf(m)
    <2>1. Month[y] = m
        BY <1>1, <1>2, <1>5, <1>3
    <2> QED BY <1>1, <1>2, <1>5, <2>1 DEF DayOfMonth, d
<1>6. CASE d >= LengthOf(m)
    <2>1. d - LengthOf(m) < LengthOf(m + 1)
        BY <1>1, <1>4, <1>6
    <2>2. Month[y] = m + 1
        <3>1. FirstOf[m + 1] <= y /\ y < FirstOf[m + 2] /\ m + 2 = (m + 1) + 1
            BY <1>1, <1>2, <1>6, <2>1
        <3> QED BY <1>1, <1>3, <3>1
    <2>3. y - FirstOf[Month[y]] = d - LengthOf(m)
        BY <1>1, <1>2, <2>2
    <2>4. DayOfMonth(y) = d - LengthOf(m)
        BY <2>3 DEF DayOfMonth
    <2>5. InEveryMonth(DayOfMonth(y))
        BY <1>4, <1>6, <2>4 DEF InEveryMonth
    <2> QED BY <1>6, <2>2, <2>4, <2>5 DEF d
<1> QED BY <1>1, <1>2, <1>5, <1>6

--------------------------------------------------------------------------------
(* The bars of a histogram by months, from the day x on: each is a step from    *)
(* the one before, until the day that the earnings are asked for on.            *)

StepFrom(x) == NextBar("month", x)

AreBars(f, end) == f = [day \in Nat |-> IF day > end THEN {} ELSE {day} \cup f[StepFrom(day)]]

LEMMA NextIs ==
    ASSUME NEW x \in Days
    PROVE  /\ StepFrom(x) = InMonth(Month[x] + 1, x) /\ StepFrom(x) \in Nat /\ x < StepFrom(x)
           /\ StepFrom(x) = FirstOf[Month[x] + 1] + DayOfMonth(x)
<1>1. StepFrom(x) = FirstOf[Month[x] + 1] + DayOfMonth(x) /\ StepFrom(x) = InMonth(Month[x] + 1, x)
    BY DEF StepFrom, NextBar, InMonth
<1>2. DayOfMonth(x) \in Nat /\ FirstOf[Month[x] + 1] \in Nat /\ x \in Nat /\ x < FirstOf[Month[x] + 1]
    BY DayIs, MonthIs, LengthIs DEF Days
<1> QED BY <1>1, <1>2

LEMMA UntilToday ==
    ASSUME NEW end \in Days
    PROVE  /\ end \in Nat /\ end <= LastDay /\ LastDay \in Nat
           /\ \A x \in 0..end : x \in Days /\ StepFrom(x) \in Nat /\ x < StepFrom(x)
<1>1. end \in Nat /\ end <= LastDay /\ LastDay \in Nat
    BY EarningsAssumption DEF Days
<1>2. \A x \in 0..end : x \in Days
    BY <1>1 DEF Days
<1> QED BY <1>1, <1>2, NextIs

(* There is such a function: the days reached by steps. *)
Closed(C, end) == \A y \in C : StepFrom(y) <= end => StepFrom(y) \in C
ReachedFrom(x, end) == {z \in x..end : \A C \in SUBSET (x..end) : x \in C /\ Closed(C, end) => z \in C}

LEMMA ReachedIs ==
    ASSUME NEW end \in Days, NEW x \in Nat, x <= end
    PROVE  ReachedFrom(x, end) = {x} \cup ReachedFrom(StepFrom(x), end)
<1> DEFINE n == StepFrom(x)
<1>1. /\ end \in Nat /\ x \in Days /\ n \in Nat /\ x < n
      /\ \A y \in 0..end : StepFrom(y) \in Nat /\ y < StepFrom(y)
    <2>1. end \in Nat /\ x \in 0..end
        BY UntilToday
    <2> QED BY <2>1, UntilToday
<1> HIDE DEF n
<1>2. ASSUME NEW z \in ReachedFrom(x, end), z /= x PROVE z \in ReachedFrom(n, end)
    <2> DEFINE C == {x} \cup ReachedFrom(n, end)
    <2>1. ReachedFrom(n, end) \subseteq n..end
        BY DEF ReachedFrom
    <2>2. C \in SUBSET (x..end) /\ x \in C
        BY <1>1, <2>1
    <2>3. ASSUME NEW y \in ReachedFrom(n, end), StepFrom(y) <= end PROVE StepFrom(y) \in ReachedFrom(n, end)
        <3>1. y \in n..end /\ y \in 0..end /\ StepFrom(y) \in n..end
            BY <1>1, <2>1, <2>3
        <3>2. ASSUME NEW D \in SUBSET (n..end), n \in D, Closed(D, end) PROVE StepFrom(y) \in D
            <4>1. y \in D
                BY <3>2 DEF ReachedFrom
            <4> QED BY <2>3, <3>2, <4>1 DEF Closed
        <3> QED BY <3>1, <3>2 DEF ReachedFrom
    <2>4. n <= end => n \in ReachedFrom(n, end)
        BY <1>1 DEF ReachedFrom
    <2>5. Closed(C, end)
        BY <2>3, <2>4 DEF Closed, n
    <2>6. z \in C
        BY <2>2, <2>5 DEF ReachedFrom
    <2> QED BY <1>2, <2>6
<1>3. x \in ReachedFrom(x, end)
    BY <1>1 DEF ReachedFrom
<1>4. ASSUME NEW z \in ReachedFrom(n, end) PROVE z \in ReachedFrom(x, end)
    <2>1. z \in n..end /\ z \in x..end /\ n <= end
        BY <1>1 DEF ReachedFrom
    <2>2. ASSUME NEW C \in SUBSET (x..end), x \in C, Closed(C, end) PROVE z \in C
        <3> DEFINE D == {y \in C : y >= n}
        <3>1. n \in D
            <4>1. n \in C
                BY <2>1, <2>2 DEF Closed, n
            <4> QED BY <1>1, <4>1
        <3>2. D \in SUBSET (n..end)
            <4> SUFFICES ASSUME NEW y \in C, y >= n PROVE y \in n..end
                OBVIOUS
            <4>1. y \in x..end
                BY <2>2
            <4> QED BY <1>1, <4>1
        <3>3. Closed(D, end)
            <4> SUFFICES ASSUME NEW y \in D, StepFrom(y) <= end PROVE StepFrom(y) \in C /\ StepFrom(y) >= n
                BY DEF Closed
            <4>1. StepFrom(y) \in C
                BY <2>2 DEF Closed
            <4>2. y \in 0..end /\ y >= n
                BY <1>1, <2>2
            <4> QED BY <1>1, <4>1, <4>2
        <3> QED BY <3>1, <3>2, <3>3 DEF ReachedFrom
    <2> QED BY <2>1, <2>2 DEF ReachedFrom
<1> QED BY <1>2, <1>3, <1>4 DEF n

LEMMA BarsExist ==
    ASSUME NEW end \in Days
    PROVE  \E f : AreBars(f, end) /\ BarDays("month", end) = f[Start("month", end)]
<1> DEFINE g == [day \in Nat |-> ReachedFrom(day, end)]
<1>1. \A day \in Nat : ReachedFrom(day, end) = IF day > end THEN {} ELSE {day} \cup g[StepFrom(day)]
    <2> TAKE day \in Nat
    <2>1. end \in Nat
        BY EarningsAssumption DEF Days
    <2>2. CASE day > end
        BY <2>1, <2>2 DEF ReachedFrom
    <2>3. CASE ~ (day > end)
        <3>1. day <= end /\ day \in Days
            BY <2>1, <2>3, EarningsAssumption DEF Days
        <3>2. ReachedFrom(day, end) = {day} \cup ReachedFrom(StepFrom(day), end) /\ StepFrom(day) \in Nat
            BY <3>1, ReachedIs, NextIs
        <3> QED BY <2>3, <3>2
    <2> QED BY <2>2, <2>3
<1>2. AreBars(g, end)
    BY <1>1 DEF AreBars
<1> DEFINE f == CHOOSE h : h = [day \in Nat |-> IF day > end THEN {} ELSE {day} \cup h[NextBar("month", day)]]
<1>3. AreBars(f, end)
    <2>1. g = [day \in Nat |-> IF day > end THEN {} ELSE {day} \cup g[NextBar("month", day)]]
        BY <1>2 DEF AreBars, StepFrom
    <2> HIDE DEF g
    <2> QED BY <2>1 DEF AreBars, StepFrom
<1>4. BarDays("month", end) = f[Start("month", end)]
    BY DEF BarDays
<1> QED BY <1>3, <1>4

LEMMA BarsAre ==
    ASSUME NEW end \in Days, NEW f, AreBars(f, end)
    PROVE  /\ \A x \in Nat : x > end => f[x] = {}
           /\ \A x \in 0..end : f[x] = {x} \cup f[StepFrom(x)] /\ f[x] \subseteq x..end
<1>1. end \in Nat /\ \A x \in 0..end : x \in Days /\ StepFrom(x) \in Nat /\ x < StepFrom(x)
    BY UntilToday
<1>2. \A x \in Nat : f[x] = IF x > end THEN {} ELSE {x} \cup f[StepFrom(x)]
    BY DEF AreBars
<1>3. \A x \in 0..end : f[x] = {x} \cup f[StepFrom(x)]
    <2> TAKE x \in 0..end
    <2>1. x \in Nat /\ ~ (x > end)
        BY <1>1
    <2> QED BY <1>2, <2>1
<1>4. ASSUME NEW y \in 0..end, ~ (f[y] \subseteq y..end) PROVE FALSE
    <2> DEFINE S == {x \in 0..end : ~ (f[x] \subseteq x..end)}
    <2>1. PICK x \in S : \A z \in S : z <= x
        BY <1>1, <1>4, LastOf
    <2>2. f[x] = {x} \cup f[StepFrom(x)] /\ x \in 0..end /\ StepFrom(x) \in Nat /\ x < StepFrom(x)
        BY <1>1, <1>3, <2>1
    <2>3. f[StepFrom(x)] \subseteq StepFrom(x)..end
        <3>1. CASE StepFrom(x) > end
            BY <1>2, <2>2, <3>1
        <3>2. CASE ~ (StepFrom(x) > end)
            <4>1. StepFrom(x) \in 0..end /\ StepFrom(x) \notin S
                BY <1>1, <2>1, <2>2, <3>2
            <4> QED BY <4>1
        <3> QED BY <3>1, <3>2
    <2>4. f[x] \subseteq x..end
        BY <1>1, <2>2, <2>3
    <2> QED BY <2>1, <2>4
<1> QED BY <1>2, <1>3, <1>4

(* No two bars are of one month. *)
LEMMA BarsApart ==
    ASSUME NEW end \in Days, NEW f, AreBars(f, end), NEW s \in 0..end
    PROVE  \A y, z \in f[s] : Month[y] = Month[z] => y = z
<1> DEFINE OnePerMonth(x) == \A y, z \in f[x] : Month[y] = Month[z] => y = z
           S == {x \in 0..end : ~ OnePerMonth(x)}
<1>1. end \in Nat /\ \A x \in 0..end : x \in Days /\ StepFrom(x) \in Nat /\ x < StepFrom(x)
    BY UntilToday
<1>2. ASSUME ~ OnePerMonth(s) PROVE FALSE
    <2>1. PICK x \in S : \A z \in S : z <= x
        BY <1>1, <1>2, LastOf
    <2>2. f[x] = {x} \cup f[StepFrom(x)] /\ x \in 0..end /\ StepFrom(x) \in Nat /\ x < StepFrom(x)
        BY <1>1, <2>1, BarsAre
    <2>3. CASE StepFrom(x) > end
        <3>1. f[x] = {x}
            BY <2>2, <2>3, BarsAre
        <3> QED BY <2>1, <3>1
    <2>4. CASE ~ (StepFrom(x) > end)
        <3>1. StepFrom(x) \in 0..end
            BY <1>1, <2>2, <2>4
        <3>2. f[StepFrom(x)] \subseteq StepFrom(x)..end
            BY <3>1, BarsAre
        <3>3. OnePerMonth(StepFrom(x))
            BY <2>1, <2>2, <3>1
        <3>4. Month[StepFrom(x)] > Month[x] /\ Month[x] \in Nat
            <4>1. x \in Days /\ StepFrom(x) \in Days
                BY <1>1, <2>2, <3>1
            <4>2. DayOfMonth(x) \in Nat /\ Month[x] + 1 \in 1..Len(FirstOf) /\ FirstOf[Month[x] + 1] \in Nat
                BY <4>1, DayIs, MonthIs, FirstDays
            <4>3. FirstOf[Month[x] + 1] <= StepFrom(x)
                BY <4>1, <4>2, NextIs
            <4>4. Month[x] + 1 <= Month[StepFrom(x)]
                BY <4>1, <4>2, <4>3, MonthIs
            <4>5. Month[x] \in Nat /\ Month[StepFrom(x)] \in Nat
                BY <1>1, <2>2, <4>1, MonthsGrow
            <4> QED BY <4>4, <4>5
        <3>5. \A y \in f[StepFrom(x)] : Month[y] /= Month[x]
            <4> TAKE y \in f[StepFrom(x)]
            <4>1. y \in Days /\ StepFrom(x) \in Days /\ StepFrom(x) <= y
                BY <1>1, <3>1, <3>2
            <4>2. Month[StepFrom(x)] <= Month[y] /\ Month[StepFrom(x)] \in Nat /\ Month[y] \in Nat
                BY <4>1, MonthsGrow
            <4> QED BY <3>4, <4>2
        <3>6. OnePerMonth(x)
            BY <2>2, <3>3, <3>5
        <3> QED BY <2>1, <3>6
    <2> QED BY <2>3, <2>4
<1> QED BY <1>2

(* The month after that of a day, and the step to it. *)
LEMMA MonthAfter ==
    ASSUME NEW x \in Days, NEW m, m = Month[x], NEW d, d = DayOfMonth(x)
    PROVE  /\ m \in Months /\ m + 1 \in Months /\ m \in Nat /\ m + 1 \in 1..(Len(FirstOf) - 1)
           /\ LengthOf(m) \in Nat /\ d \in Nat /\ d < LengthOf(m)
           /\ LengthOf(m + 1) \in Nat /\ FirstOf[m + 1] \in Nat /\ FirstOf[m + 2] \in Nat
           /\ FirstOf[m + 2] = FirstOf[m + 1] + LengthOf(m + 1)
           /\ StepFrom(x) = FirstOf[m + 1] + d /\ StepFrom(x) = InMonth(m + 1, x)
<1>1. m \in 1..(Len(FirstOf) - 2) /\ Len(FirstOf) \in Nat /\ Months = 1..(Len(FirstOf) - 1)
    BY MonthIs, FirstDays DEF Months
<1>2. m \in Months /\ m + 1 \in Months /\ m \in Nat /\ (m + 1) + 1 = m + 2
    BY <1>1
<1>3. /\ LengthOf(m) \in Nat /\ LengthOf(m + 1) \in Nat /\ FirstOf[m + 1] \in Nat
      /\ FirstOf[m + 2] \in Nat /\ FirstOf[m + 2] = FirstOf[m + 1] + LengthOf(m + 1)
    BY <1>2, LengthIs
<1> QED BY <1>1, <1>2, <1>3, DayIs, NextIs

LEMMA StartedMonth ==
    ASSUME NEW z \in Days, NEW m \in 1..Len(FirstOf), m <= Month[z]
    PROVE  FirstOf[m] <= z /\ FirstOf[m] \in Nat
<1>1. /\ Month[z] \in 1..Len(FirstOf) /\ FirstOf[Month[z]] <= z
    BY MonthIs, FirstDays
<1>2. FirstOf[m] = FirstOf[Month[z]] \/ FirstOf[m] < FirstOf[Month[z]]
    BY <1>1, FirstDays
<1>3. FirstOf[m] \in Nat /\ FirstOf[Month[z]] \in Nat /\ z \in Nat
    BY <1>1, FirstDays DEF Days
<1> QED BY <1>1, <1>2, <1>3

(* The month of the day z has a bar. *)
HasBar(B, z) == \E b \in B : Month[b] = Month[z]

(* The step from a day that the next month has too passes over no month, and   *)
(* is not beyond the last day, unless that is in the same month.                *)
LEMMA OneMonthOn ==
    ASSUME NEW end \in Days, NEW x \in 0..end, DayOfMonth(x) <= DayOfMonth(end),
           DayOfMonth(x) < LengthOf(Month[x] + 1), NEW z \in x..end, Month[z] /= Month[x]
    PROVE  /\ StepFrom(x) <= end /\ DayOfMonth(StepFrom(x)) = DayOfMonth(x)
           /\ z >= StepFrom(x) \/ Month[z] = Month[StepFrom(x)]
<1> DEFINE n == StepFrom(x)  M == Month[x]  d == DayOfMonth(x)
<1>1. /\ x \in Days /\ z \in Days /\ end \in Nat /\ x \in Nat /\ z \in Nat /\ x <= z /\ z <= end
      /\ LastDay \in Nat /\ end <= LastDay
    BY EarningsAssumption, SMTT(30) DEF Days
<1>2. /\ M \in Nat /\ M + 1 \in Months /\ d \in Nat /\ n \in Nat
      /\ LengthOf(M + 1) \in Nat /\ FirstOf[M + 1] \in Nat
      /\ FirstOf[M + 2] = FirstOf[M + 1] + LengthOf(M + 1)
      /\ n = FirstOf[M + 1] + d /\ (M + 1) + 1 = M + 2
    <2> HIDE DEF M, d, n
    <2>1. x \in Days /\ M = Month[x] /\ d = DayOfMonth(x) /\ n = StepFrom(x)
        BY <1>1 DEF M, d, n
    <2>2. /\ M \in Nat /\ M + 1 \in Months /\ d \in Nat
          /\ LengthOf(M + 1) \in Nat /\ FirstOf[M + 1] \in Nat
          /\ FirstOf[M + 2] = FirstOf[M + 1] + LengthOf(M + 1)
          /\ n = FirstOf[M + 1] + d
        BY <2>1, MonthAfter
    <2> QED BY <2>2
<1>3. M + 1 \in 1..Len(FirstOf)
    BY <1>2, FirstDays DEF Months
<1>4. Month[z] \in Nat /\ M <= Month[z] /\ Month[z] >= M + 1
    BY <1>1, <1>2, MonthsGrow
<1>5. FirstOf[M + 1] <= z
    BY <1>1, <1>3, <1>4, StartedMonth
<1>6. d < LengthOf(M + 1)
    OBVIOUS
<1> HIDE DEF n, M, d
<1>7. n <= end
    <2> SUFFICES ASSUME n > end PROVE FALSE
        BY <1>1, <1>2
    <2>1. FirstOf[M + 1] <= end /\ end < FirstOf[(M + 1) + 1]
        BY <1>1, <1>2, <1>5, <1>6
    <2>2. Month[end] = M + 1
        BY <1>2, <2>1, MonthIs
    <2>3. DayOfMonth(end) = end - FirstOf[M + 1]
        BY <2>2 DEF DayOfMonth
    <2>4. d <= DayOfMonth(end)
        BY DEF d
    <2> QED BY <1>1, <1>2, <2>3, <2>4
<1>8. n \in Days /\ Month[n] = M + 1
    <2>1. n \in Days
        BY <1>1, <1>2, <1>7 DEF Days
    <2>2. FirstOf[M + 1] <= n /\ n < FirstOf[(M + 1) + 1]
        BY <1>2, <1>6
    <2> QED BY <1>2, <2>1, <2>2, MonthIs
<1>9. DayOfMonth(n) = d
    BY <1>2, <1>8 DEF DayOfMonth
<1>10. z < n => Month[z] = M + 1
    <2> SUFFICES ASSUME z < n PROVE Month[z] = M + 1
        OBVIOUS
    <2>1. z < FirstOf[(M + 1) + 1]
        BY <1>1, <1>2, <1>6
    <2> QED BY <1>1, <1>2, <1>5, <2>1, MonthIs
<1> QED BY <1>1, <1>2, <1>7, <1>8, <1>9, <1>10 DEF n, M, d

(* From a day that every month has, each month until the last day has its bar. *)
LEMMA NoMonthMissing ==
    ASSUME NEW end \in Days, NEW f, AreBars(f, end), NEW s \in 0..end,
           InEveryMonth(DayOfMonth(s)), DayOfMonth(s) <= DayOfMonth(end), NEW e \in s..end
    PROVE  HasBar(f[s], e)
<1> DEFINE Short(x) == InEveryMonth(DayOfMonth(x)) /\ DayOfMonth(x) <= DayOfMonth(end)
           S == {x \in 0..end : Short(x) /\ \E z \in x..end : ~ HasBar(f[x], z)}
<1>1. end \in Nat /\ \A x \in 0..end : x \in Days /\ StepFrom(x) \in Nat /\ x < StepFrom(x)
    BY UntilToday
<1> SUFFICES ASSUME ~ HasBar(f[s], e) PROVE FALSE
    OBVIOUS
<1>2. PICK x \in S : \A y \in S : y <= x
    <2>1. s \in S
        OBVIOUS
    <2>2. S \in SUBSET (0..end) /\ S /= {}
        BY <2>1
    <2> HIDE DEF S
    <2> QED BY <1>1, <2>2, LastOf
<1>3. PICK z \in x..end : ~ HasBar(f[x], z)
    BY <1>2
<1>4. /\ x \in 0..end /\ Short(x) /\ StepFrom(x) \in Nat /\ x < StepFrom(x) /\ x \in Days
      /\ f[x] = {x} \cup f[StepFrom(x)]
    BY <1>1, <1>2, BarsAre
<1>5. Month[z] /= Month[x]
    BY <1>3, <1>4 DEF HasBar
<1>6. DayOfMonth(x) < LengthOf(Month[x] + 1)
    BY <1>4, MonthIs, FirstDays DEF InEveryMonth, Months
<1>7. StepFrom(x) <= end /\ DayOfMonth(StepFrom(x)) = DayOfMonth(x) /\ (z >= StepFrom(x) \/ Month[z] = Month[StepFrom(x)])
    BY <1>4, <1>5, <1>6, OneMonthOn
<1>8. StepFrom(x) \in 0..end /\ Short(StepFrom(x)) /\ StepFrom(x) \notin S
    BY <1>1, <1>2, <1>4, <1>7
<1>9. CASE z >= StepFrom(x)
    <2>1. z \in StepFrom(x)..end
        BY <1>1, <1>3, <1>4, <1>9
    <2>2. HasBar(f[StepFrom(x)], z)
        BY <1>8, <2>1
    <2> QED BY <1>3, <1>4, <2>2 DEF HasBar
<1>10. CASE Month[z] = Month[StepFrom(x)]
    <2>1. StepFrom(x) \in f[StepFrom(x)]
        BY <1>8, BarsAre
    <2> QED BY <1>3, <1>4, <1>10, <2>1 DEF HasBar
<1> QED BY <1>7, <1>9, <1>10

(* From the day of the month that the last is on, one month may have no bar: it *)
(* has not that day.                                                           *)
Missed(B, x, end) ==
    /\ \A z \in x..end : HasBar(B, z) \/ LengthOf(Month[z]) <= DayOfMonth(end)
    /\ \A y, z \in x..end : ~ HasBar(B, y) /\ ~ HasBar(B, z) => Month[y] = Month[z]

LEMMA OneMonthMissing ==
    ASSUME NEW end \in Days, NEW f, AreBars(f, end), NEW s \in 0..end,
           DayOfMonth(s) = DayOfMonth(end)
    PROVE  Missed(f[s], s, end)
<1> DEFINE S == {x \in 0..end : DayOfMonth(x) = DayOfMonth(end) /\ ~ Missed(f[x], x, end)}
<1>1. end \in Nat /\ \A x \in 0..end : x \in Days /\ StepFrom(x) \in Nat /\ x < StepFrom(x)
    BY UntilToday
<1> SUFFICES ASSUME ~ Missed(f[s], s, end) PROVE FALSE
    OBVIOUS
<1>2. PICK x \in S : \A y \in S : y <= x
    <2>1. s \in S
        OBVIOUS
    <2>2. S \in SUBSET (0..end) /\ S /= {}
        BY <2>1
    <2> HIDE DEF S
    <2> QED BY <1>1, <2>2, LastOf
<1> DEFINE n == StepFrom(x)  M == Month[x]  d == DayOfMonth(x)
<1>3. /\ x \in 0..end /\ d = DayOfMonth(end) /\ ~ Missed(f[x], x, end) /\ n \in Nat /\ x < n
      /\ x \in Days /\ f[x] = {x} \cup f[n]
    BY <1>1, <1>2, BarsAre
<1>4. /\ M \in Nat /\ M \in Months /\ M + 1 \in Months /\ d \in Nat /\ d < LengthOf(M)
      /\ LengthOf(M) \in Nat /\ LengthOf(M + 1) \in Nat /\ FirstOf[M + 1] \in Nat
      /\ FirstOf[M + 2] \in Nat /\ FirstOf[M + 2] = FirstOf[M + 1] + LengthOf(M + 1)
      /\ n = FirstOf[M + 1] + d /\ n = InMonth(M + 1, x)
    <2> HIDE DEF M, d, n
    <2>1. x \in Days /\ M = Month[x] /\ d = DayOfMonth(x) /\ n = StepFrom(x)
        BY <1>3 DEF M, d, n
    <2> QED BY <2>1, MonthAfter
<1>5. HasBar(f[x], x) /\ \A z : Month[z] = M => HasBar(f[x], z)
    BY <1>3 DEF HasBar
<1>6. \A z : HasBar(f[n], z) => HasBar(f[x], z)
    BY <1>3 DEF HasBar
<1>7. n <= end => HasBar(f[n], n)
    <2> SUFFICES ASSUME n <= end PROVE HasBar(f[n], n)
        OBVIOUS
    <2>1. n \in 0..end
        BY <1>1, <1>3
    <2> QED BY <2>1, BarsAre DEF HasBar
<1>8. CASE d < LengthOf(M + 1)
    <2>1. \A z \in x..end : Month[z] /= M =>
              n <= end /\ DayOfMonth(n) = d /\ (z >= n \/ Month[z] = Month[n])
        BY <1>3, <1>4, <1>8, OneMonthOn
    <2>2. CASE n <= end /\ DayOfMonth(n) = d
        <3>1. Missed(f[n], n, end)
            BY <1>1, <1>2, <1>3, <2>2
        <3>2. \A z \in x..end : HasBar(f[x], z) \/ (z \in n..end /\ ~ HasBar(f[n], z))
            <4> TAKE z \in x..end
            <4>1. CASE Month[z] = M
                BY <1>5, <4>1
            <4>2. CASE Month[z] /= M /\ z >= n
                <5>1. z \in n..end
                    BY <1>1, <1>3, <4>2
                <5> QED BY <1>6, <5>1
            <4>3. CASE Month[z] /= M /\ Month[z] = Month[n]
                <5>1. HasBar(f[n], z)
                    BY <1>7, <2>2, <4>3 DEF HasBar
                <5> QED BY <1>6, <5>1
            <4> QED BY <2>1, <4>1, <4>2, <4>3
        <3>3. Missed(f[x], x, end)
            BY <3>1, <3>2 DEF Missed
        <3> QED BY <1>3, <3>3
    <2>3. CASE ~ (n <= end /\ DayOfMonth(n) = d)
        <3>1. \A z \in x..end : HasBar(f[x], z)
            BY <1>5, <2>1, <2>3
        <3> QED BY <1>3, <3>1 DEF Missed
    <2> QED BY <2>2, <2>3
<1>9. CASE ~ (d < LengthOf(M + 1))
    <2>1. \A z \in x..end : HasBar(f[x], z) \/ Month[z] = M + 1
        <3> SUFFICES ASSUME NEW z \in x..end, Month[z] /= M, Month[z] /= M + 1
                     PROVE  HasBar(f[x], z)
            BY <1>5
        <3>1. z \in Days /\ z \in Nat /\ x <= z /\ z <= end /\ LastDay \in Nat /\ end <= LastDay
            BY <1>1, <1>3, EarningsAssumption DEF Days
        <3>2. Month[z] \in Nat /\ M <= Month[z] /\ Month[z] >= M + 2
            <4>1. Month[x] <= Month[z] /\ Month[x] \in Nat /\ Month[z] \in Nat
                BY <1>3, <3>1, MonthsGrow
            <4> QED BY <4>1
        <3>3. Month[z] <= Len(FirstOf) - 2 /\ Len(FirstOf) \in Nat /\ Months = 1..(Len(FirstOf) - 1)
            BY <3>1, MonthIs, FirstDays DEF Months
        <3> HIDE DEF M, d, n
        <3>4. M + 2 \in Months /\ M + 2 \in 1..Len(FirstOf) /\ M + 1 \in 1..(Len(FirstOf) - 2)
            BY <1>4, <3>2, <3>3
        <3>5. FirstOf[M + 2] <= z
            BY <3>1, <3>2, <3>4, StartedMonth
        <3>6. d - LengthOf(M + 1) \in Nat
            BY <1>4, <1>9
        <3>7. n = FirstOf[M + 2] + (d - LengthOf(M + 1))
            BY <1>4, <3>6
        <3>8. d - LengthOf(M + 1) < LengthOf(M + 2) /\ LengthOf(M + 2) \in Nat
              /\ FirstOf[(M + 2) + 1] = FirstOf[M + 2] + LengthOf(M + 2)
            <4>1. LengthOf(M) <= 2 * LengthOf(M + 1) /\ LengthOf(M) <= 2 * LengthOf(M + 2)
                BY <1>4, <3>4, EarningsAssumption
            <4>2. LengthOf(M) \in Nat /\ LengthOf(M + 2) \in Nat
                  /\ FirstOf[(M + 2) + 1] = FirstOf[M + 2] + LengthOf(M + 2)
                BY <1>4, <3>4, LengthIs
            <4> QED BY <1>4, <1>9, <4>1, <4>2
        <3>9. n <= end
            <4> SUFFICES ASSUME n > end PROVE FALSE
                BY <1>1, <1>3
            <4>1. FirstOf[M + 2] <= end /\ end < FirstOf[(M + 2) + 1]
                BY <1>1, <1>4, <3>1, <3>5, <3>6, <3>7, <3>8
            <4>2. Month[end] = M + 2
                BY <3>4, <4>1, MonthIs
            <4>3. DayOfMonth(end) = end - FirstOf[M + 2]
                BY <4>2 DEF DayOfMonth
            <4>4. end - FirstOf[M + 2] < d - LengthOf(M + 1)
                BY <1>1, <1>4, <3>6, <3>7
            <4>5. d = end - FirstOf[M + 2]
                BY <1>3, <4>3
            <4> QED BY <1>1, <1>4, <3>6, <4>4, <4>5
        <3>10. n \in Days /\ n \in 0..end
            BY <1>1, <1>3, <3>1, <3>9 DEF Days
        <3>11. /\ Month[n] = M + 2 /\ InEveryMonth(DayOfMonth(n))
               /\ DayOfMonth(n) = d - LengthOf(M + 1)
            <4>1. M + 2 = (M + 1) + 1
                BY <1>4
            <4>2. DayOfMonth(x) = d
                BY DEF d
            <4>3. \/ Month[n] = M + 1 /\ DayOfMonth(x) < LengthOf(M + 1)
                  \/ /\ Month[n] = (M + 1) + 1 /\ InEveryMonth(DayOfMonth(n))
                     /\ DayOfMonth(n) = DayOfMonth(x) - LengthOf(M + 1)
                BY <1>3, <1>4, <3>4, <3>10, InMonthIs, ZenonT(60)
            <4> QED BY <1>9, <4>1, <4>2, <4>3
        <3>12. CASE z >= n
            <4>1. z \in n..end
                BY <1>1, <1>3, <3>1, <3>12
            <4>2. DayOfMonth(n) <= DayOfMonth(end)
                BY <1>3, <1>4, <3>11
            <4>3. HasBar(f[n], z)
                BY <3>10, <3>11, <4>1, <4>2, NoMonthMissing
            <4> QED BY <1>6, <4>3
        <3>13. CASE ~ (z >= n)
            <4>1. FirstOf[M + 2] <= z /\ z < FirstOf[(M + 2) + 1]
                BY <1>3, <1>4, <3>1, <3>5, <3>6, <3>7, <3>8, <3>13
            <4>2. Month[z] = Month[n]
                BY <3>1, <3>4, <3>11, <4>1, MonthIs
            <4> QED BY <1>6, <1>7, <3>9, <4>2 DEF HasBar
        <3> QED BY <3>12, <3>13
    <2>2. LengthOf(M + 1) <= DayOfMonth(end)
        BY <1>3, <1>4, <1>9
    <2>3. Missed(f[x], x, end)
        BY <2>1, <2>2 DEF Missed
    <2> QED BY <1>3, <2>3
<1> QED BY <1>8, <1>9

--------------------------------------------------------------------------------
(* The histogram by days has a bar for each. *)

LEMMA DailyBars ==
    ASSUME NEW end \in Nat, FirstDay <= end
    PROVE  BarDays("day", end) = Start("day", end)..end /\ Start("day", end) \in 0..end
<1> DEFINE IsBars(f) == f = [day \in Nat |-> IF day > end THEN {} ELSE {day} \cup f[NextBar("day", day)]]
           f == CHOOSE h : IsBars(h)
           g == [day \in Nat |-> day..end]
<1>1. \A day \in Nat : NextBar("day", day) = day + 1
    BY DEF NextBar
<1>2. IsBars(g)
    <2>1. \A day \in Nat : day..end = IF day > end THEN {} ELSE {day} \cup g[day + 1]
        <3> TAKE day \in Nat
        <3>1. day + 1 \in Nat /\ g[day + 1] = (day + 1)..end
            OBVIOUS
        <3> HIDE DEF g
        <3>2. CASE day > end
            BY <3>2
        <3>3. CASE ~ (day > end)
            <4>1. day..end = {day} \cup ((day + 1)..end)
                BY <3>3
            <4> QED BY <3>1, <3>3, <4>1
        <3> QED BY <3>2, <3>3
    <2> QED BY <1>1, <2>1
<1>3. IsBars(f)
    <2> HIDE DEF g, IsBars
    <2> QED BY <1>2
<1>4. BarDays("day", end) = f[Start("day", end)]
    BY DEF BarDays
<1> HIDE DEF f
<1>5. \A x \in Nat : f[x] = IF x > end THEN {} ELSE {x} \cup f[x + 1]
    BY <1>1, <1>3
<1>6. ASSUME NEW y \in 0..end, f[y] /= y..end PROVE FALSE
    <2> DEFINE S == {x \in 0..end : f[x] /= x..end}
    <2>1. PICK x \in S : \A z \in S : z <= x
        <3>1. S \in SUBSET (0..end) /\ S /= {}
            BY <1>6
        <3> HIDE DEF S
        <3> QED BY <3>1, LastOf
    <2>2. x \in Nat /\ x <= end /\ f[x] = {x} \cup f[x + 1] /\ x + 1 \in Nat
        <3>1. x \in 0..end
            BY <2>1
        <3>2. x \in Nat /\ x <= end /\ ~ (x > end) /\ x + 1 \in Nat
            BY <3>1
        <3> QED BY <1>5, <3>2
    <2>3. f[x + 1] = (x + 1)..end
        <3>1. CASE x = end
            <4>1. x + 1 > end /\ (x + 1)..end = {}
                BY <2>2, <3>1
            <4> QED BY <1>5, <2>2, <4>1
        <3>2. CASE x /= end
            <4>1. x + 1 \in 0..end /\ x + 1 \notin S
                BY <2>1, <2>2, <3>2
            <4> QED BY <4>1
        <3> QED BY <3>1, <3>2
    <2>4. f[x] = x..end
        BY <2>2, <2>3
    <2> QED BY <2>1, <2>4
<1>7. Start("day", end) \in 0..end
    <2>1. Start("day", end) = end - DaysBack
        BY DEF Start
    <2>2. DaysBack \in Nat /\ DaysBack <= end
        BY EarningsAssumption
    <2> QED BY <2>1, <2>2
<1> QED BY <1>4, <1>6, <1>7

(* Where the histogram by months starts. *)
LEMMA MonthlyStart ==
    ASSUME NEW end \in Days, FirstDay <= end
    PROVE  /\ Start("month", end) \in 0..end
           /\ \/ DayOfMonth(Start("month", end)) = DayOfMonth(end)
              \/ /\ InEveryMonth(DayOfMonth(Start("month", end)))
                 /\ DayOfMonth(Start("month", end)) <= DayOfMonth(end)
<1> DEFINE M == Month[end]  d == DayOfMonth(end)  k == M - MonthsBack  s == Start("month", end)
<1>1. s = InMonth(k, end) /\ s = FirstOf[k] + d
    BY DEF Start, InMonth
<1>2. /\ end \in Nat /\ LastDay \in Nat /\ end <= LastDay /\ MonthsBack \in Nat
      /\ M \in 1..(Len(FirstOf) - 2) /\ Len(FirstOf) \in Nat /\ Months = 1..(Len(FirstOf) - 1)
      /\ d \in Nat /\ end = FirstOf[M] + d
    <2>1. end \in Nat /\ LastDay \in Nat /\ end <= LastDay /\ MonthsBack \in Nat
        BY EarningsAssumption DEF Days
    <2>2. M \in 1..(Len(FirstOf) - 2) /\ Len(FirstOf) \in Nat /\ Months = 1..(Len(FirstOf) - 1)
        BY MonthIs, FirstDays DEF Months
    <2>3. d \in Nat /\ end = FirstOf[M] + d
        BY DayIs
    <2> QED BY <2>1, <2>2, <2>3
<1>3. MonthsBack + 1 <= M
    <2>1. MonthsBack + 1 \in 1..Len(FirstOf) /\ FirstOf[MonthsBack + 1] <= FirstDay
        BY <1>2, EarningsAssumption
    <2>2. FirstOf[MonthsBack + 1] \in Nat /\ FirstDay \in Nat
        BY <2>1, FirstDays, EarningsAssumption
    <2>3. FirstOf[MonthsBack + 1] <= end
        BY <1>2, <2>1, <2>2
    <2> QED BY <2>1, <2>3, MonthIs
<1>4. k \in 1..(Len(FirstOf) - 2) /\ k \in 1..Len(FirstOf) /\ M \in 1..Len(FirstOf)
    BY <1>2, <1>3
<1>5. FirstOf[k] \in Nat /\ FirstOf[M] \in Nat /\ (k = M \/ FirstOf[k] < FirstOf[M])
    <2>1. k = M \/ k < M
        BY <1>2
    <2> QED BY <1>4, <2>1, FirstDays
<1>6. s \in 0..end /\ s \in Days
    <2> HIDE DEF k, M, d, s
    <2>1. s \in Nat /\ s <= end
        BY <1>1, <1>2, <1>5, SMTT(30)
    <2> QED BY <1>2, <2>1 DEF Days
<1>7. \/ DayOfMonth(s) = d
      \/ /\ InEveryMonth(DayOfMonth(s)) /\ d >= LengthOf(k)
         /\ DayOfMonth(s) = d - LengthOf(k)
    <2> HIDE DEF k, s
    <2> QED BY <1>1, <1>4, <1>6, InMonthIs
<1>8. LengthOf(k) \in Nat
    <2>1. k \in Months
        BY <1>2, <1>4
    <2> QED BY <2>1, LengthIs
<1> HIDE DEF k, M
<1>9. d - LengthOf(k) <= d
    BY <1>2, <1>8
<1> QED BY <1>6, <1>7, <1>9

(* The days or months between the start and the day asked on that have no bar. *)
Unbarred(period, end) ==
    {Key(period, day) : day \in Start(period, end)..end} \ Keys(period, end)

LEMMA BarsCoverDays ==
    ASSUME NEW end \in Days, FirstDay <= end
    PROVE  /\ Unbarred("day", end) = {}
           /\ Cardinality(BarDays("day", end)) = Cardinality(Keys("day", end))
<1>1. end \in Nat
    BY EarningsAssumption DEF Days
<1>2. BarDays("day", end) = Start("day", end)..end
    BY <1>1, DailyBars
<1>3. Keys("day", end) = BarDays("day", end)
    BY DEF Keys, Key
<1>4. {Key("day", day) : day \in Start("day", end)..end} = Start("day", end)..end
    BY DEF Key
<1> QED BY <1>2, <1>3, <1>4 DEF Unbarred

LEMMA BarsCoverMonths ==
    ASSUME NEW end \in Days, FirstDay <= end
    PROVE  /\ \A m, n \in Unbarred("month", end) : m = n /\ LengthOf(m) <= DayOfMonth(end)
           /\ Cardinality(BarDays("month", end)) = Cardinality(Keys("month", end))
<1>1. PICK f : AreBars(f, end) /\ BarDays("month", end) = f[Start("month", end)]
    BY BarsExist
<1> DEFINE s == Start("month", end)  B == BarDays("month", end)
<1>2. s \in 0..end /\ B \subseteq s..end /\ B = f[s]
    BY <1>1, MonthlyStart, BarsAre
<1>3. Keys("month", end) = {Month[b] : b \in B}
    BY DEF Keys, Key
<1>4. \A m \in Unbarred("month", end) : \E z \in s..end : m = Month[z] /\ ~ HasBar(B, z)
    BY <1>3 DEF Unbarred, Key, HasBar
<1>5. ASSUME NEW m \in Unbarred("month", end), NEW n \in Unbarred("month", end)
      PROVE  m = n /\ LengthOf(m) <= DayOfMonth(end)
    <2>1. PICK y \in s..end, z \in s..end :
              m = Month[y] /\ n = Month[z] /\ ~ HasBar(B, y) /\ ~ HasBar(B, z)
        BY <1>4, <1>5
    <2>2. Missed(B, s, end)
        <3>1. DayOfMonth(s) = DayOfMonth(end)
            <4> SUFFICES ASSUME InEveryMonth(DayOfMonth(s)), DayOfMonth(s) <= DayOfMonth(end)
                         PROVE  FALSE
                BY MonthlyStart
            <4>1. HasBar(f[s], y)
                BY <1>1, <1>2, <2>1, NoMonthMissing
            <4> QED BY <1>2, <2>1, <4>1
        <3> HIDE DEF s, B
        <3> QED BY <1>1, <1>2, <3>1, OneMonthMissing
    <2> HIDE DEF s, B
    <2> QED BY <2>1, <2>2 DEF Missed
<1>6. Cardinality(B) = Cardinality(Keys("month", end))
    <2> HIDE DEF s, B
    <2> DEFINE monthOf == [b \in B |-> Month[b]]
    <2>1. \A y, z \in B : Month[y] = Month[z] => y = z
        BY <1>1, <1>2, BarsApart
    <2>2. IsFiniteSet(B)
        <3>1. s \in Int /\ end \in Int
            BY <1>2, EarningsAssumption DEF Days
        <3>2. IsFiniteSet(s..end)
            BY <3>1, FS_Interval
        <3> QED BY <1>2, <3>2, FS_Subset
    <2>3. monthOf \in Bijection(B, Keys("month", end))
        BY <1>3, <2>1 DEF Bijection, Injection, Surjection, IsInjective
    <2>4. ExistsBijection(B, Keys("month", end))
        BY <2>3 DEF ExistsBijection
    <2> QED BY <2>2, <2>4, FS_Bijection
<1> QED BY <1>5, <1>6

--------------------------------------------------------------------------------
(* The invariant: a request for the earnings finds the fares of the bars again *)
(* when it reads the total, and else only what was pending when it read the     *)
(* bars, since what is made after it came is not of its range.                  *)

EarningsKinds == {"none", "credit", "settle", "earnings"}
EarningsSteps == {"idle", "readBars", "readTotal"} \cup Finished

InOrder == \A q, r \in Requests : Received(r) /\ q < r => Received(q)

ReadRight(r) ==
    /\ shown[r].bars \subseteq Earned(r)
    /\ Earned(r) \subseteq shown[r].bars \cup shown[r].pending
    /\ \A x \in Requests : x < r /\ earning[x].status = "PENDING" => x \in shown[r].pending

ShownRight(r) ==
    /\ shown[r].bars \subseteq shown[r].total /\ shown[r].total \subseteq Earned(r)
    /\ shown[r].total \subseteq shown[r].bars \cup shown[r].pending

AskedRight(r) ==
    op[r] = "earnings" =>
        /\ FirstDay <= shown[r].day
        /\ at[r] = "readTotal" => ReadRight(r)
        /\ at[r] = "done" => ShownRight(r)

EarningsInv ==
    /\ EarningsTypeOK
    /\ op \in [Requests -> EarningsKinds] /\ at \in [Requests -> EarningsSteps]
    /\ \A r \in Requests : at[r] \in {"readBars", "readTotal"} => op[r] = "earnings"
    /\ InOrder
    /\ \A r \in Requests : AskedRight(r)

(* A day is of the range of an earlier one or not, and an entry of a request    *)
(* that came before is settled, or stays as it is.                              *)
EntriesGoOn ==
    \A x \in Requests : Received(x) =>
        /\ earning'[x].day = earning[x].day
        /\ \/ earning'[x].status = earning[x].status
           \/ earning[x].status = "PENDING" /\ earning'[x].status = "COMPLETED"

LEMMA AskedGoesOn ==
    ASSUME EarningsInv, EntriesGoOn, NEW r \in Requests, Received(r), op'[r] = op[r],
           shown'[r] = shown[r], at'[r] = at[r] \/ at'[r] = "lost"
    PROVE  AskedRight(r)'
<1> SUFFICES ASSUME op'[r] = "earnings" PROVE AskedRight(r)'
    BY DEF AskedRight
<1>1. AskedRight(r) /\ op[r] = "earnings" /\ InRange(r)' = InRange(r)
    BY DEF EarningsInv, InRange, Start, InMonth, DayOfMonth
<1>2. \A x \in Requests : x < r =>
          /\ earning'[x].day = earning[x].day
          /\ \/ earning'[x].status = earning[x].status
             \/ earning[x].status = "PENDING" /\ earning'[x].status = "COMPLETED"
    BY DEF EarningsInv, InOrder, EntriesGoOn
<1>3. Earned(r) \subseteq Earned(r)'
    BY <1>1, <1>2 DEF Earned
<1>4. \A x \in Earned(r)' : x \in Earned(r) \/ (x < r /\ earning[x].status = "PENDING")
    BY <1>1, <1>2 DEF Earned
<1>5. ASSUME at'[r] = "readTotal" PROVE ReadRight(r)'
    <2>1. ReadRight(r)
        BY <1>1, <1>5 DEF AskedRight
    <2>2. \A x \in Requests : x < r /\ earning'[x].status = "PENDING" => earning[x].status = "PENDING"
        BY <1>2
    <2>3. \A x \in Earned(r)' : x \in Requests
        BY DEF Earned
    <2> QED BY <1>3, <1>4, <2>1, <2>2, <2>3 DEF ReadRight
<1>6. ASSUME at'[r] = "done" PROVE ShownRight(r)'
    <2>1. ShownRight(r)
        BY <1>1, <1>6 DEF AskedRight
    <2> QED BY <1>3, <2>1 DEF ShownRight
<1> QED BY <1>1, <1>5, <1>6 DEF AskedRight

(* What arrives is the next request; those before go on. *)
LEMMA EarningsReceived ==
    ASSUME EarningsInv, NEW r \in Requests, NEW kind \in EarningsKinds \ {"none"},
           NEW step \in EarningsSteps, Receive(r, kind, step),
           step \in {"readBars", "readTotal"} => kind = "earnings"
    PROVE  /\ ~ Received(r) /\ op'[r] = kind /\ at'[r] = step
           /\ \A q \in Requests \ {r} : op'[q] = op[q] /\ at'[q] = at[q]
           /\ op' \in [Requests -> EarningsKinds] /\ at' \in [Requests -> EarningsSteps]
           /\ \A q \in Requests : at'[q] \in {"readBars", "readTotal"} => op'[q] = "earnings"
           /\ InOrder'
<1>1. /\ ~ Received(r) /\ \A q \in Requests : q < r => Received(q)
      /\ op' = [op EXCEPT ![r] = kind] /\ at' = [at EXCEPT ![r] = step]
    BY DEF Receive, IsNext, IsTurnOf
<1>2. /\ op'[r] = kind /\ at'[r] = step /\ \A q \in Requests \ {r} : op'[q] = op[q] /\ at'[q] = at[q]
      /\ op' \in [Requests -> EarningsKinds] /\ at' \in [Requests -> EarningsSteps]
    BY <1>1 DEF EarningsInv
<1>3. \A q \in Requests : at'[q] \in {"readBars", "readTotal"} => op'[q] = "earnings"
    BY <1>2 DEF EarningsInv
<1>4. \A q \in Requests : Received(q)' <=> Received(q) \/ q = r
    BY <1>2 DEF Received
<1>5. InOrder'
    BY <1>1, <1>4 DEF EarningsInv, InOrder
<1> QED BY <1>1, <1>2, <1>3, <1>5

(* No request for the earnings has moved on. *)
LEMMA EarningsUnread ==
    ASSUME EarningsInv, EarningsTypeOK', EntriesGoOn, NEW r \in Requests, ~ Received(r),
           NEW kind \in {"credit", "settle"}, Receive(r, kind, "done"), shown' = shown
    PROVE  EarningsInv'
<1>1. "done" \in EarningsSteps /\ kind \in EarningsKinds \ {"none"}
    BY DEF EarningsSteps, Finished, EarningsKinds
<1>2. /\ op'[r] = kind /\ at'[r] = "done"
      /\ \A q \in Requests \ {r} : op'[q] = op[q] /\ at'[q] = at[q]
      /\ op' \in [Requests -> EarningsKinds] /\ at' \in [Requests -> EarningsSteps]
      /\ \A q \in Requests : at'[q] \in {"readBars", "readTotal"} => op'[q] = "earnings"
      /\ InOrder'
    BY <1>1, EarningsReceived
<1>3. ASSUME NEW q \in Requests PROVE AskedRight(q)'
    <2>1. CASE q = r
        BY <1>2, <2>1 DEF AskedRight
    <2>2. CASE q /= r /\ Received(q)
        BY <1>2, <2>2, AskedGoesOn
    <2>3. CASE q /= r /\ ~ Received(q)
        BY <1>2, <2>3 DEF AskedRight, Received
    <2> QED BY <2>1, <2>2, <2>3
<1> QED BY <1>2, <1>3 DEF EarningsInv

LEMMA FareEntered ==
    ASSUME EarningsInv, NEW r \in Requests, CreateRideTransaction(r)
    PROVE  EarningsInv'
<1>1. /\ today' = today /\ shown' = shown /\ Receive(r, "credit", "done")
      /\ earning' = [earning EXCEPT ![r] = [day |-> today, status |-> "PENDING"]]
    BY DEF CreateRideTransaction
<1>2. ~ Received(r)
    BY <1>1 DEF Receive, IsNext, IsTurnOf
<1>3. EarningsTypeOK'
    <2>1. today \in 0..LastDay
        BY EarningsAssumption DEF EarningsInv, EarningsTypeOK
    <2>2. [day |-> today, status |-> "PENDING"] \in Earning
        BY <2>1 DEF Earning
    <2> QED BY <1>1, <2>2 DEF EarningsInv, EarningsTypeOK
<1>4. EntriesGoOn
    BY <1>1, <1>2 DEF EarningsInv, EarningsTypeOK, EntriesGoOn
<1> QED BY <1>1, <1>2, <1>3, <1>4, EarningsUnread

LEMMA FareSettled ==
    ASSUME EarningsInv, NEW r \in Requests, NEW x \in Requests, UpdateRideTransaction(r, x)
    PROVE  EarningsInv'
<1>1. /\ earning[x].status = "PENDING"
      /\ today' = today /\ shown' = shown /\ Receive(r, "settle", "done")
      /\ earning' = [earning EXCEPT ![x].status = "COMPLETED"]
    BY DEF UpdateRideTransaction
<1>2. ~ Received(r)
    BY <1>1 DEF Receive, IsNext, IsTurnOf
<1>3. earning \in [Requests -> Earning] /\ earning[x] \in Earning
    BY DEF EarningsInv, EarningsTypeOK
<1>4. EarningsTypeOK'
    <2>1. [earning[x] EXCEPT !.status = "COMPLETED"] \in Earning
        BY <1>3 DEF Earning
    <2> QED BY <1>1, <1>3, <2>1 DEF EarningsInv, EarningsTypeOK
<1>5. EntriesGoOn
    BY <1>1, <1>3 DEF Earning, EntriesGoOn
<1> QED BY <1>1, <1>2, <1>4, <1>5, EarningsUnread

LEMMA EarningsAsked ==
    ASSUME EarningsInv, NEW r \in Requests, NEW period \in {"day", "month"}, GetDriverEarnings(r, period)
    PROVE  EarningsInv'
<1> DEFINE new == [shown[r] EXCEPT !.period = period, !.day = today]
<1>1. /\ Receive(r, "earnings", "readBars") /\ today' = today /\ earning' = earning
      /\ shown' = [shown EXCEPT ![r] = new] /\ shown[r] \in Shown
    BY DEF GetDriverEarnings, EarningsInv, EarningsTypeOK
<1>2. new \in Shown /\ new.day = today /\ FirstDay <= today
    <2>1. today \in 0..LastDay /\ FirstDay <= today
        BY EarningsAssumption DEF EarningsInv, EarningsTypeOK
    <2> QED BY <1>1, <2>1 DEF Shown
<1> HIDE DEF new
<1>3. EarningsTypeOK'
    BY <1>1, <1>2 DEF EarningsInv, EarningsTypeOK
<1>4. "readBars" \in EarningsSteps /\ "earnings" \in EarningsKinds \ {"none"}
    BY DEF EarningsSteps, EarningsKinds
<1>5. /\ op'[r] = "earnings" /\ at'[r] = "readBars"
      /\ \A q \in Requests \ {r} : op'[q] = op[q] /\ at'[q] = at[q]
      /\ op' \in [Requests -> EarningsKinds] /\ at' \in [Requests -> EarningsSteps]
      /\ \A q \in Requests : at'[q] \in {"readBars", "readTotal"} => op'[q] = "earnings"
      /\ InOrder'
    BY <1>1, <1>4, EarningsReceived
<1>6. shown'[r] = new /\ \A q \in Requests \ {r} : shown'[q] = shown[q]
    BY <1>1 DEF EarningsInv, EarningsTypeOK
<1>7. EntriesGoOn
    BY <1>1 DEF EntriesGoOn
<1>8. ASSUME NEW q \in Requests PROVE AskedRight(q)'
    <2>1. CASE q = r
        BY <1>2, <1>5, <1>6, <2>1 DEF AskedRight
    <2>2. CASE q /= r /\ Received(q)
        BY <1>5, <1>6, <1>7, <2>2, AskedGoesOn
    <2>3. CASE q /= r /\ ~ Received(q)
        BY <1>5, <2>3 DEF AskedRight, Received
    <2> QED BY <2>1, <2>2, <2>3
<1> QED BY <1>3, <1>5, <1>8 DEF EarningsInv

LEMMA EarningsRead ==
    ASSUME EarningsInv, NEW r \in Requests, ReadBars(r) \/ ReadTotal(r)
    PROVE  EarningsInv'
<1>1. PICK new \in Shown, step \in {"readTotal", "done"} :
          /\ at[r] \in {"readBars", "readTotal"} /\ Goto(r, step) /\ today' = today /\ earning' = earning
          /\ shown' = [shown EXCEPT ![r] = new]
          /\ new.period = shown[r].period /\ new.day = shown[r].day
          /\ \/ /\ step = "readTotal" /\ new.bars = Earned(r)
                /\ new.pending = {x \in Requests : earning[x].status = "PENDING"}
             \/ /\ step = "done" /\ at[r] = "readTotal" /\ new.total = Earned(r)
                /\ new.bars = shown[r].bars /\ new.pending = shown[r].pending
    <2>1. shown[r] \in Shown /\ shown \in [Requests -> Shown] /\ Earned(r) \in SUBSET Requests
        BY DEF EarningsInv, EarningsTypeOK, Earned
    <2> DEFINE pending == {x \in Requests : earning[x].status = "PENDING"}
    <2>2. CASE ReadBars(r)
        <3> DEFINE new == [shown[r] EXCEPT !.bars = Earned(r), !.pending = pending]
        <3>1. shown' = [shown EXCEPT ![r] = new]
            BY <2>1, <2>2 DEF ReadBars
        <3>2. /\ new \in Shown /\ new.period = shown[r].period /\ new.day = shown[r].day
              /\ new.bars = Earned(r) /\ new.pending = pending
            BY <2>1 DEF Shown
        <3>3. at[r] = "readBars" /\ Goto(r, "readTotal") /\ today' = today /\ earning' = earning
            BY <2>2 DEF ReadBars, At
        <3> HIDE DEF new
        <3> QED BY <3>1, <3>2, <3>3
    <2>3. CASE ReadTotal(r)
        <3> DEFINE new == [shown[r] EXCEPT !.total = Earned(r)]
        <3>1. shown' = [shown EXCEPT ![r] = new]
            BY <2>1, <2>3 DEF ReadTotal
        <3>2. /\ new \in Shown /\ new.period = shown[r].period /\ new.day = shown[r].day
              /\ new.total = Earned(r) /\ new.bars = shown[r].bars /\ new.pending = shown[r].pending
            BY <2>1 DEF Shown
        <3>3. at[r] = "readTotal" /\ Goto(r, "done") /\ today' = today /\ earning' = earning
            BY <2>3 DEF ReadTotal, At
        <3> HIDE DEF new
        <3> QED BY <3>1, <3>2, <3>3
    <2> QED BY <2>2, <2>3
<1>2. /\ op' = op /\ at'[r] = step /\ at' \in [Requests -> EarningsSteps]
      /\ \A q \in Requests \ {r} : at'[q] = at[q]
    BY <1>1 DEF EarningsInv, Goto, EarningsSteps, Finished
<1>3. shown'[r] = new /\ \A q \in Requests \ {r} : shown'[q] = shown[q]
    BY <1>1 DEF EarningsInv, EarningsTypeOK
<1>4. EarningsTypeOK'
    BY <1>1 DEF EarningsInv, EarningsTypeOK
<1>5. AskedRight(r) /\ op[r] = "earnings"
    BY <1>1 DEF EarningsInv
<1>6. Earned(r)' = Earned(r)
    BY <1>1, <1>3 DEF Earned, InRange, Start, InMonth, DayOfMonth
<1>7. AskedRight(r)'
    <2>1. CASE step = "readTotal"
        <3>1. ReadRight(r)'
            BY <1>1, <1>3, <1>6, <2>1 DEF ReadRight
        <3> QED BY <1>1, <1>2, <1>3, <1>5, <2>1, <3>1 DEF AskedRight
    <2>2. CASE step = "done"
        <3>1. ReadRight(r) /\ new.total = Earned(r) /\ new.bars = shown[r].bars
              /\ new.pending = shown[r].pending
            BY <1>1, <1>5, <2>2 DEF AskedRight
        <3>2. ShownRight(r)'
            BY <1>3, <1>6, <3>1 DEF ReadRight, ShownRight
        <3> QED BY <1>1, <1>2, <1>3, <1>5, <2>2, <3>2 DEF AskedRight
    <2> QED BY <2>1, <2>2
<1>8. EntriesGoOn
    BY <1>1 DEF EntriesGoOn
<1>9. ASSUME NEW q \in Requests \ {r} PROVE AskedRight(q)'
    <2>1. CASE Received(q)
        BY <1>2, <1>3, <1>8, <2>1, AskedGoesOn
    <2>2. CASE ~ Received(q)
        BY <1>2, <2>2 DEF AskedRight, Received
    <2> QED BY <2>1, <2>2
<1>10. InOrder'
    BY <1>2 DEF EarningsInv, InOrder, Received
<1>11. \A q \in Requests : at'[q] \in {"readBars", "readTotal"} => op'[q] = "earnings"
    BY <1>2, <1>5 DEF EarningsInv
<1>12. op' \in [Requests -> EarningsKinds]
    BY <1>2 DEF EarningsInv
<1> QED BY <1>2, <1>4, <1>7, <1>9, <1>10, <1>11, <1>12 DEF EarningsInv

LEMMA EarningsStand ==
    ASSUME EarningsInv, EarningsTypeOK', op' = op, at' \in [Requests -> EarningsSteps],
           earning' = earning, shown' = shown,
           \A q \in Requests : at'[q] = at[q] \/ at'[q] = "lost"
    PROVE  EarningsInv'
<1>1. EntriesGoOn
    BY DEF EntriesGoOn
<1>2. ASSUME NEW q \in Requests PROVE AskedRight(q)'
    <2>1. CASE Received(q)
        BY <1>1, <2>1, AskedGoesOn
    <2>2. CASE ~ Received(q)
        BY <2>2 DEF AskedRight, Received
    <2> QED BY <2>1, <2>2
<1>3. InOrder'
    BY DEF EarningsInv, InOrder, Received
<1>4. \A q \in Requests : at'[q] \in {"readBars", "readTotal"} => op'[q] = "earnings"
    BY DEF EarningsInv
<1>5. op' \in [Requests -> EarningsKinds]
    BY DEF EarningsInv
<1> QED BY <1>2, <1>3, <1>4, <1>5 DEF EarningsInv

LEMMA EarningsInitially == HandlersInit /\ EarningsInit => EarningsInv
<1> SUFFICES ASSUME HandlersInit, EarningsInit PROVE EarningsInv
    OBVIOUS
<1>1. op = [r \in Requests |-> "none"] /\ at = [r \in Requests |-> "idle"]
    BY DEF HandlersInit
<1>2. FirstDay \in FirstDay..LastDay /\ 0 \in 0..LastDay
    BY EarningsAssumption
<1>3. EarningsTypeOK
    BY <1>2 DEF EarningsInit, EarningsTypeOK, Earning, Shown
<1>4. op \in [Requests -> EarningsKinds] /\ at \in [Requests -> EarningsSteps]
    BY <1>1 DEF EarningsKinds, EarningsSteps
<1>5. InOrder
    BY <1>1 DEF InOrder, Received
<1>6. \A r \in Requests : AskedRight(r) /\ at[r] \notin {"readBars", "readTotal"}
    BY <1>1 DEF AskedRight
<1> QED BY <1>3, <1>4, <1>5, <1>6 DEF EarningsInv

LEMMA EarningsInvHolds == EarningsSpec => []EarningsInv
<1>1. ASSUME EarningsInv, [EarningsNext \/ (Stop /\ EarningsStop)]_<<handlerVars, earningsVars>>
      PROVE  EarningsInv'
    <2>1. CASE DaysPass
        <3>1. /\ op' = op /\ at' = at /\ earning' = earning /\ shown' = shown
              /\ today' \in (today + 1)..LastDay
            BY <2>1 DEF DaysPass, handlerVars
        <3>2. EarningsTypeOK'
            BY <1>1, <3>1, EarningsAssumption DEF EarningsInv, EarningsTypeOK
        <3>3. at' \in [Requests -> EarningsSteps]
            BY <1>1, <3>1 DEF EarningsInv
        <3> QED BY <1>1, <3>1, <3>2, <3>3, EarningsStand
    <2>2. ASSUME NEW r \in Requests, EarningsReceive(r) PROVE EarningsInv'
        BY <1>1, <2>2, FareEntered, FareSettled, EarningsAsked DEF EarningsReceive
    <2>3. ASSUME NEW r \in Requests, ReadBars(r) \/ ReadTotal(r) PROVE EarningsInv'
        BY <1>1, <2>3, EarningsRead
    <2>4. CASE Stop /\ EarningsStop
        <3>1. /\ op' = op /\ at' = [r \in Requests |-> IF Running(r) THEN "lost" ELSE at[r]]
              /\ today' = today /\ earning' = earning /\ shown' = shown
            BY <2>4 DEF Stop, EarningsStop, earningsVars
        <3>2. /\ at' \in [Requests -> EarningsSteps]
              /\ \A q \in Requests : at'[q] = at[q] \/ at'[q] = "lost"
            BY <1>1, <3>1 DEF EarningsInv, EarningsSteps, Finished
        <3>3. EarningsTypeOK'
            BY <1>1, <3>1 DEF EarningsInv, EarningsTypeOK
        <3> QED BY <1>1, <3>1, <3>2, <3>3, EarningsStand
    <2>5. CASE UNCHANGED <<handlerVars, earningsVars>>
        <3>1. /\ op' = op /\ at' = at /\ today' = today /\ earning' = earning /\ shown' = shown
            BY <2>5 DEF handlerVars, earningsVars
        <3>2. EarningsTypeOK' /\ at' \in [Requests -> EarningsSteps]
            BY <1>1, <3>1 DEF EarningsInv, EarningsTypeOK
        <3> QED BY <1>1, <3>1, <3>2, EarningsStand
    <2> QED BY <1>1, <2>1, <2>2, <2>3, <2>4, <2>5 DEF EarningsNext
<1> QED BY <1>1, EarningsInitially, PTL DEF EarningsSpec

(* What the histogram of a driver's earnings shows adds up to the total next   *)
(* to it, on whatever days the fares are entered, settled and asked for, but    *)
(* for those settled between the two reads and for one month at most, which has *)
(* not the day of the month that it is asked on.                                *)
THEOREM HistogramAddsUp == EarningsSpec => []EarningsAddUp
<1>1. ASSUME EarningsInv, NEW r \in Requests, op[r] = "earnings", at[r] = "done"
      PROVE  LET h == shown[r]
                 inBars == UNION {Bar(r, key) : key \in Keys(h.period, h.day)}
             IN  /\ inBars \subseteq h.total
                 /\ \A x \in h.total \ inBars :
                       x \in h.pending \/ Key(h.period, earning[x].day) \in Barless(r)
                 /\ h.period = "day" => Barless(r) = {}
                 /\ \A m, n \in Barless(r) : m = n /\ LengthOf(m) <= DayOfMonth(h.day)
                 /\ Cardinality(BarDays(h.period, h.day)) = Cardinality(Keys(h.period, h.day))
    <2> DEFINE h == shown[r]
               inBars == UNION {Bar(r, key) : key \in Keys(h.period, h.day)}
    <2>1. ShownRight(r) /\ h \in Shown /\ FirstDay <= h.day
        BY <1>1 DEF EarningsInv, AskedRight, EarningsTypeOK
    <2>2. h.period \in {"day", "month"} /\ h.day \in Days
        BY <2>1 DEF Shown, Days
    <2>3. Barless(r) = Unbarred(h.period, h.day)
        BY DEF Barless, Unbarred, InRange
    <2>4. inBars \subseteq h.bars
        BY DEF Bar
    <2>5. ASSUME NEW x \in h.total \ inBars, x \notin h.pending
          PROVE  Key(h.period, earning[x].day) \in Barless(r)
        <3>1. x \in h.bars /\ earning[x].day \in InRange(r)
            BY <2>1, <2>5 DEF ShownRight, Earned
        <3>2. Key(h.period, earning[x].day) \notin Keys(h.period, h.day)
            BY <2>5, <3>1 DEF Bar
        <3> QED BY <3>1, <3>2 DEF Barless
    <2>6. inBars \subseteq h.total
        BY <2>1, <2>4 DEF ShownRight
    <2> HIDE DEF h, inBars
    <2>7. /\ h.period = "day" => Barless(r) = {}
          /\ \A m, n \in Barless(r) : m = n /\ LengthOf(m) <= DayOfMonth(h.day)
          /\ Cardinality(BarDays(h.period, h.day)) = Cardinality(Keys(h.period, h.day))
        <3>1. CASE h.period = "day"
            BY <2>1, <2>2, <2>3, <3>1, BarsCoverDays
        <3>2. CASE h.period = "month"
            BY <2>1, <2>2, <2>3, <3>2, BarsCoverMonths
        <3> QED BY <2>2, <3>1, <3>2
    <2> QED BY <2>5, <2>6, <2>7 DEF h, inBars
<1>2. EarningsInv => EarningsAddUp
    BY <1>1 DEF EarningsAddUp
<1> QED BY <1>2, EarningsInvHolds, PTL
================================================================================
