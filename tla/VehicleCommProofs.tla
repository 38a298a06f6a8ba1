------------------------- MODULE VehicleCommProofs -------------------------
(***************************************************************************)
(* What holds of a device's connections for any number of sockets that     *)
(* overlap, of commands and of faults.                                     *)
(***************************************************************************)
EXTENDS VehicleComm, TLAPS

(* Every variable has its type, in every reachable state. *)
THEOREM DeviceTypes == Spec => []TypeOK
<1>1. Init => TypeOK
  <2> SUFFICES ASSUME Init PROVE TypeOK
    OBVIOUS
  <2>1. link \in [Socket -> {"open", "cut", "closing", "closed"}]
    BY FaultsAssumption DEF Init
  <2>2. step \in [Socket -> {"done", "looking", "marking", "refusing"}]
    BY FaultsAssumption DEF Init
  <2>3. leaving \in [Socket -> {"no", "looking", "writing"}]
    BY FaultsAssumption DEF Init
  <2>4. contexts \subseteq Socket /\ alive \subseteq contexts
    BY FaultsAssumption DEF Init
  <2>5. heartbeat \in BOOLEAN /\ stray \in BOOLEAN
    BY FaultsAssumption DEF Init
  <2>6. held \in Socket \cup {NoSocket} /\ superseded \subseteq Socket
    BY FaultsAssumption DEF Init
  <2>7. session \in {"none", "part", "full"} /\ state \in {"ONLINE", "OFFLINE", "DISABLED"}
    BY FaultsAssumption DEF Init
  <2>8. order \in [Command -> {"idle", "asked"} \cup Socket]
    BY FaultsAssumption DEF Init
  <2>9. faults \in 0 .. MaxFaults
    BY FaultsAssumption DEF Init
  <2> QED
    BY <2>1, <2>2, <2>3, <2>4, <2>5, <2>6, <2>7, <2>8, <2>9 DEF TypeOK
<1>2. TypeOK /\ [Next]_vars => TypeOK'
  <2> SUFFICES ASSUME TypeOK, [Next]_vars PROVE TypeOK'
    OBVIOUS
  <2> USE NoSocketAssumption, FaultsAssumption
  <2>1. ASSUME NEW s \in Socket, Connect(s) PROVE  TypeOK'
    BY <2>1 DEF Connect, TypeOK, gateway
  <2>2. ASSUME NEW s \in Socket, Attach(s) PROVE  TypeOK'
    BY <2>2 DEF Attach, Closing, TypeOK, gateway
  <2>3. ASSUME NEW s \in Socket, Mark(s) PROVE  TypeOK'
    BY <2>3 DEF Mark, TypeOK, gateway
  <2>4. ASSUME NEW s \in Socket, Refuse(s) PROVE  TypeOK'
    BY <2>4 DEF Refuse, Closing, TypeOK, gateway
  <2>5. ASSUME NEW s \in Socket, Close(s) PROVE  TypeOK'
    BY <2>5 DEF Close, Disconnected, Detached, TypeOK, gateway
  <2>6. ASSUME NEW s \in Socket, Vanish(s) PROVE  TypeOK'
    BY <2>6 DEF Vanish, TypeOK, gateway
  <2>7. ASSUME NEW s \in Socket, LookUp(s) PROVE  TypeOK'
    BY <2>7 DEF LookUp, TypeOK, gateway
  <2>8. ASSUME NEW s \in Socket, MarkOffline(s) PROVE  TypeOK'
    BY <2>8 DEF MarkOffline, TypeOK, gateway
  <2>9. ASSUME NEW s \in Socket, Pong(s) PROVE  TypeOK'
    BY <2>9 DEF Pong, TypeOK, gateway
  <2>10. ASSUME NEW s \in Socket, Message(s) PROVE  TypeOK'
    BY <2>10 DEF Message, TypeOK, gateway
  <2>11. ASSUME NEW c \in Command, Ask(c) PROVE  TypeOK'
    BY <2>11 DEF Ask, TypeOK, gateway
  <2>12. ASSUME NEW c \in Command, Issue(c) PROVE  TypeOK'
    BY <2>12 DEF Issue, TypeOK, gateway
  <2>13. ASSUME NEW c \in Command, Ack(c) PROVE  TypeOK'
    BY <2>13 DEF Ack, TypeOK, gateway
  <2>14. ASSUME NEW c \in Command, Timeout(c) PROVE  TypeOK'
    BY <2>14 DEF Timeout, TypeOK, gateway
  <2>15. ASSUME Beat PROVE  TypeOK'
    BY <2>15 DEF Beat, Closing, Disconnected, Detached, TypeOK, gateway
  <2>16. ASSUME SessionExpires PROVE  TypeOK'
    BY <2>16 DEF SessionExpires, TypeOK, gateway
  <2>17. ASSUME NEW st \in {"ONLINE", "OFFLINE", "DISABLED"}, Edit(st) PROVE  TypeOK'
    BY <2>17 DEF Edit, TypeOK, gateway
  <2>18. ASSUME Report PROVE  TypeOK'
    BY <2>18 DEF Report, TypeOK, gateway
  <2>19. ASSUME Restart PROVE  TypeOK'
    <3>1. link' \in [Socket -> {"open", "cut", "closing", "closed"}]
      BY <2>19 DEF Restart, TypeOK
    <3>2. step' \in [Socket -> {"done", "looking", "marking", "refusing"}]
      BY <2>19 DEF Restart, TypeOK
    <3>3. leaving' \in [Socket -> {"no", "looking", "writing"}]
      BY <2>19 DEF Restart, TypeOK
    <3>4. contexts' \subseteq Socket /\ alive' \subseteq contexts'
      BY <2>19 DEF Restart, TypeOK
    <3>5. heartbeat' \in BOOLEAN /\ stray' \in BOOLEAN
      BY <2>19 DEF Restart, TypeOK
    <3>6. held' \in Socket \cup {NoSocket} /\ superseded' \subseteq Socket
      BY <2>19 DEF Restart, TypeOK
    <3>7. session' \in {"none", "part", "full"} /\ state' \in {"ONLINE", "OFFLINE", "DISABLED"}
      BY <2>19 DEF Restart, TypeOK
    <3>8. order' \in [Command -> {"idle", "asked"} \cup Socket]
      BY <2>19 DEF Restart, TypeOK
    <3>9. faults' \in 0 .. MaxFaults
      BY <2>19 DEF Restart, TypeOK
    <3> QED
      BY <3>1, <3>2, <3>3, <3>4, <3>5, <3>6, <3>7, <3>8, <3>9 DEF TypeOK
  <2>20. CASE UNCHANGED vars
    BY <2>20 DEF vars, gateway, TypeOK, gateway
  <2> QED
    BY <2>1, <2>2, <2>3, <2>4, <2>5, <2>6, <2>7, <2>8, <2>9, <2>10, <2>11, <2>12, <2>13, <2>14, <2>15, <2>16, <2>17, <2>18, <2>19, <2>20 DEF Next, SocketStep, CommandStep
<1> QED
  BY <1>1, <1>2, PTL DEF Spec

(* A socket that has its place or its context, and is open, is the one the *)
(* service holds, unless an older one's detach() has deleted the entry.    *)
HeldInv ==
    \A s \in Socket : (s \in contexts \/ step[s] = "marking") /\ link[s] = "open"
                     => s = held \/ s \in superseded

(* The interval never outlives the contexts, and never ends before them;   *)
(* the steps of attach() between its awaits lose no connection.            *)
THEOREM DeviceWatched == Spec => []ServedIsWatched
<1>1. Init => ServedIsWatched
  BY DEF Init, ServedIsWatched
<1>2. ServedIsWatched /\ [Next]_vars => ServedIsWatched'
  <2> SUFFICES ASSUME ServedIsWatched, [Next]_vars PROVE ServedIsWatched'
    OBVIOUS
  <2>1. ASSUME NEW s \in Socket, Connect(s) PROVE  ServedIsWatched'
    BY <2>1 DEF Connect, ServedIsWatched, gateway
  <2>2. ASSUME NEW s \in Socket, Attach(s) PROVE  ServedIsWatched'
    BY <2>2 DEF Attach, Closing, ServedIsWatched, gateway
  <2>3. ASSUME NEW s \in Socket, Mark(s) PROVE  ServedIsWatched'
    BY <2>3 DEF Mark, ServedIsWatched, gateway
  <2>4. ASSUME NEW s \in Socket, Refuse(s) PROVE  ServedIsWatched'
    BY <2>4 DEF Refuse, Closing, ServedIsWatched, gateway
  <2>5. ASSUME NEW s \in Socket, Close(s) PROVE  ServedIsWatched'
    BY <2>5 DEF Close, Disconnected, Detached, ServedIsWatched, gateway
  <2>6. ASSUME NEW s \in Socket, Vanish(s) PROVE  ServedIsWatched'
    BY <2>6 DEF Vanish, ServedIsWatched, gateway
  <2>7. ASSUME NEW s \in Socket, LookUp(s) PROVE  ServedIsWatched'
    BY <2>7 DEF LookUp, ServedIsWatched, gateway
  <2>8. ASSUME NEW s \in Socket, MarkOffline(s) PROVE  ServedIsWatched'
    BY <2>8 DEF MarkOffline, ServedIsWatched, gateway
  <2>9. ASSUME NEW s \in Socket, Pong(s) PROVE  ServedIsWatched'
    BY <2>9 DEF Pong, ServedIsWatched, gateway
  <2>10. ASSUME NEW s \in Socket, Message(s) PROVE  ServedIsWatched'
    BY <2>10 DEF Message, ServedIsWatched, gateway
  <2>11. ASSUME NEW c \in Command, Ask(c) PROVE  ServedIsWatched'
    BY <2>11 DEF Ask, ServedIsWatched, gateway
  <2>12. ASSUME NEW c \in Command, Issue(c) PROVE  ServedIsWatched'
    BY <2>12 DEF Issue, ServedIsWatched, gateway
  <2>13. ASSUME NEW c \in Command, Ack(c) PROVE  ServedIsWatched'
    BY <2>13 DEF Ack, ServedIsWatched, gateway
  <2>14. ASSUME NEW c \in Command, Timeout(c) PROVE  ServedIsWatched'
    BY <2>14 DEF Timeout, ServedIsWatched, gateway
  <2>15. ASSUME Beat PROVE  ServedIsWatched'
    BY <2>15 DEF Beat, Closing, Disconnected, Detached, ServedIsWatched, gateway
  <2>16. ASSUME SessionExpires PROVE  ServedIsWatched'
    BY <2>16 DEF SessionExpires, ServedIsWatched, gateway
  <2>17. ASSUME NEW st \in {"ONLINE", "OFFLINE", "DISABLED"}, Edit(st) PROVE  ServedIsWatched'
    BY <2>17 DEF Edit, ServedIsWatched, gateway
  <2>18. ASSUME Report PROVE  ServedIsWatched'
    BY <2>18 DEF Report, ServedIsWatched, gateway
  <2>19. ASSUME Restart PROVE  ServedIsWatched'
    BY <2>19 DEF Restart, ServedIsWatched, gateway
  <2>20. CASE UNCHANGED vars
    BY <2>20 DEF vars, gateway, ServedIsWatched, gateway
  <2> QED
    BY <2>1, <2>2, <2>3, <2>4, <2>5, <2>6, <2>7, <2>8, <2>9, <2>10, <2>11, <2>12, <2>13, <2>14, <2>15, <2>16, <2>17, <2>18, <2>19, <2>20 DEF Next, SocketStep, CommandStep
<1> QED
  BY <1>1, <1>2, PTL DEF Spec

(* A served device can be given commands through its open socket, for any  *)
(* number of connections, except after the late detach() of an older one   *)
(* (attach and detach of vehicle-comm.service.ts).                         *)
THEOREM DeviceReachable == Spec => []ServedIsHeld
<1>1. Init => HeldInv
  BY DEF Init, HeldInv
<1>2. TypeOK /\ HeldInv /\ [Next]_vars => HeldInv'
  <2> SUFFICES ASSUME TypeOK, HeldInv, [Next]_vars PROVE HeldInv'
    OBVIOUS
  <2> USE NoSocketAssumption DEF TypeOK
  <2>1. ASSUME NEW s \in Socket, Connect(s) PROVE  HeldInv'
    BY <2>1 DEF Connect, HeldInv, gateway
  <2>2. ASSUME NEW s \in Socket, Attach(s) PROVE  HeldInv'
    BY <2>2 DEF Attach, Closing, HeldInv, gateway
  <2>3. ASSUME NEW s \in Socket, Mark(s) PROVE  HeldInv'
    BY <2>3 DEF Mark, HeldInv, gateway
  <2>4. ASSUME NEW s \in Socket, Refuse(s) PROVE  HeldInv'
    BY <2>4 DEF Refuse, Closing, HeldInv, gateway
  <2>5. ASSUME NEW s \in Socket, Close(s) PROVE  HeldInv'
    BY <2>5 DEF Close, Disconnected, Detached, HeldInv, gateway
  <2>6. ASSUME NEW s \in Socket, Vanish(s) PROVE  HeldInv'
    BY <2>6 DEF Vanish, HeldInv, gateway
  <2>7. ASSUME NEW s \in Socket, LookUp(s) PROVE  HeldInv'
    BY <2>7 DEF LookUp, HeldInv, gateway
  <2>8. ASSUME NEW s \in Socket, MarkOffline(s) PROVE  HeldInv'
    BY <2>8 DEF MarkOffline, HeldInv, gateway
  <2>9. ASSUME NEW s \in Socket, Pong(s) PROVE  HeldInv'
    BY <2>9 DEF Pong, HeldInv, gateway
  <2>10. ASSUME NEW s \in Socket, Message(s) PROVE  HeldInv'
    BY <2>10 DEF Message, HeldInv, gateway
  <2>11. ASSUME NEW c \in Command, Ask(c) PROVE  HeldInv'
    BY <2>11 DEF Ask, HeldInv, gateway
  <2>12. ASSUME NEW c \in Command, Issue(c) PROVE  HeldInv'
    BY <2>12 DEF Issue, HeldInv, gateway
  <2>13. ASSUME NEW c \in Command, Ack(c) PROVE  HeldInv'
    BY <2>13 DEF Ack, HeldInv, gateway
  <2>14. ASSUME NEW c \in Command, Timeout(c) PROVE  HeldInv'
    BY <2>14 DEF Timeout, HeldInv, gateway
  <2>15. ASSUME Beat PROVE  HeldInv'
    BY <2>15 DEF Beat, Closing, Disconnected, Detached, HeldInv, gateway
  <2>16. ASSUME SessionExpires PROVE  HeldInv'
    BY <2>16 DEF SessionExpires, HeldInv, gateway
  <2>17. ASSUME NEW st \in {"ONLINE", "OFFLINE", "DISABLED"}, Edit(st) PROVE  HeldInv'
    BY <2>17 DEF Edit, HeldInv, gateway
  <2>18. ASSUME Report PROVE  HeldInv'
    BY <2>18 DEF Report, HeldInv, gateway
  <2>19. ASSUME Restart PROVE  HeldInv'
    BY <2>19 DEF Restart, HeldInv, gateway
  <2>20. CASE UNCHANGED vars
    BY <2>20 DEF vars, gateway, HeldInv, gateway
  <2> QED
    BY <2>1, <2>2, <2>3, <2>4, <2>5, <2>6, <2>7, <2>8, <2>9, <2>10, <2>11, <2>12, <2>13, <2>14, <2>15, <2>16, <2>17, <2>18, <2>19, <2>20 DEF Next, SocketStep, CommandStep
<1>3. TypeOK /\ HeldInv => ServedIsHeld
  BY DEF TypeOK, HeldInv, ServedIsHeld
<1> QED
  BY <1>1, <1>2, <1>3, DeviceTypes, PTL DEF Spec

(* An ONLINE that no edit, report or restart has left has a connection     *)
(* behind it, or the detach() of one that will still see it.               *)
OnlineInv ==
    state = "ONLINE" /\ ~stray => contexts # {} \/ \E s \in Socket : leaving[s] # "no"

(* However many connections of a vehicle come and go at once, the row is   *)
(* not left ONLINE when the last has been detached.                        *)
THEOREM DeviceOffline == Spec => []NobodyIsOnline
<1>1. Init => OnlineInv
  BY DEF Init, OnlineInv
<1>2. TypeOK /\ OnlineInv /\ [Next]_vars => OnlineInv'
  <2> SUFFICES ASSUME TypeOK, OnlineInv, [Next]_vars PROVE OnlineInv'
    OBVIOUS
  <2> USE DEF TypeOK
  <2>1. ASSUME NEW s \in Socket, Connect(s) PROVE  OnlineInv'
    BY <2>1 DEF Connect, OnlineInv, gateway
  <2>2. ASSUME NEW s \in Socket, Attach(s) PROVE  OnlineInv'
    BY <2>2 DEF Attach, Closing, OnlineInv, gateway
  <2>3. ASSUME NEW s \in Socket, Mark(s) PROVE  OnlineInv'
    BY <2>3 DEF Mark, OnlineInv, gateway
  <2>4. ASSUME NEW s \in Socket, Refuse(s) PROVE  OnlineInv'
    BY <2>4 DEF Refuse, Closing, OnlineInv, gateway
  <2>5. ASSUME NEW s \in Socket, Close(s) PROVE  OnlineInv'
    BY <2>5 DEF Close, Disconnected, Detached, OnlineInv, gateway
  <2>6. ASSUME NEW s \in Socket, Vanish(s) PROVE  OnlineInv'
    BY <2>6 DEF Vanish, OnlineInv, gateway
  <2>7. ASSUME NEW s \in Socket, LookUp(s) PROVE  OnlineInv'
    BY <2>7 DEF LookUp, OnlineInv, gateway
  <2>8. ASSUME NEW s \in Socket, MarkOffline(s) PROVE  OnlineInv'
    BY <2>8 DEF MarkOffline, OnlineInv, gateway
  <2>9. ASSUME NEW s \in Socket, Pong(s) PROVE  OnlineInv'
    BY <2>9 DEF Pong, OnlineInv, gateway
  <2>10. ASSUME NEW s \in Socket, Message(s) PROVE  OnlineInv'
    BY <2>10 DEF Message, OnlineInv, gateway
  <2>11. ASSUME NEW c \in Command, Ask(c) PROVE  OnlineInv'
    BY <2>11 DEF Ask, OnlineInv, gateway
  <2>12. ASSUME NEW c \in Command, Issue(c) PROVE  OnlineInv'
    BY <2>12 DEF Issue, OnlineInv, gateway
  <2>13. ASSUME NEW c \in Command, Ack(c) PROVE  OnlineInv'
    BY <2>13 DEF Ack, OnlineInv, gateway
  <2>14. ASSUME NEW c \in Command, Timeout(c) PROVE  OnlineInv'
    BY <2>14 DEF Timeout, OnlineInv, gateway
  <2>15. ASSUME Beat PROVE  OnlineInv'
    BY <2>15 DEF Beat, Closing, Disconnected, Detached, OnlineInv, gateway
  <2>16. ASSUME SessionExpires PROVE  OnlineInv'
    BY <2>16 DEF SessionExpires, OnlineInv, gateway
  <2>17. ASSUME NEW st \in {"ONLINE", "OFFLINE", "DISABLED"}, Edit(st) PROVE  OnlineInv'
    BY <2>17 DEF Edit, OnlineInv, gateway
  <2>18. ASSUME Report PROVE  OnlineInv'
    BY <2>18 DEF Report, OnlineInv, gateway
  <2>19. ASSUME Restart PROVE  OnlineInv'
    BY <2>19 DEF Restart, OnlineInv, gateway
  <2>20. CASE UNCHANGED vars
    BY <2>20 DEF vars, gateway, OnlineInv, gateway
  <2> QED
    BY <2>1, <2>2, <2>3, <2>4, <2>5, <2>6, <2>7, <2>8, <2>9, <2>10, <2>11, <2>12, <2>13, <2>14, <2>15, <2>16, <2>17, <2>18, <2>19, <2>20 DEF Next, SocketStep, CommandStep
<1>3. OnlineInv => NobodyIsOnline
  BY DEF OnlineInv, NobodyIsOnline, Quiet
<1> QED
  BY <1>1, <1>2, <1>3, DeviceTypes, PTL DEF Spec
=============================================================================
