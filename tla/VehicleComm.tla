----------------------------- MODULE VehicleComm -----------------------------
(***************************************************************************)
(* The connections of one vehicle's on-board device                        *)
(* (apps/api/src/vehicle-comm/vehicle-comm.gateway.ts and .service.ts).    *)
(*                                                                         *)
(* The gateway keeps a context and a sign of life for every socket it      *)
(* serves; the service keeps one socket for the device, the state of the   *)
(* connection in Redis and the state of the vehicle in its row.  Handlers  *)
(* run one at a time between their awaits.  The commands that a process    *)
(* gives to Redis take effect in the order it gives them, so each happens  *)
(* here in the step that issues it; a statement on the row has its own     *)
(* step.  A socket of this model is used again for a later connection once *)
(* nothing remembers it.                                                   *)
(***************************************************************************)
EXTENDS Naturals, FiniteSets

CONSTANTS
    Socket,     \* connections that may overlap
    Command,    \* requests of sendCommand() that may overlap
    NoSocket,   \* sockets.get(deviceId) is undefined
    MaxFaults   \* bound: failing statements, and restarts

ASSUME NoSocketAssumption == NoSocket \notin Socket
ASSUME FaultsAssumption == MaxFaults \in Nat

VARIABLES
    link,       \* readyState of every socket; "cut": the device is gone, nobody knows
    step,       \* where attach() of every socket is
    leaving,    \* where detach() of every socket is
    contexts,   \* the gateway's contexts
    alive,      \* sockets that have answered the last ping
    heartbeat,  \* the interval runs
    held,       \* the service's sockets.get(deviceId)
    session,    \* the hash in Redis: none, some fields, all
    state,      \* vehicle.state
    order,      \* what every command waits for, or how it ended
    superseded, \* sockets whose entry another socket's detach() has deleted
    stray,      \* the row says ONLINE by an edit or a report, or since a restart
    faults

gateway == <<contexts, alive, heartbeat>>
vars == <<link, step, leaving, gateway, held, session, state, order,
          superseded, stray, faults>>

Init ==
    /\ link = [s \in Socket |-> "closed"]
    /\ step = [s \in Socket |-> "done"]
    /\ leaving = [s \in Socket |-> "no"]
    /\ contexts = {} /\ alive = {} /\ heartbeat = FALSE
    /\ held = NoSocket
    /\ session = "none"
    /\ state = "OFFLINE"
    /\ order = [c \in Command |-> "idle"]
    /\ superseded = {}
    /\ stray = FALSE
    /\ faults = 0

(* close() and terminate(): the close event follows later. *)
Closing(ss) ==
    [s \in Socket |-> IF s \in ss /\ link[s] # "closed" THEN "closing" ELSE link[s]]

-----------------------------------------------------------------------------
(* handleConnection(): the key is good, attach() looks for the vehicle. *)
Connect(s) ==
    /\ link[s] = "closed" /\ step[s] = "done" /\ leaving[s] = "no"
    /\ s \notin contexts /\ held # s /\ \A c \in Command : order[c] # s
    /\ link' = [link EXCEPT ![s] = "open"]
    /\ step' = [step EXCEPT ![s] = "looking"]
    /\ superseded' = superseded \ {s}
    /\ UNCHANGED <<leaving, gateway, held, session, state, order, stray, faults>>

(* Mutant: the previous socket is left open. *)
AttachBesides(s) ==
    /\ step[s] = "looking"
    /\ held' = s
    /\ step' = [step EXCEPT ![s] = "marking"]
    /\ session' = "full"
    /\ UNCHANGED <<link, leaving, gateway, state, order, superseded, stray, faults>>

(* The vehicle is there: the previous socket is closed, this one takes its *)
(* place, and the session is saved.  Saving may fail.                      *)
Attach(s) ==
    /\ step[s] = "looking"
    /\ link' = Closing({held} \ {s})
    /\ held' = s
    /\ \/ /\ step' = [step EXCEPT ![s] = "marking"]
          /\ session' = "full"
          /\ UNCHANGED faults
       \/ /\ faults < MaxFaults
          /\ faults' = faults + 1
          /\ step' = [step EXCEPT ![s] = "refusing"]
          /\ UNCHANGED session
    /\ UNCHANGED <<leaving, gateway, state, order, superseded, stray>>

(* The vehicle is marked, the socket gets its context and is watched. *)
Mark(s) ==
    /\ step[s] = "marking"
    /\ step' = [step EXCEPT ![s] = "done"]
    /\ state' = "ONLINE"
    /\ contexts' = contexts \cup {s}
    /\ alive' = alive \cup {s}
    /\ heartbeat' = TRUE
    /\ UNCHANGED <<link, leaving, held, session, order, superseded, stray, faults>>

(* No such vehicle, or a statement failed: the catch of handleConnection(). *)
Refuse(s) ==
    /\ \/ step[s] = "refusing" /\ UNCHANGED faults
       \/ step[s] \in {"looking", "marking"} /\ faults < MaxFaults /\ faults' = faults + 1
    /\ step' = [step EXCEPT ![s] = "done"]
    /\ link' = Closing({s})
    /\ UNCHANGED <<leaving, gateway, held, session, state, order, superseded, stray>>

-----------------------------------------------------------------------------
(* detach() of the connections gone: it forgets the device's socket,       *)
(* whichever the service holds by then, and the session.                   *)
Detached(gone) ==
    /\ leaving' = [s \in Socket |-> IF s \in gone THEN "looking" ELSE leaving[s]]
    /\ IF gone = {} THEN UNCHANGED <<held, session, superseded>>
       ELSE /\ held' = NoSocket
            /\ session' = "none"
            /\ superseded' = superseded \cup ({held} \ (gone \cup {NoSocket}))

(* Mutant: the interval ends with any connection. *)
DisconnectedEarly(ss) ==
    /\ contexts' = contexts \ ss
    /\ heartbeat' = (heartbeat /\ ss \cap contexts = {})
    /\ Detached(ss \cap contexts)

(* handleDisconnect() of the sockets ss: those with a context are detached.*)
Disconnected(ss) ==
    /\ contexts' = contexts \ ss
    /\ heartbeat' = (heartbeat /\ contexts' # {})
    /\ Detached(ss \cap contexts)

(* The device hangs up, or the socket that was told to close has closed. *)
Close(s) ==
    /\ link[s] \in {"open", "closing"}
    /\ link' = [link EXCEPT ![s] = "closed"]
    /\ alive' = alive \ {s}
    /\ Disconnected({s})
    /\ UNCHANGED <<step, state, order, stray, faults>>

(* The mobile network drops the device without a word. *)
Vanish(s) ==
    /\ link[s] = "open"
    /\ link' = [link EXCEPT ![s] = "cut"]
    /\ UNCHANGED <<step, leaving, gateway, held, session, state, order,
                   superseded, stray, faults>>

(* Mutant: the row is left alone once a newer socket is held. *)
LookUpUnlessReplaced(s) ==
    /\ leaving[s] = "looking"
    /\ leaving' = [leaving EXCEPT ![s] =
            IF state = "ONLINE" /\ held = NoSocket THEN "writing" ELSE "no"]
    /\ UNCHANGED <<link, step, gateway, held, session, state, order,
                   superseded, stray, faults>>

(* detach() reads the row, and writes it when it read ONLINE.  Nobody      *)
(* handles its failure, which ends the process: that is Restart.           *)
LookUp(s) ==
    /\ leaving[s] = "looking"
    /\ leaving' = [leaving EXCEPT ![s] = IF state = "ONLINE" THEN "writing" ELSE "no"]
    /\ UNCHANGED <<link, step, gateway, held, session, state, order,
                   superseded, stray, faults>>

MarkOffline(s) ==
    /\ leaving[s] = "writing"
    /\ leaving' = [leaving EXCEPT ![s] = "no"]
    /\ state' = "OFFLINE"
    /\ stray' = FALSE
    /\ UNCHANGED <<link, step, gateway, held, session, order, superseded, faults>>

-----------------------------------------------------------------------------
(* Mutant: a round that only pings. *)
BeatBlindly ==
    /\ heartbeat
    /\ alive' = {}
    /\ UNCHANGED <<link, step, leaving, contexts, heartbeat, held, session, state,
                   order, superseded, stray, faults>>

(* The interval: whoever has not answered the last ping is terminated. *)
Beat ==
    /\ heartbeat
    /\ link' = Closing(contexts \ alive)
    /\ alive' = {}
    /\ Disconnected(contexts \ alive)
    /\ UNCHANGED <<step, state, order, stray, faults>>

Pong(s) ==
    /\ s \in contexts \ alive
    /\ link[s] = "open"
    /\ alive' = alive \cup {s}
    /\ UNCHANGED <<link, step, leaving, contexts, heartbeat, held, session, state,
                   order, superseded, stray, faults>>

(* A heartbeat, readings, a frame: touch() and countFrame() write fields. *)
Message(s) ==
    /\ s \in contexts
    /\ link[s] \in {"open", "closing"}
    /\ session = "none"
    /\ session' = "part"
    /\ UNCHANGED <<link, step, leaving, gateway, held, state, order,
                   superseded, stray, faults>>

SessionExpires ==
    /\ session # "none"
    /\ session' = "none"
    /\ UNCHANGED <<link, step, leaving, gateway, held, state, order,
                   superseded, stray, faults>>

-----------------------------------------------------------------------------
(* sendCommand(): a session must exist, then an open socket; the answer is *)
(* awaited for ten seconds.                                                *)
Ask(c) ==
    /\ order[c] = "idle"
    /\ session # "none"
    /\ order' = [order EXCEPT ![c] = "asked"]
    /\ UNCHANGED <<link, step, leaving, gateway, held, session, state,
                   superseded, stray, faults>>

Issue(c) ==
    /\ order[c] = "asked"
    /\ order' = [order EXCEPT ![c] =
            IF held # NoSocket /\ link[held] \in {"open", "cut"} THEN held ELSE "idle"]
    /\ UNCHANGED <<link, step, leaving, gateway, held, session, state,
                   superseded, stray, faults>>

(* resolveAck(), from any connection of the device; or the timer. *)
Ack(c) ==
    /\ order[c] \in Socket
    /\ \E s \in contexts : link[s] \in {"open", "closing"}
    /\ order' = [order EXCEPT ![c] = "idle"]
    /\ UNCHANGED <<link, step, leaving, gateway, held, session, state,
                   superseded, stray, faults>>

(* Mutant: the timer is dropped with the socket it was sent to. *)
TimeoutOfHeld(c) ==
    /\ order[c] = held /\ held # NoSocket
    /\ order' = [order EXCEPT ![c] = "idle"]
    /\ UNCHANGED <<link, step, leaving, gateway, held, session, state,
                   superseded, stray, faults>>

Timeout(c) ==
    /\ order[c] \in Socket
    /\ order' = [order EXCEPT ![c] = "idle"]
    /\ UNCHANGED <<link, step, leaving, gateway, held, session, state,
                   superseded, stray, faults>>

-----------------------------------------------------------------------------
(* upsertVehicle() and addTrack() write the same column; a vehicle that is *)
(* edited without a state becomes OFFLINE, connected or not.  OFFLINE      *)
(* stands for IDLE too: nothing here tells the two apart.                  *)
Edit(st) ==
    /\ state # st
    /\ state' = st
    /\ stray' = (st = "ONLINE")
    /\ UNCHANGED <<link, step, leaving, gateway, held, session, order,
                   superseded, faults>>

Report ==
    /\ state # "ONLINE"
    /\ state' = "ONLINE"
    /\ stray' = TRUE
    /\ UNCHANGED <<link, step, leaving, gateway, held, session, order,
                   superseded, faults>>

(* The process restarts: Redis and the row keep what they hold. *)
Restart ==
    /\ faults < MaxFaults
    /\ faults' = faults + 1
    /\ link' = [s \in Socket |-> "closed"]
    /\ step' = [s \in Socket |-> "done"]
    /\ leaving' = [s \in Socket |-> "no"]
    /\ contexts' = {} /\ alive' = {} /\ heartbeat' = FALSE
    /\ held' = NoSocket
    /\ order' = [c \in Command |-> "idle"]
    /\ superseded' = {}
    /\ stray' = TRUE
    /\ UNCHANGED <<session, state>>

SocketStep(s) ==
    \/ Connect(s) \/ Attach(s) \/ Mark(s) \/ Refuse(s)
    \/ Close(s) \/ Vanish(s) \/ LookUp(s) \/ MarkOffline(s)
    \/ Pong(s) \/ Message(s)

CommandStep(c) == Ask(c) \/ Issue(c) \/ Ack(c) \/ Timeout(c)

Next ==
    \/ \E s \in Socket : SocketStep(s)
    \/ \E c \in Command : CommandStep(c)
    \/ \E st \in {"ONLINE", "OFFLINE", "DISABLED"} : Edit(st)
    \/ Beat \/ SessionExpires \/ Report \/ Restart

(* The timers fire, and Redis answers. *)
Fairness ==
    /\ WF_vars(Beat)
    /\ \A c \in Command : WF_vars(Issue(c)) /\ WF_vars(Timeout(c))

Spec == Init /\ [][Next]_vars /\ Fairness

-----------------------------------------------------------------------------
TypeOK ==
    /\ link \in [Socket -> {"open", "cut", "closing", "closed"}]
    /\ step \in [Socket -> {"done", "looking", "marking", "refusing"}]
    /\ leaving \in [Socket -> {"no", "looking", "writing"}]
    /\ contexts \subseteq Socket /\ alive \subseteq contexts
    /\ heartbeat \in BOOLEAN
    /\ held \in Socket \cup {NoSocket}
    /\ session \in {"none", "part", "full"}
    /\ state \in {"ONLINE", "OFFLINE", "DISABLED"}
    /\ order \in [Command -> {"idle", "asked"} \cup Socket]
    /\ superseded \subseteq Socket
    /\ stray \in BOOLEAN
    /\ faults \in 0 .. MaxFaults

(* A device that is connected can be given commands: a served, open socket *)
(* is the one the service holds.  Only the late detach() of an older       *)
(* connection, which deletes the device's entry whoever it belongs to,     *)
(* takes that away.                                                        *)
ServedIsHeld == \A s \in contexts : link[s] = "open" => s = held \/ s \in superseded

(* The claim of attach(): a device that reconnects is reached through its  *)
(* new connection.                                                         *)
ReconnectedIsHeld == \A s \in contexts : link[s] = "open" => s = held

(* A vehicle nobody is connected for, with no connection coming or going,  *)
(* is not left ONLINE, however the detach() of one connection and the      *)
(* attach() of the next interleave; only an edit of the vehicle, a track   *)
(* report or a restart leaves it so.                                       *)
Quiet == contexts = {} /\ \A s \in Socket : step[s] = "done" /\ leaving[s] = "no"
NobodyIsOnline == Quiet /\ state = "ONLINE" => stray

(* The interval runs exactly while something is served: a last connection  *)
(* that ends during the handshake of the next leaves no socket unwatched.  *)
ServedIsWatched == heartbeat <=> contexts # {}

(* A connection that died in silence, or closed before it had a context,   *)
(* does not stay among the served ones.                                    *)
DeadAreDropped ==
    \A s \in Socket : (s \in contexts /\ link[s] \in {"cut", "closed"}) ~> (s \notin contexts)

(* Every command ends, answered or not: also one sent to a connection that *)
(* was dead or replaced by the time the device might answer.               *)
EveryCommandEnds == \A c \in Command : (order[c] # "idle") ~> (order[c] = "idle")
=============================================================================
