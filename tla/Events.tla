------------------------------- MODULE Events -------------------------------
(***************************************************************************)
(* The event stream of the API (events.go): whoever changes the state or   *)
(* health of a container or node announces it after the unlock, to every   *)
(* client's channel that has room.  A client subscribes, reads the list,   *)
(* and applies the events to what it has read.                             *)
(***************************************************************************)
EXTENDS Naturals, Sequences, SequencesExt

CONSTANTS Writers, \* goroutines that change the record
          Clients,
          Capacity, \* of a client's channel: 64 in the code
          Settings

\* serial: a change begins when the one before it was announced.  silent:
\* there are changes that nobody announces.  reads: the clients read.  kind:
\* what the record is; the two announce with functions of their own.
ASSUME SettingsAssumption ==
  Settings \subseteq [serial : BOOLEAN, silent : BOOLEAN, reads : BOOLEAN,
                      kind : {"instance", "node"}]
ASSUME CapacityAssumption == Capacity \in Nat \ {0}

States   == {"running", "stopped"} \* of a node: active and rebuilding
Healths  == {"", "unhealthy"}
Followed == [state : States, health : Healths]
Late     == "late" \* a field that is read from the record after the unlock
Event    == [state : States \cup {Late}, health : Healths \cup {Late}]
Unknown  == [state |-> "unknown", health |-> ""]

VARIABLES
  setting,
  rec,      \* the record that the clients follow
  stage,    \* per writer: "idle", "checked", "read" or "send"
  evt,      \* per writer, the event it will send
  clients,  \* sseClients: who is subscribed
  queue,    \* the events in each client's channel
  view,     \* what each client takes the record to be
  missed    \* history: who was passed over since subscribing
eventsVars == <<setting, rec, stage, evt, clients, queue, view, missed>>

Running == [state |-> "running", health |-> ""]
EventsTypes ==
  /\ setting \in Settings
  /\ rec \in Followed
  /\ stage \in [Writers -> {"idle", "checked", "read", "send"}]
  /\ evt \in [Writers -> Event]
  /\ \A w \in Writers : stage[w] \in {"idle", "send"} => evt[w] \in Followed
  /\ clients \subseteq Clients
  /\ queue \in [Clients -> BoundedSeq(Followed, Capacity)]
  /\ view \in [Clients -> Followed \cup {Unknown}]
  /\ missed \subseteq clients

EventsInit ==
  /\ setting \in Settings
  /\ rec = Running
  /\ stage = [w \in Writers |-> "idle"]
  /\ evt = [w \in Writers |-> Running]
  /\ clients = {}
  /\ queue = [c \in Clients |-> <<>>]
  /\ view = [c \in Clients |-> Unknown]
  /\ missed = {}

(***************************************************************************)
(* Changes                                                                 *)
(***************************************************************************)
MayBegin(w) ==
  /\ stage[w] = "idle"
  /\ setting.serial => \A v \in Writers : stage[v] = "idle"

\* Writer w has written new, and announces e.
Announce(w, new, e) ==
  /\ rec' = new
  /\ stage' = [stage EXCEPT ![w] = "read"]
  /\ evt' = [evt EXCEPT ![w] = e]
  /\ UNCHANGED <<setting, clients, queue, view, missed>>

\* Mutant of SetState: it announces the state that it has replaced.
SetStateAnnouncingPrev(w, s) ==
  /\ MayBegin(w)
  /\ Announce(w, [state |-> s, health |-> ""],
       [state |-> rec.state, health |-> ""])
\* setState, setNodeState: a request changes the state.
SetState(w, s) ==
  /\ MayBegin(w)
  /\ Announce(w, [state |-> s, health |-> ""],
       [state |-> s, health |-> IF setting.kind = "node" THEN "" ELSE Late])

\* Some changes are not announced: the end of a creation, of a migration and
\* of a rebuild, and the end of a node's provisioning.
SetSilently(w) ==
  /\ setting.silent /\ MayBegin(w)
  /\ rec' = Running
  /\ UNCHANGED <<setting, stage, evt, clients, queue, view, missed>>

\* A check begins for what is running, and reports some time later.
Check(w) ==
  /\ MayBegin(w) /\ rec.state = "running"
  /\ stage' = [stage EXCEPT ![w] = "checked"]
  /\ UNCHANGED <<setting, rec, evt, clients, queue, view, missed>>
SetHealth(w) ==
  /\ stage[w] = "checked"
  /\ Announce(w, [rec EXCEPT !.health = "unhealthy"],
              [state |-> Late, health |-> "unhealthy"])
\* Mutant of ClearHealth: it announces only that a health was cleared.
ClearHealthIfSet(w) ==
  /\ stage[w] = "checked"
  /\ IF rec.health = ""
     THEN /\ stage' = [stage EXCEPT ![w] = "idle"]
          /\ UNCHANGED <<setting, rec, evt, clients, queue, view, missed>>
     ELSE Announce(w, [rec EXCEPT !.health = ""],
                   [state |-> Late, health |-> ""])
ClearHealth(w) ==
  /\ stage[w] = "checked"
  /\ Announce(w, [rec EXCEPT !.health = ""], [state |-> Late, health |-> ""])

\* The fields that the caller did not keep are read without a lock.
Read(w) ==
  /\ stage[w] = "read"
  /\ evt' = [evt EXCEPT ![w] =
       [state  |-> IF @.state  = Late THEN rec.state  ELSE @.state,
        health |-> IF @.health = Late THEN rec.health ELSE @.health]]
  /\ stage' = [stage EXCEPT ![w] = "send"]
  /\ UNCHANGED <<setting, rec, clients, queue, view, missed>>

HasRoom(c) == Len(queue[c]) < Capacity
Deliver(w) ==
  /\ queue' = [c \in Clients |-> IF c \in clients /\ HasRoom(c)
                                 THEN Append(queue[c], evt[w]) ELSE queue[c]]
  /\ missed' = missed \cup {c \in clients : ~HasRoom(c)}
\* Mutant of broadcastSSE: it waits for room in every channel.
broadcastWaiting(w) ==
  /\ stage[w] = "send"
  /\ \A c \in clients : HasRoom(c)
  /\ Deliver(w)
  /\ stage' = [stage EXCEPT ![w] = "idle"]
  /\ evt' = [evt EXCEPT ![w] = Running]
  /\ UNCHANGED <<setting, rec, clients, view>>
\* Under sseClientsMu: a channel without room is passed over.
broadcastSSE(w) ==
  /\ stage[w] = "send"
  /\ Deliver(w)
  /\ stage' = [stage EXCEPT ![w] = "idle"]
  /\ evt' = [evt EXCEPT ![w] = Running]
  /\ UNCHANGED <<setting, rec, clients, view>>

(***************************************************************************)
(* Clients                                                                 *)
(***************************************************************************)
addSSEClient(c) ==
  /\ c \notin clients
  /\ clients' = clients \cup {c}
  /\ queue' = [queue EXCEPT ![c] = <<>>]
  /\ UNCHANGED <<setting, rec, stage, evt, view, missed>>

\* handleList, or the list of an administrator.
ReadList(c) ==
  /\ c \in clients /\ view[c] = Unknown
  /\ view' = [view EXCEPT ![c] = rec]
  /\ UNCHANGED <<setting, rec, stage, evt, clients, queue, missed>>

\* handleEvents hands the next event over, and the client applies it.  (Before
\* it has read the list it keeps the event, which is as good as reading later.)
Receive(c) ==
  /\ setting.reads
  /\ c \in clients /\ view[c] # Unknown /\ queue[c] # <<>>
  /\ view' = [view EXCEPT ![c] = Head(queue[c])]
  /\ queue' = [queue EXCEPT ![c] = Tail(@)]
  /\ UNCHANGED <<setting, rec, stage, evt, clients, missed>>

removeSSEClient(c) ==
  /\ c \in clients
  /\ clients' = clients \ {c}
  /\ view' = [view EXCEPT ![c] = Unknown]
  /\ queue' = [queue EXCEPT ![c] = <<>>]
  /\ missed' = missed \ {c}
  /\ UNCHANGED <<setting, rec, stage, evt>>

Step(w) == SetHealth(w) \/ ClearHealth(w) \/ Read(w) \/ broadcastSSE(w)
EventsNext ==
  \/ \E w \in Writers, s \in States : SetState(w, s)
  \/ \E w \in Writers : SetSilently(w) \/ Check(w) \/ Step(w)
  \/ \E c \in Clients : addSSEClient(c) \/ ReadList(c) \/ Receive(c)
                          \/ removeSSEClient(c)
EventsSpec == EventsInit /\ [][EventsNext]_eventsVars

\* Goroutines run and the check loop comes back; a client that reads goes on
\* reading.  Nothing obliges anyone to change, subscribe or leave.
Fairness ==
  /\ \A w \in Writers : WF_eventsVars(Step(w)) /\ SF_eventsVars(Check(w))
  /\ \A c \in Clients : WF_eventsVars(Receive(c))
EventsFairSpec == EventsSpec /\ Fairness

(***************************************************************************)
(* Properties                                                              *)
(***************************************************************************)
Follows(c) == c \in clients /\ view[c] # Unknown
AllSent == \A w \in Writers : stage[w] \in {"idle", "checked"}

\* "Pushes the changes of state and health" (doc/api.md:55): when changes do
\* not overlap and are all announced, a client that was never passed over and
\* has received everything sees the record as it is, even if the change was
\* under way while it subscribed.
ViewAgrees ==
  setting.serial /\ ~setting.silent =>
    \A c \in Clients :
       Follows(c) /\ c \notin missed /\ queue[c] = <<>> /\ AllSent
         => view[c] = rec
\* Well typed, with views that agree.
EventsInv == EventsTypes /\ ViewAgrees

\* Whatever is dropped, announced in another order or not at all: the check
\* loop announces the record in every round, so a client that reads sees a
\* record that stays as it is running.
SeesRunning ==
  \A c \in Clients :
     <>[](setting.reads /\ Follows(c) /\ rec = Running)
       => <>[](view[c] = Running)

\* No client holds up a change by not reading its events.
NotHeldUp == \A w \in Writers : stage[w] # "idle" ~> stage[w] = "idle"
=============================================================================
