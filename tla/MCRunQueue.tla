---------------------------- MODULE MCRunQueue ----------------------------
(***************************************************************************)
(* RunQueue for TLC, with what the design says of its arguments: the web   *)
(* server's task (async_tcp), the BLE host task (nimble) and the Arduino   *)
(* loop task.  raced tells the requests whose accesses to the queue may    *)
(* have met those of another task from the others, which lose their        *)
(* arguments only to what the loop does when it has the queue to itself.   *)
(***************************************************************************)
EXTENDS RunQueue

VARIABLE raced          \* history: the calls that met another task in the queue

MCInit == Init /\ raced = {}

\* A producer enters the queue: the others in it, and the request the loop is
\* taking off it, meet.  A run, which has copied its arguments, does not count.
Enters(p) == pc[p] = "check" /\ pc'[p] = "setId"
Meeting(p) == IF Writing = {} /\ pc[Loop] \in {"idle", "run"} THEN {}
              ELSE {call[q] : q \in Writing \cup {p}} \cup (Taken \cap Calls)

\* The loop clears the arguments after a run: whoever is in the queue is met,
\* and so is a request whose write leaves torn data behind.
Clears == pc[Loop] = "run" /\ pc'[Loop] = "idle"

MCNext ==
  /\ Next
  /\ raced' = raced \cup UNION {Meeting(p) : p \in {q \in Producers : Enters(q)}}
                   \cup (IF Clears \/ Torn \in {pending_seq_id_', pending_args_'}
                           THEN {call[q] : q \in Writing} ELSE {})

MCSpec == MCInit /\ [][MCNext]_<<vars, raced>>

-----------------------------------------------------------------------------
(* What the repository says of the queue *)

\* The design of parametrized sequences: the queue carries the arguments
\* alongside the id, so a run gets the arguments of the request it runs, at
\* least where no other task was in the queue with it.
ArgsTravelWithId ==
  \A i \in DOMAIN runs :
    runs[i].id \in Calls \ raced => runs[i].args = OwnArgs(runs[i].id)
=============================================================================
