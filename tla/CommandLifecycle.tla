-------------------------- MODULE CommandLifecycle --------------------------
(***************************************************************************)
(* What the command tracker promises, without clocks, reports or expiry:   *)
(* the life of every command and the verdict shown for every device.       *)
(*                                                                         *)
(*   unissued -> open -> verified -> settled | drifted                     *)
(*               open -> failed | timed_out                                *)
(*               open, verified -> superseded          (a newer command)   *)
(*               any issued state -> forgotten         (bounded evidence)  *)
(*                                                                         *)
(* A device has at most one active command.  Its verdict starts pending    *)
(* and changes once; it becomes acked or failed in the very step that      *)
(* verifies or fails the command.                                          *)
(***************************************************************************)
CONSTANTS Devices, Ids

VARIABLES
    life,     \* the state of each command
    active,   \* the open or verified command of each device that has one
    shown     \* the verdict shown for each device that has one

Active == {"open", "verified"}
Moves == { <<"open", "verified">>, <<"open", "failed">>, <<"open", "timed_out">>,
           <<"verified", "settled">>, <<"verified", "drifted">> }

With(map, key, value) == [k \in DOMAIN map \cup {key} |-> IF k = key THEN value ELSE map[k]]
StillActive(map) == [d \in {d \in DOMAIN map : life'[map[d]] \in Active} |-> map[d]]

Init ==
    /\ life = [id \in Ids |-> "unissued"]
    /\ active = << >>
    /\ shown = << >>

\* Issuing a command replaces the active one of its device; the evidence of any
\* issued command, the new one included, may be forgotten.
Issue(device, id) ==
    LET next == [other \in Ids |->
                    IF other = id THEN "open"
                    ELSE IF device \in DOMAIN active /\ active[device] = other
                         THEN "superseded" ELSE life[other]]
    IN  /\ life[id] = "unissued"
        /\ \E forgotten \in SUBSET {other \in Ids : next[other] # "unissued"} :
               life' = [other \in Ids |-> IF other \in forgotten THEN "forgotten" ELSE next[other]]
        /\ active' = StillActive(With(active, device, id))
        /\ shown' = With(shown, device, [id |-> id, verdict |-> "pending"])

\* The verdict of a device may change once, with the command it is about.
VerdictStep(device) ==
    LET id == shown[device].id
        becomes(verdict, before, after) ==
            /\ shown'[device] = [id |-> id, verdict |-> verdict]
            /\ life[id] = before /\ life'[id] = after
    IN  \/ device \notin DOMAIN shown' /\ shown[device].verdict # "pending"
        \/ device \in DOMAIN shown' /\ shown'[device] = shown[device]
        \/ /\ device \in DOMAIN shown' /\ shown[device].verdict = "pending"
           /\ \/ becomes("acked", "open", "verified")
              \/ becomes("acked", "forgotten", "forgotten")
              \/ becomes("failed", "open", "failed")
              \/ shown'[device] = [id |-> id, verdict |-> "no_ack"]

\* A command is verified or failed only together with the verdict of its device.
WithItsVerdict(id) ==
    \E d \in DOMAIN shown \cap DOMAIN shown' :
        /\ shown[d] = [id |-> id, verdict |-> "pending"]
        /\ shown'[d].verdict = IF life'[id] = "failed" THEN "failed" ELSE "acked"

\* Reports, callbacks and expiry judge commands; one call may judge several.
Judge ==
    /\ \A id \in Ids : life'[id] # life[id] =>
           /\ <<life[id], life'[id]>> \in Moves
           /\ life'[id] \in {"verified", "failed"} => WithItsVerdict(id)
    /\ active' = StillActive(active)
    /\ DOMAIN shown' \subseteq DOMAIN shown
    /\ \A d \in DOMAIN shown : VerdictStep(d)

Next == Judge \/ \E device \in Devices, id \in Ids : Issue(device, id)

Spec == Init /\ [][Next]_<<life, active, shown>>
=============================================================================
