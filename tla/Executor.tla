------------------------------- MODULE Executor -------------------------------
(***************************************************************************)
(* How the executor judges a command that arrives:                         *)
(*   seventh_stage/day6/seq_dedup.c             has this number been seen? *)
(*   seventh_stage/day05/command_preemption.c   may its action start?      *)
(* Only the last number is remembered, and only in memory.  STOP always    *)
(* starts; any other action only when the actuator is idle.                *)
(***************************************************************************)
CONSTANT Seqs

VARIABLES valid, last_seq,      \* seq_dedup_t
          current_state         \* state_t

seq_dedup == <<valid, last_seq>>

action_t == {"ACTION_NONE", "ACTION_OPEN", "ACTION_GRAB", "ACTION_RELEASE",
             "ACTION_STOP"}

state_t == {"STATE_IDLE", "STATE_OPENING", "STATE_GRABBING", "STATE_RELEASING",
            "STATE_STOPPING"}

Init == /\ valid = FALSE /\ last_seq \in Seqs
        /\ current_state = "STATE_IDLE"

(* seq_dedup_init; last_seq is not looked at before valid is set. *)
Reset == valid' = FALSE /\ UNCHANGED last_seq

(* Mutant: the first sequence number is the only one remembered. *)
Remember_FirstOnly(seq) ==
    valid' = TRUE /\ last_seq' = IF valid THEN last_seq ELSE seq

Remember(seq) == valid' = TRUE /\ last_seq' = seq

(* seq_dedup_is_duplicate answers true, or false and remembers. *)
IsDuplicate(seq) == valid /\ seq = last_seq

Duplicate(seq) == IsDuplicate(seq) /\ UNCHANGED seq_dedup

Fresh(seq) == ~IsDuplicate(seq) /\ Remember(seq)

action_is_stop(action) == action = "ACTION_STOP"

(* Mutant: a state is missing from the list of busy ones. *)
state_is_busy_Forgotten(state) == state \in state_t \ {"STATE_IDLE", "STATE_GRABBING"}

state_is_busy(state) == state \in state_t \ {"STATE_IDLE"}

action_to_state(action) ==
    CASE action = "ACTION_OPEN" -> "STATE_OPENING"
      [] action = "ACTION_GRAB" -> "STATE_GRABBING"
      [] action = "ACTION_RELEASE" -> "STATE_RELEASING"
      [] action = "ACTION_STOP" -> "STATE_STOPPING"
      [] OTHER -> "STATE_IDLE"

MayStart(action) == /\ action # "ACTION_NONE"
                    /\ action_is_stop(action) \/ ~state_is_busy(current_state)

(* try_start_action answers true and sets the state, or false. *)
Started(action) == MayStart(action) /\ current_state' = action_to_state(action)

Refused(action) == ~MayStart(action) /\ UNCHANGED current_state

(* The actuator has finished: its owner sets STATE_IDLE, as main does. *)
Completed == current_state' = "STATE_IDLE"
=============================================================================
