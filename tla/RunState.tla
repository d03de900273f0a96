------------------------------ MODULE RunState ------------------------------
(***************************************************************************)
(* The status of a run and the transition table every status change is     *)
(* supposed to follow (internal/domain/runstate/runstate.go), with the     *)
(* guarded assignment that consults it (agent/run_transition.go).          *)
(***************************************************************************)

Status == {"queued", "waiting_input", "running", "waiting_approval",
           "streaming", "completed", "failed", "cancelled"}

Terminal == {"completed", "failed", "cancelled"}

\* Status.Active(): a run that still owns or awaits work, queued included.
Active == {"queued", "running", "streaming", "waiting_input", "waiting_approval"}

AllowedTransitions ==
  [queued           |-> {"running", "waiting_input", "waiting_approval", "cancelled"},
   waiting_input    |-> {"running", "cancelled"},
   running          |-> {"waiting_approval", "waiting_input", "streaming",
                         "completed", "failed", "cancelled"},
   waiting_approval |-> {"queued", "running", "completed", "failed", "cancelled"},
   streaming        |-> {"running", "completed", "failed", "cancelled"},
   completed        |-> {},
   failed           |-> {},
   cancelled        |-> {}]

ValidTransition(from, to) ==
  from \in DOMAIN AllowedTransitions /\ to \in AllowedTransitions[from]
=============================================================================
