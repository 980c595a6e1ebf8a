---------------------------- MODULE JobLifecycle ----------------------------
(***************************************************************************)
(* The durable job lifecycle: the states of a job and the transitions that *)
(* validate_job_transition admits.  Every component that writes a job's    *)
(* state does so through this relation.                                    *)
(***************************************************************************)

JobState ==
    {"created", "classified", "planning", "queued", "running",
     "waiting_input", "waiting_approval", "verifying", "review_ready",
     "approved", "rejected", "applying", "completed", "failed", "blocked",
     "cancelled"}

StopStates == {"failed", "blocked", "cancelled"}

TerminalJobStates == {"completed", "rejected"} \cup StopStates

\* The states a job may go on to from s, the stop states left out.
Onward(s) ==
    CASE s = "created"          -> {"classified"}
      [] s = "classified"       -> {"planning"}
      [] s = "planning"         -> {"queued", "waiting_input"}
      [] s = "queued"           -> {"running"}
      [] s = "running"          -> {"waiting_input", "waiting_approval", "verifying"}
      [] s = "waiting_input"    -> {"planning", "queued", "running"}
      [] s = "waiting_approval" -> {"running", "approved", "rejected"}
      [] s = "verifying"        -> {"running", "review_ready"}
      [] s = "review_ready"     -> {"running", "waiting_approval", "approved", "rejected"}
      [] s = "approved"         -> {"applying"}
      [] s = "applying"         -> {"completed"}
      [] OTHER                  -> {}

AllowedTransitions(s) ==
    IF s \in TerminalJobStates THEN {} ELSE Onward(s) \cup StopStates

=============================================================================
