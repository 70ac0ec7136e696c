----------------------------- MODULE Statistics -----------------------------
(***************************************************************************)
(* The durations of one pipeline run, folded from its observations in the   *)
(* order of (received_at, event_id): internal/store/statistics.go. Times    *)
(* are whole units; an observation is a record with fields at and status.   *)
(***************************************************************************)
EXTENDS Integers, Sequences

Timed == {"initialization", "waiting", "running"}

pipelinePhase(status) ==
    CASE status \in {"created", "preparing", "scheduled"} -> "initialization"
      [] status \in {"pending", "queued", "waiting_for_resource", "requested"} -> "waiting"
      [] status \in {"running", "in_progress"} -> "running"
      [] status \in {"success", "failed", "failure", "canceled", "cancelled", "skipped",
                     "neutral", "timed_out", "action_required"} -> "terminal"
      [] OTHER -> "unknown"

(* The first observation of a run.                                          *)
NewRun(o) ==
    [phase |-> pipelinePhase(o.status), status |-> o.status,
     first |-> o.at, last |-> o.at, boundary |-> o.at,
     ms |-> [p \in Timed |-> 0], restarts |-> 0,
     knownStart |-> pipelinePhase(o.status) \in {"initialization", "waiting"},
     ran |-> pipelinePhase(o.status) = "running",
     invalid |-> pipelinePhase(o.status) = "unknown"]

(* A phase that is reported again keeps its boundary.                       *)
RepeatPhase(run, o) ==
    [run EXCEPT !.status = o.status, !.last = o.at,
                !.invalid = @ \/ (run.phase = "terminal" /\ run.status # o.status)]

(* The time since the boundary belongs to the phase that ends.              *)
Spent(run, delta) ==
    IF run.phase \in Timed THEN [run.ms EXCEPT ![run.phase] = @ + delta] ELSE run.ms

ChangePhase(run, o) ==
    LET phase == pipelinePhase(o.status)
        delta == o.at - run.boundary IN
    [run EXCEPT
        !.phase = phase, !.status = o.status, !.last = o.at, !.boundary = o.at,
        !.ms = Spent(run, delta),
        !.restarts = IF run.phase = "terminal" THEN @ + 1 ELSE @,
        !.ran = @ \/ phase = "running",
        !.invalid = \/ @
                    \/ run.phase = "running" /\ phase \in {"initialization", "waiting"}
                    \/ delta = 0
                    \/ run.phase = "terminal"
                    \/ phase = "unknown"]

(* Mutant: a phase that took no time does not make a run invalid.           *)
ObserveInstant(run, o) ==
    IF pipelinePhase(o.status) = run.phase THEN RepeatPhase(run, o)
    ELSE [ChangePhase(run, o) EXCEPT !.invalid = (o.at > run.boundary /\ @) \/ run.invalid]
Observe(run, o) ==
    IF pipelinePhase(o.status) = run.phase THEN RepeatPhase(run, o) ELSE ChangePhase(run, o)

(* The run after all observations of a nonempty sequence.                   *)
FoldRun(obs) ==
    LET after[n \in 1..Len(obs)] ==
            IF n = 1 THEN NewRun(obs[1]) ELSE Observe(after[n - 1], obs[n])
    IN  after[Len(obs)]

Complete(run) == run.knownStart /\ run.ran /\ run.phase = "terminal" /\ ~run.invalid
TotalMS(run) == run.ms["initialization"] + run.ms["waiting"] + run.ms["running"]
Running(run) == run.phase \notin {"terminal", "unknown"}

(* What the statistics page gets of a run: an unfinished one is counted up  *)
(* to end, the earlier of now and the end of the range. Runs first seen     *)
(* before the beginning of the range are left out of the page.              *)
PipelineRun(obs, end) ==
    LET run == FoldRun(obs) IN
    [run |-> IF Running(run) /\ end > run.boundary
             THEN [run EXCEPT !.ms[run.phase] = @ + end - run.boundary]
             ELSE run,
     complete |-> Complete(run), active |-> Running(run)]

-----------------------------------------------------------------------------
(* Reference: a run that can be measured is one that was seen from before   *)
(* it ran until its end, never went back, and whose phases take time.       *)
PhaseAt(obs, i) == pipelinePhase(obs[i].status)

EndsAt(obs, f) ==
    /\ PhaseAt(obs, f) = "terminal"
    /\ \A i \in 1..Len(obs) : i < f => PhaseAt(obs, i) \in Timed
    /\ \A i \in f..Len(obs) : obs[i].status = obs[f].status

Whole(obs, f) ==
    /\ EndsAt(obs, f)
    /\ PhaseAt(obs, 1) \in {"initialization", "waiting"}
    /\ \E i \in 1..f : PhaseAt(obs, i) = "running"
    /\ \A i, j \in 1..f : i < j /\ PhaseAt(obs, i) = "running"
                            => PhaseAt(obs, j) \in {"running", "terminal"}
    /\ \A i \in 2..f : PhaseAt(obs, i) # PhaseAt(obs, i - 1)
                         => LET start == CHOOSE s \in 1..(i - 1) :
                                            /\ \A k \in s..(i - 1) : PhaseAt(obs, k) = PhaseAt(obs, i - 1)
                                            /\ s > 1 => PhaseAt(obs, s - 1) # PhaseAt(obs, i - 1)
                            IN obs[start].at < obs[i].at
=============================================================================
