------------------------------- MODULE ServeJob -------------------------------
(***************************************************************************)
(* The vLLM server a run may own on a SLURM node: how the job is sized     *)
(* from the model's metadata, submitted, waited for, published, and taken  *)
(* down by the run's finally or, after a hard kill, by the reaper, which   *)
(* knows the job by the id the run wrote to serve_job.jobid.               *)
(*                                                                         *)
(* Sizes are in units of half a byte per parameter.                        *)
(***************************************************************************)
EXTENDS Integers

CONSTANTS
  Vram,      \* of a card
  Context,   \* the KV cache and the fixed overhead, for a model whose
             \* configuration tells the geometry of its cache
  MaxParams  \* the largest model

ASSUME ServeAssumption ==
  /\ Vram \in Nat \ {0} /\ Context \in Nat /\ MaxParams \in Nat

Gpus == {"fp8", "ampere", "unknown"}   \* an Ada or Hopper card, an older
                                       \* one, one the table does not list
Quants == {"bf16", "fp8", "awq", "q4"}
Bytes == [bf16 |-> 4, fp8 |-> 2, awq |-> 1, q4 |-> 1]

(* The card and the checkpoint, and what the study sets: the quantization, *)
(* and in llm_slurm the GPUs of gres, the tensor_parallel (0: not set) and *)
(* a --quantization among the vllm_args ("": none).                        *)
Models == [gpu : Gpus, params : 0..MaxParams, geometry : BOOLEAN]
Settings == [asked : {""} \cup Quants, gres : 0..1, tensor : 0..1,
             flag : {"", "fp8"}]
Plans == [model : Models, set : Settings, cards : Nat, parallel : Nat,
          served : Quants]
Configs == [model : Models, set : Settings, cards : {1}, parallel : {1},
            served : {"bf16"}]
NoPlan ==
  [model |-> [gpu |-> "unknown", params |-> 0, geometry |-> FALSE],
   set |-> [asked |-> "", gres |-> 0, tensor |-> 0, flag |-> ""],
   cards |-> 1, parallel |-> 1, served |-> "bf16"]

VARIABLES
  phase,      \* how far the run is
  plan,       \* what is configured and, once sized, what is asked of SLURM
  job,        \* the job, as SLURM has it
  jobid,      \* _serve_jobid is set: the finally will cancel the job
  jobfile,    \* serve_job.jobid has been written
  url,        \* VLLM_BASE_URL
  left,       \* history: the phase the run was in when it closed or was killed
  missed      \* history: an scancel that failed; it is tried once

serve == <<phase, plan, job, jobid, jobfile, url, left, missed>>


ServeInit ==
  /\ \/ phase = "graph" /\ plan = NoPlan   \* llm_slurm is not enabled
     \/ phase = "sizing" /\ plan \in Configs
  /\ job = "none" /\ jobid = FALSE /\ jobfile = FALSE /\ url = FALSE
  /\ left = "none" /\ missed = FALSE

Starting == {"sized", "submitted", "queued", "loading"}
Phases == {"sizing", "graph", "closing", "ended", "killed", "reaped"}
            \cup Starting
Alive == {"pending", "running"}

ServeTypeOK ==
  /\ phase \in Phases /\ left \in Phases \cup {"none"}
  /\ plan \in Plans
  /\ job \in Alive \cup {"none", "over", "cancelled"}
  /\ {jobid, jobfile, url, missed} \subseteq BOOLEAN

(***************************************************************************)
(* resolve_serve_spec.  Without the geometry of the cache the context does *)
(* not count and the weights are taken 1.3 times; without metadata         *)
(* (params = 0), or for a card of unknown memory, one GPU is asked for.    *)
(* What the study sets in llm_slurm wins over what is derived.             *)
(***************************************************************************)
Required(model, quant) ==
  LET weights == model.params * Bytes[quant]
  IN IF model.geometry THEN weights + Context ELSE (13 * weights + 9) \div 10

Cards(need) == IF need <= Vram THEN 1 ELSE (need + Vram - 1) \div Vram

DefaultQuant(model) ==
  IF model.gpu = "fp8" THEN "fp8"
  ELSE IF \/ model.gpu = "unknown" \/ model.params = 0
          \/ Required(model, "bf16") <= Vram
  THEN "bf16" ELSE "q4"

(* The dtype vLLM serves: _quant_vllm_args has no flag for q4, and without *)
(* one the checkpoint keeps its own.                                       *)
Served(quant) == IF quant \in {"fp8", "awq"} THEN quant ELSE "bf16"

Size ==
  LET quant == IF plan.set.asked # "" THEN plan.set.asked
               ELSE DefaultQuant(plan.model)
      derived == IF plan.model.params = 0 \/ plan.model.gpu = "unknown" THEN 1
                 ELSE Cards(Required(plan.model, quant))
  IN /\ phase = "sizing"
     /\ phase' = "sized"
     /\ plan' = [plan EXCEPT
          !.cards = IF plan.set.gres # 0 THEN plan.set.gres ELSE derived,
          !.parallel = IF plan.set.tensor # 0 THEN plan.set.tensor ELSE derived,
          !.served = IF plan.set.flag # "" THEN plan.set.flag ELSE Served(quant)]
     /\ UNCHANGED <<job, jobid, jobfile, url, left, missed>>

(***************************************************************************)
(* _maybe_start_slurm_llm.                                                 *)
(***************************************************************************)
Submit ==
  /\ phase = "sized"
  /\ phase' = "submitted" /\ job' = "pending"
  /\ UNCHANGED <<plan, jobid, jobfile, url, left, missed>>

(* A form that leaves the id for the end, when the server answers.         *)
WriteJobidLate ==
  /\ phase = "submitted"
  /\ phase' = "queued"
  /\ UNCHANGED <<plan, job, jobid, jobfile, url, left, missed>>

WriteJobid ==
  /\ phase = "submitted"
  /\ phase' = "queued" /\ jobfile' = TRUE
  /\ UNCHANGED <<plan, job, jobid, url, left, missed>>

JobRuns ==
  /\ phase = "queued" /\ job = "running"
  /\ phase' = "loading"
  /\ UNCHANGED <<plan, job, jobid, jobfile, url, left, missed>>

ServerAnswers ==
  /\ phase = "loading" /\ job = "running"
  /\ phase' = "graph" /\ plan' = NoPlan
  /\ url' = TRUE /\ jobid' = TRUE
  /\ UNCHANGED <<job, jobfile, left, missed>>

(* sbatch is refused, the queue or the server takes too long, the job is   *)
(* seen dead in the queue, or the user interrupts.                         *)
StartFails ==
  /\ phase \in Starting
  /\ phase' = "closing" /\ left' = phase /\ plan' = NoPlan
  /\ UNCHANGED <<job, jobid, jobfile, url, missed>>

GraphEnds ==
  /\ phase = "graph"
  /\ phase' = "closing" /\ left' = phase
  /\ UNCHANGED <<plan, job, jobid, jobfile, url, missed>>

(* scancel: of a job that exists, unless the command fails, which is       *)
(* logged at most.                                                         *)
Cancel ==
  \/ /\ job' = IF job \in Alive THEN "cancelled" ELSE job
     /\ UNCHANGED missed
  \/ /\ missed' = TRUE
     /\ UNCHANGED job

Teardown ==
  /\ phase = "closing"
  /\ phase' = "ended"
  /\ IF jobid THEN Cancel ELSE UNCHANGED <<job, missed>>
  /\ UNCHANGED <<plan, jobid, jobfile, url, left>>

(* os._exit by the watchdog of the study, which then reaps.                *)
HardKill ==
  /\ phase \in {"graph", "closing"} \cup Starting
  /\ phase' = "killed" /\ plan' = NoPlan
  /\ left' = IF phase = "closing" THEN left ELSE phase
  /\ UNCHANGED <<job, jobid, jobfile, url, missed>>

Reap ==
  /\ phase = "killed"
  /\ phase' = "reaped"
  /\ IF jobfile THEN Cancel ELSE UNCHANGED <<job, missed>>
  /\ UNCHANGED <<plan, jobid, jobfile, url, left>>

(* SLURM.                                                                  *)
JobStarts ==
  /\ job = "pending"
  /\ job' = "running"
  /\ UNCHANGED <<phase, plan, jobid, jobfile, url, left, missed>>

JobEnds ==
  /\ job \in Alive
  /\ job' = "over"
  /\ UNCHANGED <<phase, plan, jobid, jobfile, url, left, missed>>

ServeStep ==
  \/ Size \/ Submit \/ WriteJobid \/ JobRuns \/ ServerAnswers \/ StartFails
  \/ GraphEnds \/ Reap \/ JobStarts \/ JobEnds

Answers == job = "running"

(***************************************************************************)
(* A run that is over leaves its GPUs allocated in three cases only: the   *)
(* scancel failed; the start failed, or was interrupted, and the run       *)
(* closed, for the finally knows no job of a start that did not return     *)
(* (its comment promises the tear-down "on EVERY exit path"); or it was    *)
(* killed before the job's id was on disk, at a start that had come as far *)
(* as sbatch.  A run that reached its graph releases them, however it      *)
(* ended, and so does one killed in any of the waits, which may last an    *)
(* hour.                                                                   *)
(***************************************************************************)
ReleasedJob ==
  phase \in {"ended", "reaped"} /\ job \in Alive =>
    \/ missed
    \/ phase = "ended" /\ left \in Starting
    \/ phase = "reaped" /\ left = "submitted"
=============================================================================
