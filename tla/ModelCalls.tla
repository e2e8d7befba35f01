------------------------------ MODULE ModelCalls ------------------------------
(***************************************************************************)
(* The clients of the hosted models: embedding (pipeline/kb/embed.py), the *)
(* content gate (pipeline/kb/content_gate.py) and image reading            *)
(* (pipeline/ocr_cascade.py, pipeline/kb/vision.py), each calling through  *)
(* its own AdaptiveGate and, by pipeline/llm_client.py or directly, through*)
(* a shared CircuitBreaker.                                                *)
(*                                                                         *)
(* A caller is one thread of one of the pools that fan out over batches,   *)
(* pages and images.  The bounded retries inside one embedding call are    *)
(* part of that call: the breaker and the gate see only how it ended.      *)
(* Prompts, bodies, keys and parsing are left out, except that an answer   *)
(* may turn out unusable.                                                  *)
(***************************************************************************)
EXTENDS CircuitBreaker, AdaptiveGate

CONSTANTS
  Texts,         \* batches of texts to embed
  Pages,         \* batches of a page's units to grade
  Images,        \* image URLs to read
  MaxTroubles,   \* bound: calls that may go wrong before the services answer for good
  Deadlands,     \* sets of kinds of call whose model no provider serves
  None

Work == Texts \cup Pages \cup Images
Kinds == {"embed", "grade", "ocr", "chart"}
Troubles == {"failed", "limited", "spoilt", "aborted"}

ASSUME WorkAssumption ==
  /\ MaxTroubles \in Nat
  /\ None \notin Callers \cup Work
  /\ Services = {"openrouter", "openrouter-embed"}
  /\ Gates = {"embed", "content", "vlm"}
  /\ Deadlands \subseteq SUBSET {"grade", "ocr", "chart"}
  /\ Texts \cap Pages = {} /\ Texts \cap Images = {} /\ Pages \cap Images = {}

VARIABLES
  pc,            \* where each caller is
  job,           \* what it works on: an item of Work and the kind of its call
  out,           \* how its call ended
  done,          \* what came of each item; "none" is worked on again by a later run
  stageOff,      \* ocr_cascade._STAGE_DISABLED
  troubles,      \* environment: calls that went wrong, up to MaxTroubles
  unroutable     \* environment: kinds whose model no provider serves

vars == <<breakerVars, gateVars, pc, job, out, done, stageOff, troubles, unroutable>>

NoJob == [item |-> None, kind |-> None]
Service(kind) == IF kind = "embed" THEN "openrouter-embed" ELSE "openrouter"
GateOf(kind) == CASE kind = "embed" -> "embed" [] kind = "grade" -> "content"
                  [] OTHER -> "vlm"

Init ==
  /\ BreakerInit /\ GateInit
  /\ pc = [c \in Callers |-> "idle"]
  /\ job = [c \in Callers |-> NoJob]
  /\ out = [c \in Callers |-> None]
  /\ done = [i \in Work |-> "none"]
  /\ stageOff = FALSE
  /\ troubles = 0
  /\ unroutable \in Deadlands

Goto(c, label) == pc' = [pc EXCEPT ![c] = label]
Idle(c) == Goto(c, "idle") /\ job' = [job EXCEPT ![c] = NoJob] /\ out' = [out EXCEPT ![c] = None]

\* A pool hands an item that nobody works on to a thread.
Take(c, i, kind) ==
  /\ done[i] = "none" /\ \A d \in Callers : job[d].item /= i
  /\ job' = [job EXCEPT ![c] = [item |-> i, kind |-> kind]]

\* HostedEmbedder.embed: one _embed_batch per slice of the texts.
BeginEmbed(c) == \E i \in Texts : Take(c, i, "embed")

\* classify_page: one _grade per batch of units, each unit kept by default.
BeginGrade(c) == \E i \in Pages : Take(c, i, "grade")

\* enrich_markdown_images, and the like of it for tweets: one read_image per
\* image that has no trustworthy entry in the cache, however often it occurs;
\* read_image refuses at once when its stage is off.
BeginRead(c) == ~stageOff /\ \E i \in Images : Take(c, i, "ocr")

\* _ocr_model: the routing report knows already that no candidate is served.
NoOcrModel(c) ==
  /\ pc[c] = "idle" /\ "ocr" \in unroutable
  /\ ~stageOff /\ stageOff' = TRUE
  /\ UNCHANGED <<breakerVars, gateVars, pc, job, out, done, troubles, unroutable>>

Begin(c) ==
  /\ pc[c] = "idle"
  /\ BeginEmbed(c) \/ BeginGrade(c) \/ BeginRead(c)
  /\ Goto(c, "entering")
  /\ UNCHANGED <<breakerVars, gateVars, out, done, stageOff, troubles, unroutable>>

\* breaker.call(): let through, or refused with CircuitOpenError.
Ask(c) ==
  LET s == Service(job[c].kind)
  IN \/ Allow(s) /\ Goto(c, "calling") /\ UNCHANGED out
     \/ ~Peek(s) /\ Goto(c, "leaving") /\ out' = [out EXCEPT ![c] = "refused"]
                 /\ UNCHANGED breakerVars

\* with GATE: - the caller goes in and asks the breaker, or sleeps until it is
\* notified.
EnterGate(c) ==
  LET g == GateOf(job[c].kind)
  IN /\ pc[c] = "entering" /\ c \notin waiting[g]
     /\ \/ Enter(g, c) /\ Ask(c)
        \/ Wait(g, c) /\ UNCHANGED <<breakerVars, pc, out>>
     /\ UNCHANGED <<job, done, stageOff, troubles, unroutable>>

\* The ways a call may end.  "limited" is a 429, "spoilt" an answer that turns
\* out unusable, "aborted" an exception that is no Exception (the process is
\* being interrupted), which nobody records.
Endings(kind) ==
  (IF kind \in unroutable THEN {"unroutable"} ELSE {"ok"}) \cup
  (IF troubles < MaxTroubles THEN Troubles ELSE {})

\* The call returns and the breaker takes note, except of a model that cannot
\* be routed.  Embedding and grading halve their gate on a 429 still inside it.
Answer(c) ==
  LET s == Service(job[c].kind)
  IN /\ pc[c] = "calling"
     /\ \E o \in Endings(job[c].kind) :
          /\ out' = [out EXCEPT ![c] = o]
          /\ CASE o \in {"ok", "spoilt"} -> RecordSuccess(s)
               [] o \in {"failed", "limited"} -> RecordFailure(s)
               [] OTHER -> UNCHANGED breakerVars
          /\ Goto(c, IF o = "limited" /\ job[c].kind \in {"embed", "grade"} THEN "slowing" ELSE "leaving")
          /\ troubles' = troubles + (IF o \in Troubles THEN 1 ELSE 0)
     /\ UNCHANGED <<gateVars, job, done, stageOff, unroutable>>

SlowInside(c) ==
  /\ pc[c] = "slowing"
  /\ Decrease(GateOf(job[c].kind)) /\ Goto(c, "leaving")
  /\ UNCHANGED <<breakerVars, job, out, done, stageOff, troubles, unroutable>>

LeaveGate(c) ==
  /\ pc[c] = "leaving"
  /\ Leave(GateOf(job[c].kind)) /\ Goto(c, "left")
  /\ UNCHANGED <<breakerVars, job, out, done, stageOff, troubles, unroutable>>

Finish(c, i, result) == Idle(c) /\ done' = [done EXCEPT ![i] = result]
GiveUp(c) == Idle(c) /\ UNCHANGED done

\* _embed_batch after the gate: a short or drifted answer raises like a failed
\* call does, embed() raises with it and no text of the batch has a vector.
EndEmbed(c) ==
  /\ job[c].kind = "embed"
  /\ \/ out[c] = "ok" /\ Finish(c, job[c].item, "vectors")
     \/ out[c] /= "ok" /\ GiveUp(c)
  /\ UNCHANGED stageOff

\* _grade: whatever goes wrong, an answer without a usable verdict included,
\* the batch keeps everything and the page goes on.
EndGrade(c) ==
  /\ job[c].kind = "grade"
  /\ IF out[c] = "aborted" THEN GiveUp(c)
     ELSE Finish(c, job[c].item, IF out[c] = "ok" THEN "verdicts" ELSE "kept all")
  /\ UNCHANGED stageOff

\* read_image, first hop, and what its callers cache of it: a transcript sends
\* a chart on to the second hop, a failure is cached by nobody, and a model
\* that cannot be routed switches the stage off.
EndOcr(c) ==
  /\ job[c].kind = "ocr"
  /\ stageOff' = (stageOff \/ out[c] = "unroutable")
  /\ CASE out[c] \in {"ok", "spoilt"} ->
            \/ Finish(c, job[c].item, "read")
            \/ /\ job' = [job EXCEPT ![c].kind = "chart"]
               /\ out' = [out EXCEPT ![c] = None] /\ Goto(c, "entering")
               /\ UNCHANGED done
       [] OTHER -> GiveUp(c)

\* Second hop: a chart read that fails leaves the transcript of the first.
EndChart(c) ==
  /\ job[c].kind = "chart"
  /\ IF out[c] = "aborted" THEN GiveUp(c)
     ELSE Finish(c, job[c].item, IF out[c] \in {"ok", "spoilt"} THEN "chart" ELSE "read")
  /\ UNCHANGED stageOff

\* After the with: a clean call may raise the limit, and reading an image
\* halves its gate only here; then the caller makes what it can of the answer.
Tune(c) ==
  LET g == GateOf(job[c].kind)
  IN CASE out[c] \in {"ok", "spoilt"} -> CleanCall(g)
       [] out[c] = "limited" /\ g = "vlm" -> Decrease(g)
       [] OTHER -> UNCHANGED gateVars

End(c) ==
  /\ pc[c] = "left"
  /\ Tune(c)
  /\ EndEmbed(c) \/ EndGrade(c) \/ EndOcr(c) \/ EndChart(c)
  /\ UNCHANGED <<breakerVars, troubles, unroutable>>

CallerStep(c) ==
  \/ Begin(c) \/ NoOcrModel(c) \/ EnterGate(c) \/ Answer(c) \/ SlowInside(c)
  \/ LeaveGate(c) \/ End(c)

Tick ==
  /\ BreakerTick
  /\ UNCHANGED <<gateVars, pc, job, out, done, stageOff, troubles, unroutable>>

Next == (\E c \in Callers : CallerStep(c)) \/ Tick

\* Threads run, time passes; the services' failures are finite because
\* MaxTroubles bounds them.
Fairness == WF_vars(Tick) /\ \A c \in Callers : WF_vars(CallerStep(c))

Spec == Init /\ [][Next]_vars /\ Fairness

-----------------------------------------------------------------------------
\* However many callers ask at once, a tripped service gets one trial per
\* cooldown: a call is let through a breaker that is not closed only when the
\* last such call is a whole cooldown old.
TrialsSpaced ==
  [][\A c \in Callers :
       LET s == Service(job[c].kind)
       IN pc[c] = "entering" /\ pc'[c] = "calling" /\ breaker[s].state /= "closed"
          => sinceTrial[s] >= COOLDOWN]_vars

\* Once the services answer for good, all the work gets done: no breaker stays
\* tripped over a trial whose outcome nobody recorded, no failed read is kept
\* as if it were one, no caller sleeps for ever at a gate.  Images are excused
\* when the model that reads them cannot be routed.
WorkSettles ==
    <>(\A i \in Work : done[i] /= "none" \/ (i \in Images /\ stageOff))
=============================================================================
