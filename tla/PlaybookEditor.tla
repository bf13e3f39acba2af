--------------------------- MODULE PlaybookEditor ---------------------------
(***************************************************************************)
(* Editing the playbooks on the configuration page: the form and the YAML  *)
(* view with their draft, the two validators, the daemon's update handler  *)
(* and its file. Another admin saves as well, and anyone may reload.       *)
(***************************************************************************)
EXTENDS Integers, Sequences

CONSTANTS
  FilePlaybooks,   (* playbooks.yaml at the start                           *)
  Names, Ttls, Rates, Persists,                           (* what is typed  *)
  Blanks,          (* names that trim() leaves nothing of                   *)
  Units, Bytes,    (* a name's length, in JavaScript and in Rust            *)
  MaxU32, MaxU64,  (* 2^32 - 1 and 2^64 - 1                                 *)
  Null,            (* an absent field, as the daemon sends it               *)
  Undefined,       (* as the page leaves it; serde reads both               *)
  MaxPlaybooks, MaxSteps, MaxChanges        (* bounds: the last on edits and *)
                                            (* loads together               *)

(* The page's numbers may have fractions: all are in tenths.               *)
Vectors == {"udp_flood", "unknown"}        (* of five, which are alike      *)
StepActions == {"police", "discard"}
MaxTtl == 864000
MaxName == 128
Absent == {Null, Undefined}
Confidences == {10, 11}
DefaultRate == 50000000
DefaultTtl == 1200

Step == [action : StepActions \cup {"drop"}, rate_bps : Rates \cup Absent, ttl_seconds : Ttls,
         confidence : Confidences \cup Absent, persistence : Persists \cup Absent]
Playbook == [name : Names, vector : Vectors \cup {"bogus"}, steps : Seq(Step)]

ASSUME PlaybookEditorAssumption ==
  /\ Ttls \cup Rates \cup Persists \subseteq Int /\ Absent \cap Int = {}
  /\ DefaultTtl \in Ttls /\ DefaultRate \in Rates
  /\ "" \in Names /\ Blanks \subseteq Names /\ Units \in [Names -> Nat] /\ Bytes \in [Names -> Nat]
  /\ \A n \in Names : Units[n] <= Bytes[n] /\ (Bytes[n] = 0 => n \in Blanks)
  /\ MaxU32 \in Nat /\ MaxU64 \in Nat
  /\ FilePlaybooks \in Seq(Playbook) /\ Len(FilePlaybooks) <= MaxPlaybooks
  /\ MaxPlaybooks \in Nat /\ MaxSteps \in Nat /\ MaxChanges \in Nat \ {0}

VARIABLES
  rules,           (* state.playbooks                                       *)
  rulesFile,       (* playbooks.yaml                                        *)
  loadedAt,        (* playbooks_loaded_at                                   *)
  lock,            (* who holds the write lock, having written the file     *)
  late             (* who swapped the playbooks and has not yet stamped     *)
VARIABLES
  got,             (* the playbooks a GET has read, before loaded_at        *)
  shown,           (* SWR's answer: playbooks and loaded_at                 *)
  view,            (* playbookView                                          *)
  rulesDraft,      (* the mounted editor's draft (YAML: what it parses to)  *)
  formIndex,       (* its editingIndex, or 0                                *)
  save,            (* handleSavePlaybooks's request, and where it is        *)
  rulesEdits
rulesDaemon == <<rules, rulesFile, loadedAt, lock, late>>
rulesEditor == <<view, rulesDraft, formIndex>>
playbookVars == <<rulesDaemon, got, shown, rulesEditor, save, rulesEdits>>

-----------------------------------------------------------------------------
(* The two validators *)

Escalates(step) == step.confidence \notin Absent \/ step.persistence \notin Absent

(* serde's u32 and u64: an answer of 400, before the handler sees it.      *)
Unsigned(n, max) == n \in 0..(10 * max) /\ n % 10 = 0
Readable(pbs) ==
  \A i \in DOMAIN pbs :
    /\ pbs[i].vector \in Vectors
    /\ \A j \in DOMAIN pbs[i].steps : LET step == pbs[i].steps[j] IN
         /\ step.action \in StepActions /\ Unsigned(step.ttl_seconds, MaxU32)
         /\ step.rate_bps \notin Absent => Unsigned(step.rate_bps, MaxU64)
         /\ step.persistence \notin Absent => Unsigned(step.persistence, MaxU32)
NamesFit(pbs) == \A i \in DOMAIN pbs : Bytes[pbs[i].name] <= MaxName

(* Playbooks::validate.                                                    *)
GoodStep(step) ==
  /\ step.ttl_seconds # 0 /\ step.ttl_seconds <= MaxTtl
  /\ step.action = "police" => step.rate_bps \notin Absent \cup {0}
  /\ step.confidence \notin Absent => step.confidence \in 0..10
Validates(pbs) ==
  /\ pbs # <<>>
  /\ \A i \in DOMAIN pbs :
       /\ Bytes[pbs[i].name] # 0 /\ \A j \in 1..(i - 1) : pbs[j].name # pbs[i].name
       /\ pbs[i].steps # <<>> /\ ~Escalates(pbs[i].steps[1])
       /\ \A j \in DOMAIN pbs[i].steps : GoodStep(pbs[i].steps[j])
Accepts(pbs) == Readable(pbs) /\ NamesFit(pbs) /\ Validates(pbs)

(* validatePlaybooks, which both views share, finds nothing.               *)
ErrorFree(step) ==
  /\ step.action \in StepActions
  /\ step.ttl_seconds >= 10 /\ step.ttl_seconds <= MaxTtl
  /\ step.action = "police" => step.rate_bps \notin Absent /\ step.rate_bps > 0
  /\ step.confidence \notin Absent => step.confidence >= 0 /\ step.confidence <= 10
  /\ step.persistence \notin Absent => step.persistence >= 0
HiddenFieldMutant(pbs) ==
  /\ pbs # <<>>
  /\ \A i, j \in DOMAIN pbs : i # j => pbs[i].name # pbs[j].name
  /\ \A i \in DOMAIN pbs :
       /\ pbs[i].name \notin Blanks /\ Units[pbs[i].name] <= MaxName
       /\ pbs[i].vector \in Vectors /\ pbs[i].steps # <<>>
       /\ \A j \in DOMAIN pbs[i].steps : ErrorFree(pbs[i].steps[j])
NoErrors(pbs) ==
  /\ HiddenFieldMutant(pbs)
  /\ \A i \in DOMAIN pbs : ~Escalates(pbs[i].steps[1])

(* The playbooks with their absent fields all written the same way: null   *)
(* as they arrive, for serde makes no difference, and undefined through    *)
(* playbooksToYaml and parseYaml, which leave null lines out.              *)
FieldsAs(none, step) ==
  [step EXCEPT !.rate_bps = IF @ \in Absent THEN none ELSE @,
               !.confidence = IF @ \in Absent THEN none ELSE @,
               !.persistence = IF @ \in Absent THEN none ELSE @]
PlaybooksAs(none, pbs) ==
  [i \in DOMAIN pbs |-> [pbs[i] EXCEPT !.steps = [j \in DOMAIN @ |-> FieldsAs(none, @[j])]]]
Received(pbs) == PlaybooksAs(Null, pbs)
Yaml(pbs) == PlaybooksAs(Undefined, pbs)

-----------------------------------------------------------------------------
(* The daemon *)

Changeable == loadedAt + rulesEdits < MaxChanges

Editors == {"page", "rival"}
SaveRefused ==
  /\ save.at = "out" /\ lock # "page" /\ "page" \notin late
  /\ save' = [save EXCEPT !.at = "failed"]
  /\ UNCHANGED <<rulesDaemon, got, shown, rulesEditor, rulesEdits>>
FailedSaveMutant(w, pbs) ==
  /\ lock = "none" /\ w \notin late /\ Changeable /\ Accepts(Received(pbs))
  /\ rules' = Received(pbs) /\ rulesFile' \in {rulesFile, Received(pbs)} /\ late' = late \cup {w}
  /\ UNCHANGED <<lock, loadedAt, got, shown, rulesEditor, save, rulesEdits>>
(* Under the write lock: the file is renamed into place, then the swap.    *)
FileSaved(w, pbs) ==
  /\ lock = "none" /\ w \notin late /\ Changeable /\ Accepts(Received(pbs))
  /\ lock' = w /\ rulesFile' = Received(pbs)
  /\ UNCHANGED <<rules, loadedAt, late, got, shown, rulesEditor, save, rulesEdits>>
Swapped(w) ==
  /\ lock = w
  /\ rules' = rulesFile /\ lock' = "none" /\ late' = late \cup {w}
  /\ UNCHANGED <<rulesFile, loadedAt, got, shown, rulesEditor, save, rulesEdits>>
Stamped(w) ==
  /\ w \in late /\ Changeable
  /\ loadedAt' = loadedAt + 1 /\ late' = late \ {w}
  /\ \E at \in {"done", "failed"} :                     (* the proxy may lose it *)
       save' = IF w = "page" THEN [save EXCEPT !.at = at] ELSE save
  /\ UNCHANGED <<rules, rulesFile, lock, got, shown, rulesEditor, rulesEdits>>
PageSaved == save.at = "out" /\ FileSaved("page", save.body)
(* The other admin removes a playbook or changes the vector of one.        *)
RivalSaved ==
  \E i \in DOMAIN rules :
    \/ FileSaved("rival", [j \in 1..(Len(rules) - 1) |-> rules[IF j < i THEN j ELSE j + 1]])
    \/ \E v \in Vectors \ {rules[i].vector} :
         FileSaved("rival", [rules EXCEPT ![i].vector = v])

(* reload_config, which waits for the lock and does not validate.          *)
RulesReloaded ==
  /\ lock = "none" /\ Changeable
  /\ rules' = rulesFile /\ loadedAt' = loadedAt + 1
  /\ UNCHANGED <<rulesFile, lock, late, got, shown, rulesEditor, save, rulesEdits>>
RulesCrashed ==
  /\ Changeable
  /\ rules' = rulesFile /\ loadedAt' = loadedAt + 1
  /\ lock' = "none" /\ late' = {} /\ got' = <<>>
  /\ save' = IF save.at = "out" THEN [save EXCEPT !.at = "failed"] ELSE save
  /\ UNCHANGED <<rulesFile, shown, rulesEditor, rulesEdits>>

(* get_config_playbooks reads the playbooks and their time one by one.     *)
PlaybooksRead ==
  /\ got = <<>> /\ lock = "none"
  /\ got' = <<rules>>
  /\ UNCHANGED <<rulesDaemon, shown, rulesEditor, save, rulesEdits>>

-----------------------------------------------------------------------------
(* The page *)

Fresh(pbs, v) == rulesDraft' = (IF v = "form" THEN pbs ELSE Yaml(pbs)) /\ formIndex' = 0
(* The answer, at a mount or a focus; another loaded_at is another key.    *)
Remounted(answer) ==
  IF answer.loadedAt # shown.loadedAt THEN Fresh(answer.playbooks, view)
  ELSE UNCHANGED <<rulesDraft, formIndex>>
PlaybooksFetched ==
  /\ got # <<>> /\ got' = <<>>
  /\ LET answer == [playbooks |-> got[1], loadedAt |-> loadedAt] IN
     /\ shown' = answer /\ Remounted(answer)
  /\ UNCHANGED <<rulesDaemon, view, save, rulesEdits>>

SetPlaybookView(v) ==
  /\ v # view /\ view' = v /\ Fresh(shown.playbooks, v)
  /\ UNCHANGED <<rulesDaemon, got, shown, save, rulesEdits>>

(* JSON.stringify tells null from undefined, the YAML text does not.       *)
HasRuleChanges ==
  IF view = "form" THEN rulesDraft # shown.playbooks
  ELSE Yaml(rulesDraft) # Yaml(shown.playbooks)
SavingRules == save.at # "idle"

DiscardRules ==
  /\ HasRuleChanges /\ ~SavingRules /\ Fresh(shown.playbooks, view)
  /\ UNCHANGED <<rulesDaemon, got, shown, view, save, rulesEdits>>

EditsRules ==
  /\ Changeable /\ rulesEdits' = rulesEdits + 1
  /\ UNCHANGED <<rulesDaemon, got, shown, view, save>>
EmptyStep == [action |-> "police", rate_bps |-> DefaultRate, ttl_seconds |-> DefaultTtl,
              confidence |-> Undefined, persistence |-> Undefined]
EmptyPlaybook == [name |-> "", vector |-> "udp_flood", steps |-> <<EmptyStep>>]
Without(s, i) == [j \in 1..(Len(s) - 1) |-> s[IF j < i THEN j ELSE j + 1]]

AddPlaybook ==
  /\ view = "form" /\ Len(rulesDraft) < MaxPlaybooks /\ EditsRules
  /\ rulesDraft' = Append(rulesDraft, EmptyPlaybook) /\ formIndex' = Len(rulesDraft) + 1
RemovePlaybook(i) ==
  /\ i # formIndex /\ EditsRules
  /\ rulesDraft' = Without(rulesDraft, i) /\ formIndex' = 0
SetEditingIndex(i) ==
  /\ view = "form" /\ i # formIndex /\ formIndex' = i
  /\ UNCHANGED <<rulesDaemon, got, shown, view, rulesDraft, save, rulesEdits>>

(* StepEditor: the first step has no fields for the requirements, and      *)
(* discarding drops the rate.                                              *)
StepEdits(step, isFirst) ==
  {[step EXCEPT !.action = a,
      !.rate_bps = IF a = "discard" THEN Undefined ELSE IF @ \in Absent THEN DefaultRate ELSE @] :
     a \in StepActions}
  \cup (IF step.action = "police"
        THEN {[step EXCEPT !.rate_bps = r] : r \in Rates \cup {Undefined}} ELSE {})
  \cup {[step EXCEPT !.ttl_seconds = t] : t \in Ttls}
  \cup (IF isFirst THEN {}
        ELSE {[step EXCEPT !.confidence = c] : c \in Confidences \cup {Undefined}}
             \cup {[step EXCEPT !.persistence = p] : p \in Persists \cup {Undefined}})
(* The open form's changes of a playbook: one step always remains.         *)
FormEdits(pb) ==
  {[pb EXCEPT !.name = n] : n \in Names} \cup {[pb EXCEPT !.vector = v] : v \in Vectors}
  \cup (IF Len(pb.steps) < MaxSteps THEN {[pb EXCEPT !.steps = Append(@, EmptyStep)]} ELSE {})
  \cup (IF Len(pb.steps) > 1 THEN {[pb EXCEPT !.steps = Without(@, j)] : j \in DOMAIN pb.steps} ELSE {})
  \cup UNION {{[pb EXCEPT !.steps[j] = s] : s \in StepEdits(pb.steps[j], j = 1)} : j \in DOMAIN pb.steps}
UpdatePlaybook ==
  /\ formIndex # 0 /\ EditsRules
  /\ \E pb \in FormEdits(rulesDraft[formIndex]) : rulesDraft' = [rulesDraft EXCEPT ![formIndex] = pb]
  /\ UNCHANGED formIndex
(* Typing YAML: a field's line more or less, or a text with no playbooks   *)
(* in it, which is an error as an empty list is.                           *)
YamlEdits(pb) ==
  {[pb EXCEPT !.vector = "bogus"], [pb EXCEPT !.vector = "unknown"], [pb EXCEPT !.name = ""],
   [pb EXCEPT !.steps = <<>>]}
  \cup UNION {{[pb EXCEPT !.steps[j] = s] :
       s \in {[pb.steps[j] EXCEPT !.action = "drop"]}
             \cup {[pb.steps[j] EXCEPT !.ttl_seconds = t] : t \in Ttls}
             \cup {[pb.steps[j] EXCEPT !.confidence = c] : c \in Confidences}
             \cup {[pb.steps[j] EXCEPT !.persistence = p] : p \in Persists}} : j \in DOMAIN pb.steps}
SetText ==
  /\ view = "yaml" /\ EditsRules
  /\ \/ rulesDraft' = <<>>
     \/ \E i \in DOMAIN rulesDraft :
          \E pb \in YamlEdits(rulesDraft[i]) : rulesDraft' = [rulesDraft EXCEPT ![i] = pb]
  /\ UNCHANGED formIndex

SavePlaybooks ==
  /\ HasRuleChanges /\ NoErrors(rulesDraft) /\ ~SavingRules
  /\ save' = [at |-> "out", body |-> rulesDraft]
  /\ UNCHANGED <<rulesDaemon, got, shown, rulesEditor, rulesEdits>>
(* Then mutatePlaybooks, whose GET is PlaybooksRead; a failure is thrown   *)
(* before the form is closed.                                              *)
PlaybooksSaved ==
  /\ save.at \in {"done", "failed"}
  /\ save' = [at |-> "idle", body |-> <<>>]
  /\ formIndex' = IF save.at = "done" THEN 0 ELSE formIndex
  /\ UNCHANGED <<rulesDaemon, got, shown, view, rulesDraft, rulesEdits>>

PlaybookInit ==
  /\ rules = FilePlaybooks /\ rulesFile = FilePlaybooks /\ loadedAt = 1
  /\ lock = "none" /\ late = {} /\ got = <<>> /\ view = "form" /\ formIndex = 0
  /\ shown = [playbooks |-> FilePlaybooks, loadedAt |-> 1] /\ rulesDraft = FilePlaybooks
  /\ save = [at |-> "idle", body |-> <<>>] /\ rulesEdits = 0

PlaybookNext ==
  \/ SaveRefused \/ PageSaved \/ RivalSaved \/ \E w \in Editors : Swapped(w) \/ Stamped(w)
  \/ RulesReloaded \/ RulesCrashed \/ PlaybooksRead \/ PlaybooksFetched
  \/ \E v \in {"form", "yaml"} : SetPlaybookView(v)
  \/ DiscardRules \/ AddPlaybook \/ UpdatePlaybook \/ SetText
  \/ \E i \in DOMAIN rulesDraft : RemovePlaybook(i) \/ SetEditingIndex(i)
  \/ SavePlaybooks \/ PlaybooksSaved

-----------------------------------------------------------------------------
(* Properties *)

PlaybookTypeOK ==
  /\ rules \in Seq(Playbook) /\ rulesFile \in Seq(Playbook) /\ rulesDraft \in Seq(Playbook)
  /\ loadedAt \in Nat \ {0} /\ rulesEdits \in Nat /\ loadedAt + rulesEdits <= MaxChanges
  /\ lock \in Editors \cup {"none"} /\ late \subseteq Editors
  /\ got # <<>> => got[1] \in Seq(Playbook)
  /\ shown.loadedAt \in 1..loadedAt /\ shown.playbooks \in Seq(Playbook)
  /\ formIndex \in 0..Len(rulesDraft) /\ (view = "yaml" => formIndex = 0)
  /\ save \in [at : {"idle", "out", "done", "failed"}, body : Seq(Playbook)]

(* The two validators differ in nothing but fractions, widths and the      *)
(* length of names: what the page lets an admin save, in the form or in    *)
(* YAML, the daemon's validate accepts if serde reads its numbers and its  *)
(* names are no longer in bytes than 128: also when removing the first     *)
(* step has left one with requirements the form has no fields for.         *)
SavesAreAccepted ==
  save.at = "out" /\ Readable(save.body) /\ NamesFit(save.body) => Accepts(Received(save.body))

(* Outside the handler that holds the lock, what the daemon enforces is    *)
(* what it would load again, across refusals, reloads and crashes.         *)
RulesAreTheFile == lock = "none" => rules = rulesFile
=============================================================================
