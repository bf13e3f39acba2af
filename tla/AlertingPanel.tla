--------------------------- MODULE AlertingPanel ---------------------------
(***************************************************************************)
(* Editing the alert destinations: the dashboard's panel with its draft,   *)
(* the daemon's update handler, which puts the secrets it had masked back  *)
(* into what the panel sends, and the file. Another admin saves as well.   *)
(***************************************************************************)
EXTENDS Naturals, Sequences, FiniteSets

CONSTANTS
  FileDests,       (* alerting.yaml at the start                            *)
  NewKinds,        (* the kinds of destination that get added               *)
  DestKeys,        (* channels, chat ids, event URLs, regions, URLs         *)
  Secrets,         (* what admins type as webhook, token, key or secret     *)
  MaxDests, MaxEdits, MaxSaves,             (* bounds                       *)
  Mask             (* "***"                                                 *)

Kinds == {"slack", "discord", "teams", "telegram", "pagerduty", "opsgenie", "generic"}
Keyless == {"discord", "teams"}
Unset == "none"     (* an absent field, and an empty one *)
Blank == ""
Dest == [kind : Kinds, key : DestKeys \cup {Unset, Blank},
         secret : Secrets \cup {Unset, Blank, Mask}, headers : Secrets \cup {Unset, Mask}]

ASSUME AlertingPanelAssumption ==
  /\ {Unset, Blank} \cap (Secrets \cup DestKeys) = {} /\ Mask \notin Secrets \cup {Unset, Blank}
  /\ FileDests \in Seq(Dest) /\ Len(FileDests) <= MaxDests
  /\ \A i \in DOMAIN FileDests : FileDests[i].secret # Mask
  /\ NewKinds \subseteq Kinds /\ DestKeys # {}
  /\ MaxDests \in Nat /\ MaxEdits \in Nat /\ MaxSaves \in Nat

VARIABLES
  config,          (* the destinations AlertingService runs with            *)
  file,            (* alerting.yaml                                         *)
  entered,         (* history: who was given which secret in plain text     *)
  saves            (* how many saves there were                             *)
VARIABLES
  data,            (* SWR's masked destinations                             *)
  draft,           (* the draft's destinations, or <<>> without one; marked *)
                   (* is the one the open form was opened on                *)
  isEditing,       (* draft # null                                          *)
  editingIndex,    (* of the open form, or 0                                *)
  put,             (* handleSave's request, and where it is                 *)
  edits
alertingDaemon == <<config, file, entered, saves>>
alertingPanel == <<data, draft, isEditing, editingIndex, put, edits>>
alertingVars == <<alertingDaemon, alertingPanel>>

-----------------------------------------------------------------------------
(* The daemon *)

(* redacted: a generic destination seems to have a secret in any case.     *)
Redacted(d) ==
  [d EXCEPT !.secret = Mask, !.headers = IF @ = Unset THEN Unset ELSE Mask]
RedactedAll(ds) == [i \in DOMAIN ds |-> Redacted(ds[i])]

(* merge_secrets: the destinations a masked secret may be taken from.      *)
ByKindMutant(d, current) == {i \in DOMAIN current : current[i].kind = d.kind}
Candidates(d, current) ==
  LET alike == {i \in DOMAIN current : current[i].kind = d.kind}
      same == {i \in alike : current[i].key = d.key}
  IN CASE d.kind \in Keyless -> alike
       [] d.kind = "slack" -> IF d.key # Unset /\ same # {} THEN same ELSE alike
       [] d.kind = "generic" -> {i \in same : current[i].secret # Unset}
       [] OTHER -> same
Resolves(d, current) == d.secret = Mask => Cardinality(Candidates(d, current)) = 1
Merged(d, current) ==
  IF d.secret = Mask
  THEN [d EXCEPT !.secret = current[CHOOSE i \in Candidates(d, current) : TRUE].secret]
  ELSE d

(* validate; that URLs are public https ones is left out.                  *)
Valid(d) ==
  /\ d.kind # "generic" => d.secret \notin {Blank, Mask}
  /\ d.kind \notin Keyless \cup {"slack"} => d.key \notin {Unset, Blank}

Accepted(body) ==
  /\ \A i \in DOMAIN body : Resolves(body[i], config)
  /\ \A i \in DOMAIN body : Valid(Merged(body[i], config))
Stored(body) == [i \in DOMAIN body |-> Merged(body[i], config)]
Typed(body) == {<<d.kind, d.key, d.secret>> : d \in {body[i] : i \in DOMAIN body}}

(* update_alerting_config under its lock: it refuses or cannot write, or   *)
(* replaces the file by a rename; then it swaps the service.               *)
PutRefused ==
  /\ put.at = "out"
  /\ put' = [put EXCEPT !.at = "failed"]
  /\ UNCHANGED <<alertingDaemon, data, draft, isEditing, editingIndex, edits>>
PutSaved ==
  /\ put.at = "out" /\ Accepted(put.body) /\ saves < MaxSaves
  /\ file' = Stored(put.body) /\ saves' = saves + 1
  /\ entered' = entered \cup Typed(put.body)
  /\ put' = [put EXCEPT !.at = "saved"]
  /\ UNCHANGED <<config, data, draft, isEditing, editingIndex, edits>>
PutSwapped ==
  /\ put.at = "saved"
  /\ config' = file
  /\ \E at \in {"done", "failed"} : put' = [put EXCEPT !.at = at]   (* the proxy may lose it *)
  /\ UNCHANGED <<file, entered, saves, data, draft, isEditing, editingIndex, edits>>

(* reload_config takes the same lock; main reads the file after a crash.   *)
Reloaded ==
  /\ put.at # "saved" /\ config' = file
  /\ UNCHANGED <<file, entered, saves, alertingPanel>>
Crashed ==
  /\ config' = file
  /\ put' = IF put.at \in {"out", "saved"} THEN [put EXCEPT !.at = "failed"] ELSE put
  /\ UNCHANGED <<file, entered, saves, data, draft, isEditing, editingIndex, edits>>

(* The other admin's whole save, of a destination typed or one removed.    *)
RivalSaves ==
  /\ put.at # "saved" /\ saves < MaxSaves /\ saves' = saves + 1
  /\ \/ /\ Len(config) < MaxDests
        /\ \E d \in [kind : NewKinds, key : DestKeys, secret : Secrets, headers : {Unset}] :
             config' = Append(config, d) /\ entered' = entered \cup Typed(<<d>>)
     \/ \E i \in DOMAIN config :
          /\ config' = [j \in 1..(Len(config) - 1) |-> config[IF j < i THEN j ELSE j + 1]]
          /\ UNCHANGED entered
  /\ file' = config'
  /\ UNCHANGED alertingPanel

-----------------------------------------------------------------------------
(* The panel *)

(* Read once, then on focus only (Cache).                                  *)
AlertingFetched ==
  /\ data # RedactedAll(config)
  /\ data' = RedactedAll(config)
  /\ UNCHANGED <<alertingDaemon, draft, isEditing, editingIndex, put, edits>>

Dests(ds) == [i \in DOMAIN ds |-> ds[i].dest]
HasChanges == isEditing /\ Dests(draft) # data
Saving == put.at # "idle"

InitDraft ==
  /\ ~isEditing
  /\ isEditing' = TRUE
  /\ draft' = [i \in DOMAIN data |-> [dest |-> data[i], marked |-> FALSE]]
  /\ UNCHANGED <<alertingDaemon, data, editingIndex, put, edits>>
DraftGone == isEditing' = FALSE /\ draft' = <<>> /\ editingIndex' = 0
DiscardDraft ==
  /\ isEditing /\ ~Saving /\ DraftGone
  /\ UNCHANGED <<alertingDaemon, data, put, edits>>

Editing == isEditing /\ edits < MaxEdits /\ edits' = edits + 1
OpenOn(ds, i) == [j \in DOMAIN ds |-> [ds[j] EXCEPT !.marked = (j = i)]]
Removed(ds, i) == [j \in 1..(Len(ds) - 1) |-> ds[IF j < i THEN j ELSE j + 1]]

(* emptyDest: PagerDuty's URL and OpsGenie's region have defaults.         *)
EmptyDest(kind) ==
  [kind |-> kind, secret |-> Blank, headers |-> Unset,
   key |-> IF kind \in {"pagerduty", "opsgenie"} THEN CHOOSE k \in DestKeys : TRUE
           ELSE IF kind \in Keyless THEN Unset ELSE Blank]
AddDest(kind) ==
  /\ Editing /\ Len(draft) < MaxDests
  /\ draft' = OpenOn(Append(draft, [dest |-> EmptyDest(kind), marked |-> TRUE]), Len(draft) + 1)
  /\ editingIndex' = Len(draft) + 1
  /\ UNCHANGED <<alertingDaemon, data, isEditing, put>>
SameIndexMutant(i) == IF editingIndex = i THEN 0 ELSE editingIndex
IndexWithout(i) ==
  IF editingIndex = i THEN 0 ELSE IF editingIndex > i THEN editingIndex - 1 ELSE editingIndex
RemoveDest(i) ==
  /\ Editing
  /\ draft' = Removed(draft, i) /\ editingIndex' = IndexWithout(i)
  /\ UNCHANGED <<alertingDaemon, data, isEditing, put>>
(* The pencil of a row, and the form's Done.                               *)
OpenForm(i) ==
  /\ isEditing /\ i # editingIndex
  /\ editingIndex' = i /\ draft' = OpenOn(draft, i)
  /\ UNCHANGED <<alertingDaemon, data, isEditing, put, edits>>
(* DestinationForm and updateDest: no field for the headers.               *)
UpdateDest ==
  /\ Editing /\ editingIndex # 0
  /\ \E d \in Dest :
       /\ draft' = [draft EXCEPT ![editingIndex].dest = d]
       /\ LET old == draft[editingIndex].dest IN
          \/ \E s \in Secrets : d = [old EXCEPT !.secret = s]
          \/ old.kind \notin Keyless /\ \E k \in DestKeys : d = [old EXCEPT !.key = k]
  /\ UNCHANGED <<alertingDaemon, data, isEditing, editingIndex, put>>

HandleSave ==
  /\ HasChanges /\ ~Saving
  /\ put' = [at |-> "out", body |-> Dests(draft)]
  /\ UNCHANGED <<alertingDaemon, data, draft, isEditing, editingIndex, edits>>
(* The refetch after a save may get an older answer (Cache).               *)
SaveAnswered ==
  /\ put.at \in {"done", "failed"}
  /\ put' = [at |-> "idle", body |-> <<>>]
  /\ IF put.at = "done"
     THEN DraftGone /\ data' \in {data, RedactedAll(config)}
     ELSE UNCHANGED <<data, draft, isEditing, editingIndex>>
  /\ UNCHANGED <<alertingDaemon, edits>>

AlertingPanelInit ==
  /\ config = FileDests /\ file = FileDests /\ entered = Typed(FileDests) /\ saves = 0
  /\ data = RedactedAll(FileDests) /\ draft = <<>> /\ isEditing = FALSE /\ editingIndex = 0
  /\ put = [at |-> "idle", body |-> <<>>] /\ edits = 0

AlertingPanelNext ==
  \/ PutRefused \/ PutSaved \/ PutSwapped \/ Reloaded \/ Crashed \/ RivalSaves
  \/ AlertingFetched \/ InitDraft \/ DiscardDraft
  \/ \E kind \in NewKinds : AddDest(kind)
  \/ \E i \in DOMAIN draft : RemoveDest(i) \/ OpenForm(i)
  \/ UpdateDest \/ HandleSave \/ SaveAnswered

AlertingPanelSpec == AlertingPanelInit /\ [][AlertingPanelNext]_alertingVars

-----------------------------------------------------------------------------
(* Properties *)

AlertingPanelTypeOK ==
  /\ config \in Seq(Dest) /\ file \in Seq(Dest) /\ data \in Seq(Dest)
  /\ draft \in Seq([dest : Dest, marked : BOOLEAN]) /\ isEditing \in BOOLEAN
  /\ editingIndex \in 0..Len(draft) /\ saves \in 0..MaxSaves /\ edits \in 0..MaxEdits
  /\ put \in [at : {"idle", "out", "saved", "done", "failed"}, body : Seq(Dest)]

(* merge_secrets: however drafts age while others save, rename and remove  *)
(* destinations, no mask is stored in the place of a secret, and one that  *)
(* is merged back stays with the endpoint it was entered for: a chat, an   *)
(* events URL, a region or a webhook never gets the secret of another.     *)
(* (Slack's is looked up by kind when its channel is new.)                 *)
SecretsAreEntered ==
  \A i \in DOMAIN config :
    /\ config[i].secret # Mask
    /\ config[i].kind \in {"telegram", "pagerduty", "opsgenie", "generic"} =>
         <<config[i].kind, config[i].key, config[i].secret>> \in entered

(* removeDest and addDest: the form shows the destination it was opened    *)
(* on while rows come and go.                                              *)
FormStaysOnDest ==
  editingIndex # 0 => \E i \in DOMAIN draft : i = editingIndex /\ draft[i].marked

(* docs/upgrading.md: secrets are preserved on update, headers too.        *)
HeadersSurvive == \A i \in DOMAIN config : config[i].headers # Mask
=============================================================================
