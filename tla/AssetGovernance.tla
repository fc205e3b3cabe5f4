---------------------------- MODULE AssetGovernance ----------------------------
(***************************************************************************)
(* The pictures of one project: what may be published of each, and how it  *)
(* is cropped.  Three things hold the answer and are written by different  *)
(* steps of the same call: the knowledge pack, the file of decisions       *)
(* (read whole, changed, and written back whole after an await), and the   *)
(* cropped files on disk.                                                  *)
(*                                                                         *)
(* A picture is an asset, and the original that its crops are made from is *)
(* always there.  Left out: exact duplicates, which may not be approved,   *)
(* and notes and lineage, which nothing here reads.  A source that is      *)
(* approved for use has status approved too, so its pictures publish until *)
(* a person says otherwise.                                                *)
(* The three files of one crop are one, and a replacement comes with its   *)
(* default verdict, which is to approve it.  A call that is refused at its *)
(* first check is no step.                                                 *)
(***************************************************************************)
CONSTANTS Picture,
          Licensed,    \* those whose source is approved for use
          Point,       \* focal points an operator may choose
          AssetCall,   \* calls, each made once
          Nowhere      \* no focal point, no picture

ASSUME AssetAssumption == Licensed \subseteq Picture /\ Nowhere \notin Picture \cup Point

VARIABLES pictured,    \* the pictures in the knowledge pack
          decided,     \* asset-decisions.json, by picture
          crops,       \* how the cropped files on disk are framed
          assetAt,     \* the await each call is suspended in
          wanted,      \* the request of each call
          draft,       \* the document a call is about to write
          pending,     \* the recorded framings a call has yet to re-apply
          disturbed    \* history: two calls overlapped, or one threw with files made

assetVars == <<pictured, decided, crops, assetAt, wanted, draft, pending, disturbed>>

Attention == "attention"      \* framed by the heuristic
NoCrop == "no crop"
Framing == Point \cup {Attention, NoCrop}

Undecided == [recorded |-> FALSE, publish |-> FALSE, declared |-> FALSE, agreed |-> FALSE,
              point |-> Nowhere, stated |-> FALSE, saw |-> NoCrop]
\* `stated` and `saw` are history: a person gave this verdict, and the framing
\* before him when he agreed with the crops.
Decisions == [recorded : BOOLEAN,    \* the file has an entry for the picture
              publish  : BOOLEAN,    \* effect.publishUseAllowed
              declared : BOOLEAN,    \* rightsDeclaration
              agreed   : BOOLEAN,    \* cropReview is approved
              point    : Point \cup {Nowhere},
              stated   : BOOLEAN,
              saw      : Framing]
AssetDocuments == [Picture -> Decisions]

AssetRequests == [picture : Picture \cup {Nowhere}, point : Point \cup {Nowhere},
             retires : Picture \cup {Nowhere}, declared : BOOLEAN]
NoAssetRequest == [picture |-> Nowhere, point |-> Nowhere, retires |-> Nowhere, declared |-> FALSE]
NoDraft == [x \in Picture |-> Undecided]

AssetLabels == {"idle", "write", "crop", "cropped", "normalise", "normalised", "reapply", "done"}

AssetTypeOK ==
  /\ pictured \subseteq Picture
  /\ decided \in AssetDocuments
  /\ crops \in [Picture -> Framing]
  /\ assetAt \in [AssetCall -> AssetLabels]
  /\ wanted \in [AssetCall -> AssetRequests]
  /\ draft \in [AssetCall -> AssetDocuments]
  /\ pending \in [AssetCall -> SUBSET (Picture \X Point)]
  /\ disturbed \in BOOLEAN

AssetInit ==
  /\ pictured = {}
  /\ decided = NoDraft
  /\ crops = [x \in Picture |-> NoCrop]
  /\ assetAt = [c \in AssetCall |-> "idle"]
  /\ wanted = [c \in AssetCall |-> NoAssetRequest]
  /\ draft = [c \in AssetCall |-> NoDraft]
  /\ pending = [c \in AssetCall |-> {}]
  /\ disturbed = FALSE

-----------------------------------------------------------------------------
\* decideAssetGovernance, and the calls that only change the document.

\* An approval that outruns the source's rights needs a declaration.
MayApprove(x, declares) == x \in Licensed \/ declares

InFlight(c) == assetAt[c] \notin {"idle", "done"}

\* A call gets past its own decision, beside others or not.
AssetCallBegins(c) ==
  /\ assetAt[c] = "idle"
  /\ disturbed' = (disturbed \/ \E other \in AssetCall : InFlight(other))

\* writeAssetDecisions awaits a decision of its own before it writes.
HoldsDraft(c, document) ==
  /\ draft' = [draft EXCEPT ![c] = document]
  /\ assetAt' = [assetAt EXCEPT ![c] = "write"]

\* decideProjectAsset writes a new entry: what the old one said is not carried over.
Decision(x, publishes, declares, agrees) ==
  [recorded |-> TRUE, publish |-> publishes, declared |-> declares, agreed |-> agrees,
   point |-> Nowhere, stated |-> TRUE, saw |-> IF agrees THEN crops[x] ELSE NoCrop]

Decide(c, x, publishes, declares, agrees) ==
  /\ AssetCallBegins(c) /\ x \in pictured
  /\ publishes => MayApprove(x, declares)
  /\ HoldsDraft(c, [decided EXCEPT ![x] = Decision(x, publishes, declares, agrees)])
  /\ UNCHANGED <<pictured, decided, crops, wanted, pending>>

\* decision "clear": the entry is dropped.
ClearDecision(c, x) ==
  /\ AssetCallBegins(c) /\ x \in pictured
  /\ HoldsDraft(c, [decided EXCEPT ![x] = Undecided])
  /\ UNCHANGED <<pictured, decided, crops, wanted, pending>>

\* The document is written as it was when it was read.
WriteDecisions(c) ==
  /\ assetAt[c] = "write"
  /\ decided' = draft[c]
  /\ draft' = [draft EXCEPT ![c] = NoDraft]
  /\ wanted' = [wanted EXCEPT ![c] = NoAssetRequest]
  /\ assetAt' = [assetAt EXCEPT ![c] = "done"]
  /\ UNCHANGED <<pictured, crops, pending, disturbed>>

-----------------------------------------------------------------------------
\* recropProjectAsset.

Recrop(c, x, p) ==
  /\ AssetCallBegins(c) /\ x \in pictured
  /\ wanted' = [wanted EXCEPT ![c] = [NoAssetRequest EXCEPT !.picture = x, !.point = p]]
  /\ assetAt' = [assetAt EXCEPT ![c] = "crop"]
  /\ UNCHANGED <<pictured, decided, crops, draft, pending>>

\* The files are on disk before the call goes on.
CropsLand(c) ==
  /\ assetAt[c] = "crop"
  /\ crops' = [crops EXCEPT ![wanted[c].picture] = wanted[c].point]
  /\ assetAt' = [assetAt EXCEPT ![c] = "cropped"]
  /\ UNCHANGED <<pictured, decided, wanted, draft, pending, disturbed>>

\* The verdict stays, agreement with the crops does not; a picture nobody has
\* decided about is recorded as approved, with no declaration.
Framed(entry, p) ==
  IF entry.recorded THEN [entry EXCEPT !.point = p, !.agreed = FALSE, !.saw = NoCrop]
  ELSE [Undecided EXCEPT !.recorded = TRUE, !.publish = TRUE, !.point = p]

Recropped(c) ==
  /\ assetAt[c] = "cropped"
  /\ LET x == wanted[c].picture
     IN HoldsDraft(c, [decided EXCEPT ![x] = Framed(@, wanted[c].point)])
  /\ UNCHANGED <<pictured, decided, crops, wanted, pending, disturbed>>

-----------------------------------------------------------------------------
\* ingestSources with a picture in it, and replaceProjectAsset around it.

Ingests(c, request) ==
  /\ AssetCallBegins(c)
  /\ wanted' = [wanted EXCEPT ![c] = request]
  /\ assetAt' = [assetAt EXCEPT ![c] = "normalise"]
  /\ UNCHANGED <<pictured, decided, crops, draft, pending>>

IngestPicture(c, x) == Ingests(c, [NoAssetRequest EXCEPT !.picture = x])

ReplacePicture(c, old, x, declares) ==
  /\ old \in pictured
  /\ Ingests(c, [NoAssetRequest EXCEPT !.picture = x, !.retires = old, !.declared = declares])

\* The derived files are made again, by the heuristic.
VariantsLand(c) ==
  /\ assetAt[c] = "normalise"
  /\ crops' = [crops EXCEPT ![wanted[c].picture] = Attention]
  /\ assetAt' = [assetAt EXCEPT ![c] = "normalised"]
  /\ UNCHANGED <<pictured, decided, wanted, draft, pending, disturbed>>

\* A source of the request cannot be normalised, or another crop not be made:
\* the call ends here, with files it has made and nothing recorded of them.
CallFails(c) ==
  /\ assetAt[c] \in {"cropped", "normalised", "reapply"}
  /\ pending' = [pending EXCEPT ![c] = {}]
  /\ assetAt' = [assetAt EXCEPT ![c] = "done"]
  /\ wanted' = [wanted EXCEPT ![c] = NoAssetRequest]
  /\ disturbed' = TRUE
  /\ UNCHANGED <<pictured, decided, crops, draft>>

\* Mutant: only the framing of new pictures is looked up.
RecordedPointsOfOthers(pictures) ==
  {f \in (pictures \ pictured) \X Point : decided[f[1]].point = f[2]}

RecordedPoints(pictures) ==
  {f \in pictures \X Point : decided[f[1]].point = f[2]}

\* The pack is written, and reapplyAssetFocalPoints reads the decisions.
PackAttached(c) ==
  /\ assetAt[c] = "normalised"
  /\ pictured' = pictured \cup {wanted[c].picture}
  /\ pending' = [pending EXCEPT ![c] = RecordedPoints(pictured \cup {wanted[c].picture})]
  /\ assetAt' = [assetAt EXCEPT ![c] = "reapply"]
  /\ UNCHANGED <<decided, crops, wanted, draft, disturbed>>

Reapply(c, f) ==
  /\ assetAt[c] = "reapply" /\ f \in pending[c]
  /\ crops' = [crops EXCEPT ![f[1]] = f[2]]
  /\ pending' = [pending EXCEPT ![c] = @ \ {f}]
  /\ UNCHANGED <<pictured, decided, assetAt, wanted, draft, disturbed>>

Reapplied(c) == assetAt[c] = "reapply" /\ pending[c] = {}

\* Mutant: what replaces an approved picture needs no declaration.
MayReplaceApproved(request) ==
  request.picture # request.retires
  /\ \/ \E old \in pictured : old = request.retires /\ decided[old].publish
     \/ MayApprove(request.picture, request.declared)

\* A replacement that may not be approved, or is the same picture, throws: but
\* it has been ingested.
MayReplace(request) == request.picture # request.retires
                       /\ MayApprove(request.picture, request.declared)

IngestionEnds(c) ==
  /\ Reapplied(c) /\ (wanted[c].retires = Nowhere \/ ~MayReplace(wanted[c]))
  /\ assetAt' = [assetAt EXCEPT ![c] = "done"]
  /\ wanted' = [wanted EXCEPT ![c] = NoAssetRequest]
  /\ UNCHANGED <<pictured, decided, crops, draft, pending, disturbed>>

Retired(entry) == [entry EXCEPT !.recorded = TRUE, !.publish = FALSE, !.stated = TRUE]

\* The new picture inherits nothing from the one it replaces.
Replaced(c) ==
  /\ Reapplied(c) /\ wanted[c].retires # Nowhere /\ MayReplace(wanted[c])
  /\ HoldsDraft(c, [decided EXCEPT ![wanted[c].retires] = Retired(@),
                              ![wanted[c].picture] =
                                Decision(wanted[c].picture, TRUE, wanted[c].declared, FALSE)])
  /\ UNCHANGED <<pictured, decided, crops, wanted, pending, disturbed>>

-----------------------------------------------------------------------------
AssetStep(c) ==
  \/ \E x \in Picture :
       \/ \E publishes, declares, agrees \in BOOLEAN : Decide(c, x, publishes, declares, agrees)
       \/ ClearDecision(c, x)
       \/ \E p \in Point : Recrop(c, x, p)
       \/ IngestPicture(c, x)
       \/ \E old \in Picture, declares \in BOOLEAN : ReplacePicture(c, old, x, declares)
  \/ WriteDecisions(c) \/ CropsLand(c) \/ Recropped(c)
  \/ VariantsLand(c) \/ CallFails(c) \/ PackAttached(c)
  \/ \E f \in Picture \X Point : Reapply(c, f)
  \/ IngestionEnds(c) \/ Replaced(c)

AssetNext == \E c \in AssetCall : AssetStep(c)

AssetSpec == AssetInit /\ [][AssetNext]_assetVars

-----------------------------------------------------------------------------
\* Properties.

\* publishableAssets: the decision goes before what the source allows.
Publishes(x) == IF decided[x].recorded THEN decided[x].publish ELSE x \in Licensed

\* materializeAssets: the crops ship once somebody has agreed with them.
ShipsCrops(x) == x \in pictured /\ Publishes(x) /\ decided[x].agreed

AtRest == \A c \in AssetCall : ~InFlight(c)

\* A picture of an unlicensed source that a person approved, by a decision or
\* as a replacement, has a declaration of rights of its own, whichever document
\* a call held when another wrote.  An approval that a new framing records for
\* a picture nobody has decided about has none.
ApprovalIsDeclared ==
  \A x \in Picture : decided[x].stated /\ decided[x].publish => MayApprove(x, decided[x].declared)

\* The crops on disk are framed where the record says, after any sequence of
\* decisions, framings, ingestions and replacements of which no two overlap
\* and none fails after it has made files.
CropsFollowRecord ==
  AtRest /\ ~disturbed =>
    \A x \in pictured : decided[x].point # Nowhere => crops[x] = decided[x].point

\* "Smart crops ... ship only once someone has looked at them": the crops that
\* ship are framed as they were when somebody agreed with them.
CropsShipAsSeen ==
  AtRest /\ ~disturbed => \A x \in Picture : ShipsCrops(x) => crops[x] = decided[x].saw

===============================================================================
