---------------------------- MODULE UploadsProofs ----------------------------
(* Proofs about Uploads, for any number of requests and users. *)
EXTENDS Uploads, TLAPS

-----------------------------------------------------------------------------
(* Type correctness                                                        *)

\* carried holds one row because a token names one row, and a token names one
\* row because a request holds its photo once, in its last step.
RowsUnique ==
    /\ \A x, y \in pending : x.name = y.name => x = y
    /\ \A x \in pending : pc[x.name] = "done"

TypeInv == TypeOK /\ RowsUnique

LEMMA TypeInit == Init => TypeInv
<1> SUFFICES ASSUME Init PROVE TypeInv
  OBVIOUS
<1>1. sweeping \in BOOLEAN
  BY Zenon DEF Init
<1>2. ok \in [Request -> BOOLEAN]
  BY Zenon DEF Init
<1>3. pc \in [Request -> PC] /\ carried \in [Request -> SUBSET Row]
  BY DEF Init, PC
<1> QED
  BY <1>1, <1>2, <1>3 DEF Init, TypeInv, TypeOK, RowsUnique

LEMMA TypeNext == TypeInv /\ [Next]_vars => TypeInv'
<1> SUFFICES ASSUME TypeInv, [Next]_vars PROVE TypeInv'
  OBVIOUS
<1> USE UploadsAssumption DEF TypeInv, TypeOK, RowsUnique, PC, Awaiting, Running, Over
<1>1. ASSUME NEW r \in Request, NEW token \in Request,
             NEW valid \in BOOLEAN, NEW hasFile \in BOOLEAN,
             Submit(r, token, valid, hasFile)
      PROVE  TypeInv'
  <2> DEFINE found == GetPendingPhoto(token, Submitter[r])
  <2>1. found \subseteq pending /\ \A x, y \in found : x = y
    BY DEF GetPendingPhoto
  <2>2. carried' \in [Request -> SUBSET Row]
    BY <1>1, <2>1 DEF Submit
  <2>3. \A q \in Request : \A x, y \in carried'[q] : x = y
    BY <1>1, <2>1 DEF Submit
  <2>4. pc' \in [Request -> PC] /\ \A q \in Request : pc[q] = "done" => pc'[q] = "done"
    BY <1>1 DEF Submit, Goto
  <2>5. ok' \in [Request -> BOOLEAN]
    BY <1>1 DEF Submit
  <2> QED
    BY <1>1, <2>2, <2>3, <2>4, <2>5 DEF Submit, database, sweeper, tool, environment, Row
<1>2. ASSUME NEW r \in Request, Step(r) PROVE TypeInv'
  <2>1. CASE RejectPhoto(r)
    BY <2>1 DEF RejectPhoto, Goto, database, sweeper, tool, environment
  <2>2. CASE WriteTemp(r)
    BY <2>2 DEF WriteTemp, Goto, database, sweeper, tool, environment
  <2>3. CASE RenameTemp(r)
    BY <2>3 DEF RenameTemp, Goto, database, sweeper, tool, environment
  <2>4. CASE StoreFails(r)
    BY <2>4 DEF StoreFails, Unlink, Goto, database, sweeper, tool, environment
  <2>5. CASE DiscardPendingPhoto(r)
    <3>1. pending' \subseteq pending
      BY <2>5 DEF DiscardPendingPhoto, DeleteRowOf
    <3>2. pc' \in [Request -> PC] /\ \A q \in Request : pc[q] = "done" => pc'[q] = "done"
      BY <2>5 DEF DiscardPendingPhoto, Goto
    <3> QED
      BY <2>5, <3>1, <3>2 DEF DiscardPendingPhoto, sweeper, tool, environment, Row
  <2>6. CASE UnlinkDiscarded(r)
    BY <2>6 DEF UnlinkDiscarded, Unlink, Goto, database, sweeper, tool, environment
  <2>7. CASE HoldForRetry(r)
    BY <2>7 DEF HoldForRetry, CreatePendingPhoto, Row, Goto, sweeper, tool, environment
  <2>8. CASE HoldFails(r)
    BY <2>8 DEF HoldFails, Unlink, Goto, database, sweeper, tool, environment
  <2>9. CASE CreateSurvey(r)
    BY <2>9 DEF CreateSurvey, Goto, sweeper, tool, environment
  <2>10. CASE AddPhoto(r)
    BY <2>10 DEF AddPhoto, PhotoToAttach, Names, Photo, Row, Goto, sweeper, tool, environment
  <2>11. CASE ConsumeCarried(r)
    BY <2>11 DEF ConsumeCarried, ConsumePendingPhoto, Goto, sweeper, tool, environment
  <2>12. CASE StatementFails(r)
    BY <2>12 DEF StatementFails, Goto, database, sweeper, tool, environment
  <2> QED
    BY <1>2, <2>1, <2>2, <2>3, <2>4, <2>5, <2>6, <2>7, <2>8, <2>9, <2>10,
       <2>11, <2>12 DEF Step
<1>3. CASE Prune
  <2>1. CASE PruneSelect BY <2>1 DEF PruneSelect, database, handlers, tool, environment
  <2>2. CASE PruneUnlink BY <2>2 DEF PruneUnlink, Unlink, database, handlers, tool, environment
  <2>3. CASE PruneDelete BY <2>3 DEF PruneDelete, handlers, tool, environment
  <2>4. CASE PruneDeleteFails BY <2>4 DEF PruneDeleteFails, database, handlers, tool, environment
  <2> QED BY <1>3, <2>1, <2>2, <2>3, <2>4 DEF Prune
<1>4. CASE Tool
  BY <1>4 DEF Tool, ToolList, ToolReadPhotos, ToolReadPending, ToolUnlink, Unlink,
     ToolStep, database, handlers, sweeper, environment
<1>5. CASE Tick
  BY <1>5 DEF Tick, database, handlers, sweeper, tool, environment
<1>6. CASE Crash
  <2>1. pc' \in [Request -> PC] /\ \A q \in Request : pc[q] = "done" => pc'[q] = "done"
    BY <1>6 DEF Crash, InFlight
  <2>2. sweeping' \in BOOLEAN
    BY <1>6, Zenon DEF Crash
  <2> QED
    BY <1>6, <2>1, <2>2 DEF Crash, database, tool, environment, Row
<1>7. CASE UNCHANGED vars
  BY <1>7 DEF vars, database, handlers, sweeper, tool, environment
<1> QED BY <1>1, <1>2, <1>3, <1>4, <1>5, <1>6, <1>7 DEF Next

\* Every variable of the upload machinery keeps its type, whatever the faults:
\* in particular getPendingPhoto finds at most one row.
THEOREM TypeCorrect == SafeSpec => []TypeOK
<1>1. TypeInv => TypeOK BY DEF TypeInv
<1> QED BY <1>1, TypeInit, TypeNext, PTL DEF SafeSpec

-----------------------------------------------------------------------------
(* What the environment may do does not change during a behaviour.          *)

LEMMA FaultsFixed == [Next]_vars => faults' = faults
<1> SUFFICES ASSUME [Next]_vars PROVE faults' = faults
  OBVIOUS
<1> QED
  BY DEF Next, Submit, Step, RejectPhoto, WriteTemp, RenameTemp, StoreFails, Unlink,
     DiscardPendingPhoto, UnlinkDiscarded, HoldForRetry, HoldFails, CreateSurvey,
     AddPhoto, ConsumeCarried, StatementFails, Prune, PruneSelect, PruneUnlink,
     PruneDelete, PruneDeleteFails, Tool, ToolList, ToolReadPhotos, ToolReadPending,
     ToolUnlink, Tick, Crash, vars, environment

-----------------------------------------------------------------------------
(* Whose photo it is                                                       *)

\* A pending row and a carried row belong to the user who uploaded the file, and
\* a handler only carries rows of the user it serves.
OwnedRows ==
    /\ \A x \in pending : Submitter[x.name] = x.user
    /\ \A r \in Request : \A x \in carried[r] :
          x.user = Submitter[r] /\ Submitter[x.name] = x.user

OwnerInv == TypeInv /\ OwnedRows /\ PhotoFromItsSubmitter

LEMMA OwnerInit == Init => OwnerInv
BY TypeInit DEF Init, OwnerInv, OwnedRows, PhotoFromItsSubmitter

LEMMA OwnerNext == OwnerInv /\ [Next]_vars => OwnerInv'
<1> SUFFICES ASSUME OwnerInv, [Next]_vars PROVE OwnerInv'
  OBVIOUS
<1>0. TypeInv'
  BY TypeNext DEF OwnerInv
<1> SUFFICES (OwnedRows /\ PhotoFromItsSubmitter)'
  BY <1>0 DEF OwnerInv
<1> USE UploadsAssumption DEF OwnerInv, OwnedRows, PhotoFromItsSubmitter, TypeInv, TypeOK
<1>1. ASSUME UNCHANGED <<pending, carried, photos>>
      PROVE  (OwnedRows /\ PhotoFromItsSubmitter)'
  BY <1>1
<1>2. ASSUME NEW r \in Request, NEW token \in Request,
             NEW valid \in BOOLEAN, NEW hasFile \in BOOLEAN,
             Submit(r, token, valid, hasFile)
      PROVE  (OwnedRows /\ PhotoFromItsSubmitter)'
  BY <1>2 DEF Submit, GetPendingPhoto, database
<1>3. ASSUME NEW r \in Request, DiscardPendingPhoto(r)
      PROVE  (OwnedRows /\ PhotoFromItsSubmitter)'
  <2>1. pending' \subseteq pending
    BY <1>3 DEF DiscardPendingPhoto, DeleteRowOf
  <2> QED
    BY <1>3, <2>1 DEF DiscardPendingPhoto
<1>4. ASSUME NEW r \in Request, UnlinkDiscarded(r)
      PROVE  (OwnedRows /\ PhotoFromItsSubmitter)'
  BY <1>4 DEF UnlinkDiscarded, Unlink, database
<1>5. ASSUME NEW r \in Request, HoldForRetry(r)
      PROVE  (OwnedRows /\ PhotoFromItsSubmitter)'
  BY <1>5 DEF HoldForRetry, CreatePendingPhoto
<1>6. ASSUME NEW r \in Request, AddPhoto(r)
      PROVE  (OwnedRows /\ PhotoFromItsSubmitter)'
  BY <1>6 DEF AddPhoto, PhotoToAttach, Names, Row
<1>7. ASSUME NEW r \in Request, ConsumeCarried(r)
      PROVE  (OwnedRows /\ PhotoFromItsSubmitter)'
  BY <1>7 DEF ConsumeCarried, ConsumePendingPhoto
<1>8. CASE PruneDelete
  BY <1>8 DEF PruneDelete, handlers
<1>9. ASSUME NEW r \in Request, Step(r)
      PROVE  (OwnedRows /\ PhotoFromItsSubmitter)'
  BY <1>1, <1>3, <1>4, <1>5, <1>6, <1>7, <1>9
     DEF Step, RejectPhoto, WriteTemp, RenameTemp, StoreFails, Unlink, HoldFails,
         CreateSurvey, StatementFails, database
<1>10. CASE Prune
  BY <1>1, <1>8, <1>10
     DEF Prune, PruneSelect, PruneUnlink, Unlink, PruneDeleteFails, database, handlers
<1>11. CASE Tool \/ Tick \/ Crash \/ UNCHANGED vars
  BY <1>1, <1>11 DEF Tool, ToolList, ToolReadPhotos, ToolReadPending, ToolUnlink, Unlink,
     Tick, Crash, vars, database, handlers
<1> QED
  BY <1>2, <1>9, <1>10, <1>11 DEF Next

\* Whatever crashes, failures and repeated submissions there are, a photo is only
\* attached to a survey of the user who uploaded it.
THEOREM OwnerCorrect == SafeSpec => []PhotoFromItsSubmitter
<1>1. OwnerInv => PhotoFromItsSubmitter BY DEF OwnerInv
<1> QED BY <1>1, OwnerInit, OwnerNext, PTL DEF SafeSpec

-----------------------------------------------------------------------------
(* The held photo is there                                                 *)

\* A row that a handler carries or the sweep has selected was written by a
\* finished request, and no later row has its name.
PastRows ==
    /\ \A r \in Request : \A c \in carried[r] :
          /\ pc[c.name] = "done"
          /\ \A x \in pending : x.name = c.name => x = c
    /\ \A x \in sweep : pc[x.name] = "done"

\* From its rename until it has recorded the photo a handler's own file exists.
OwnFileOnDisk ==
    /\ \A r \in stored : pc[r] \notin {"idle", "receiving", "written", "renamed"}
    /\ \A r \in Request : pc[r] \in {"renamed", "unlinkOld"} => r \in disk
    /\ \A r \in stored : pc[r] \in {"decide", "attach"} => r \in disk

\* A file about to be unlinked has no row that still works.
UnlinksAreDue ==
    /\ \A r \in Request : pc[r] = "unlinkOld" =>
          \A c \in carried[r] : \A x \in pending : x.name # c.name
    /\ \A s \in sweep : \A x \in pending : x.name = s.name => x.expires <= now

HeldInv ==
    /\ TypeInv
    /\ toolPc = "off"
    /\ PastRows
    /\ OwnFileOnDisk
    /\ UnlinksAreDue
    /\ LivePendingOnDisk

LEMMA HeldInit == Init => HeldInv
BY TypeInit DEF Init, HeldInv, PastRows, OwnFileOnDisk, UnlinksAreDue, LivePendingOnDisk

LEMMA HeldNext == "tool" \notin faults /\ HeldInv /\ [Next]_vars => HeldInv'
<1> SUFFICES ASSUME "tool" \notin faults, HeldInv, [Next]_vars PROVE HeldInv'
  OBVIOUS
<1>0. TypeInv'
  BY TypeNext DEF HeldInv
<1> DEFINE Rest == /\ toolPc = "off" /\ PastRows /\ OwnFileOnDisk
                   /\ UnlinksAreDue /\ LivePendingOnDisk
<1> SUFFICES Rest'
  BY <1>0 DEF HeldInv
<1> USE UploadsAssumption, <1>0
    DEF HeldInv, TypeInv, TypeOK, RowsUnique, PastRows, OwnFileOnDisk,
        UnlinksAreDue, LivePendingOnDisk, Goto, Names, Row
<1>1. ASSUME NEW r \in Request, NEW token \in Request,
             NEW valid \in BOOLEAN, NEW hasFile \in BOOLEAN,
             Submit(r, token, valid, hasFile)
      PROVE  Rest'
  BY <1>1 DEF Submit, GetPendingPhoto, database, sweeper, tool, environment
<1>2. ASSUME NEW r \in Request, Step(r) PROVE Rest'
  <2>1. CASE RejectPhoto(r)
    BY <2>1 DEF RejectPhoto, database, sweeper, tool, environment
  <2>2. CASE WriteTemp(r)
    BY <2>2 DEF WriteTemp, database, sweeper, tool, environment
  <2>3. CASE RenameTemp(r)
    BY <2>3 DEF RenameTemp, database, sweeper, tool, environment
  <2>4. CASE StoreFails(r)
    BY <2>4 DEF StoreFails, Unlink, database, sweeper, tool, environment
  <2>5. CASE DiscardPendingPhoto(r)
    BY <2>5 DEF DiscardPendingPhoto, DeleteRowOf, database, sweeper, tool, environment
  <2>6. CASE UnlinkDiscarded(r)
    BY <2>6 DEF UnlinkDiscarded, Unlink, database, sweeper, tool, environment
  <2>7. CASE HoldForRetry(r)
    BY <2>7 DEF HoldForRetry, CreatePendingPhoto, database, sweeper, tool, environment
  <2>8. CASE HoldFails(r)
    BY <2>8 DEF HoldFails, Unlink, database, sweeper, tool, environment
  <2>9. CASE CreateSurvey(r)
    BY <2>9 DEF CreateSurvey, database, sweeper, tool, environment
  <2>10. CASE AddPhoto(r)
    BY <2>10 DEF AddPhoto, database, sweeper, tool, environment
  <2>11. CASE ConsumeCarried(r)
    BY <2>11 DEF ConsumeCarried, ConsumePendingPhoto, database, sweeper, tool, environment
  <2>12. CASE StatementFails(r)
    BY <2>12 DEF StatementFails, database, sweeper, tool, environment
  <2> QED
    BY <1>2, <2>1, <2>2, <2>3, <2>4, <2>5, <2>6, <2>7, <2>8, <2>9, <2>10,
       <2>11, <2>12 DEF Step
<1>3. CASE PruneSelect
  BY <1>3 DEF PruneSelect, database, handlers, tool, environment
<1>4. CASE PruneUnlink
  BY <1>4 DEF PruneUnlink, Unlink, database, handlers, tool, environment
<1>5. CASE PruneDelete
  BY <1>5 DEF PruneDelete, handlers, tool, environment
<1>6. CASE Tool
  BY <1>6 DEF Tool, ToolList, ToolReadPhotos, ToolReadPending, ToolUnlink, Unlink, ToolStep
<1>7. CASE Tick
  BY <1>7 DEF Tick, database, handlers, sweeper, tool, environment
<1>8. CASE Crash
  BY <1>8 DEF Crash, InFlight, Awaiting, Running, database, tool, environment
<1>9. CASE UNCHANGED vars
  BY <1>9 DEF vars, database, handlers, sweeper, tool, environment
<1>10. CASE PruneDeleteFails
  BY <1>10 DEF PruneDeleteFails, database, handlers, tool, environment
<1> QED
  BY <1>1, <1>2, <1>3, <1>4, <1>5, <1>6, <1>7, <1>8, <1>9, <1>10 DEF Next, Prune

\* As long as prune-orphans does not delete beside a live server, a token that
\* still works always finds its file: crashes, failed statements, failed writes,
\* repeated submissions and clock steps included.
THEOREM HeldPhotoIsThere == SafeSpec => []LivePendingOnDisk
<1> DEFINE Inv == "tool" \notin faults => HeldInv
<1>1. Inv => LivePendingOnDisk BY DEF HeldInv, LivePendingOnDisk
<1>2. Inv /\ [Next]_vars => Inv' BY HeldNext, FaultsFixed
<1>3. Init => Inv BY HeldInit
<1> QED BY <1>1, <1>2, <1>3, PTL DEF SafeSpec

-----------------------------------------------------------------------------
(* The attached photo stays                                                *)

\* JavaScript runs one stretch at a time.
OneThread ==
    /\ \A r, q \in Request : pc[r] \in Running /\ pc[q] \in Running => r = q
    /\ sweeping => \A r \in Request : pc[r] \notin Running

\* No two requests in flight carry the same photo.
SeparateTokens ==
    \A r, q \in Request : InFlight(r) /\ InFlight(q) /\ r # q =>
        \A c \in carried[r], d \in carried[q] : c.name # d.name

\* A photo is in both tables only between addPhoto and consumePendingPhoto.
Handover ==
    /\ \A p \in photos : pc[p.name] = "done"
    /\ \A x \in pending, p \in photos : p.name = x.name =>
          pc[p.survey] = "consume" /\ x \in carried[p.survey]

\* What a handler may discard is not attached; what it may attach is still held.
CarriedIsFree ==
    \A r \in Request : \A c \in carried[r] :
        /\ pc[r] \in {"receiving", "written", "renamed", "unlinkOld"} =>
              \A p \in photos : p.name # c.name
        /\ r \notin stored /\ ((pc[r] = "decide" /\ ok[r]) \/ pc[r] = "attach") =>
              c \in pending /\ c.name \in disk

SweepIsPending ==
    /\ sweep \subseteq pending
    /\ ~sweeping => sweep = {}

\* A handler that committed a survey attaches the photo it has, and has.
SurveyInv ==
    /\ \A r \in Request : pc[r] = "attach" => r \in stored \/ carried[r] # {}
    /\ \A r \in surveys :
        /\ pc[r] \in {"attach", "consume", "done"}
        /\ pc[r] # "attach" /\ (r \in stored \/ carried[r] # {}) =>
              \E p \in photos : p.survey = r

AttachInv ==
    /\ HeldInv
    /\ OneThread /\ SeparateTokens /\ Handover /\ CarriedIsFree /\ SweepIsPending
    /\ SurveyInv
    /\ AttachedOnDisk

LEMMA AttachInit == Init => AttachInv
BY HeldInit DEF Init, AttachInv, OneThread, SeparateTokens, Handover, CarriedIsFree,
   SweepIsPending, SurveyInv, AttachedOnDisk, AttachedNames, Running, InFlight, Awaiting

LEMMA AttachNext == NormalService /\ AttachInv /\ [Next]_vars => AttachInv'
<1> SUFFICES ASSUME NormalService, AttachInv, [Next]_vars PROVE AttachInv'
  OBVIOUS
<1>0. HeldInv'
  BY HeldNext DEF AttachInv, NormalService
<1> DEFINE Rest == /\ OneThread /\ SeparateTokens /\ Handover /\ CarriedIsFree
                   /\ SweepIsPending /\ SurveyInv /\ AttachedOnDisk
<1> SUFFICES Rest'
  BY <1>0 DEF AttachInv
<1> USE UploadsAssumption
    DEF NormalService, AttachInv, HeldInv, TypeInv, TypeOK, RowsUnique, PastRows,
        OwnFileOnDisk, LivePendingOnDisk, UnlinksAreDue, OneThread, SeparateTokens, Handover,
        CarriedIsFree, SweepIsPending, SurveyInv, AttachedOnDisk, AttachedNames,
        InFlight, Running, Awaiting, LoopFree, Goto, Names, Row, Photo
<1>1. ASSUME NEW r \in Request, NEW token \in Request,
             NEW valid \in BOOLEAN, NEW hasFile \in BOOLEAN,
             Submit(r, token, valid, hasFile)
      PROVE  Rest'
  <2>1. OneThread'
    BY <1>1 DEF Submit, GetPendingPhoto, database, sweeper, tool, environment
  <2>2. SeparateTokens'
    BY <1>1 DEF Submit, GetPendingPhoto, database, sweeper, tool, environment
  <2>3. Handover'
    BY <1>1 DEF Submit, GetPendingPhoto, database, sweeper, tool, environment
  <2>4. CarriedIsFree'
    BY <1>1 DEF Submit, GetPendingPhoto, database, sweeper, tool, environment
  <2>5. SweepIsPending'
    BY <1>1 DEF Submit, GetPendingPhoto, database, sweeper, tool, environment
  <2>6. SurveyInv'
    BY <1>1 DEF Submit, GetPendingPhoto, database, sweeper, tool, environment
  <2>7. AttachedOnDisk'
    BY <1>1 DEF Submit, GetPendingPhoto, database, sweeper, tool, environment
  <2> QED BY <2>1, <2>2, <2>3, <2>4, <2>5, <2>6, <2>7
<1>2. ASSUME NEW r \in Request, Step(r) PROVE Rest'
  <2>1. CASE RejectPhoto(r)
    BY <2>1 DEF RejectPhoto, database, sweeper, tool, environment
  <2>2. CASE WriteTemp(r)
    BY <2>2 DEF WriteTemp, database, sweeper, tool, environment
  <2>3. CASE RenameTemp(r)
    BY <2>3 DEF RenameTemp, database, sweeper, tool, environment
  <2>4. CASE StoreFails(r)
    BY <2>4 DEF StoreFails, Unlink, database, sweeper, tool, environment
  <2>5. CASE DiscardPendingPhoto(r)
    <3>1. OneThread'
      BY <2>5 DEF DiscardPendingPhoto, DeleteRowOf, database, sweeper, tool, environment
    <3>2. SeparateTokens'
      BY <2>5 DEF DiscardPendingPhoto, DeleteRowOf, database, sweeper, tool, environment
    <3>3. Handover'
      BY <2>5 DEF DiscardPendingPhoto, DeleteRowOf, database, sweeper, tool, environment
    <3>4. CarriedIsFree'
      BY <2>5 DEF DiscardPendingPhoto, DeleteRowOf, database, sweeper, tool, environment
    <3>5. SweepIsPending'
      BY <2>5 DEF DiscardPendingPhoto, DeleteRowOf, database, sweeper, tool, environment
    <3>6. SurveyInv'
      BY <2>5 DEF DiscardPendingPhoto, DeleteRowOf, database, sweeper, tool, environment
    <3>7. AttachedOnDisk'
      BY <2>5 DEF DiscardPendingPhoto, DeleteRowOf, database, sweeper, tool, environment
    <3> QED BY <3>1, <3>2, <3>3, <3>4, <3>5, <3>6, <3>7
  <2>6. CASE UnlinkDiscarded(r)
    BY <2>6 DEF UnlinkDiscarded, Unlink, database, sweeper, tool, environment
  <2>7. CASE HoldForRetry(r)
    BY <2>7 DEF HoldForRetry, CreatePendingPhoto, database, sweeper, tool, environment
  <2>8. CASE HoldFails(r)
    BY <2>8 DEF HoldFails, Unlink, database, sweeper, tool, environment
  <2>9. CASE CreateSurvey(r)
    BY <2>9 DEF CreateSurvey, database, sweeper, tool, environment
  <2>10. CASE AddPhoto(r)
    <3>1. OneThread'
      BY <2>10 DEF AddPhoto, PhotoToAttach, database, sweeper, tool, environment
    <3>2. SeparateTokens'
      BY <2>10 DEF AddPhoto, PhotoToAttach, database, sweeper, tool, environment
    <3>3. Handover'
      BY <2>10 DEF AddPhoto, PhotoToAttach, database, sweeper, tool, environment
    <3>4. CarriedIsFree'
      BY <2>10 DEF AddPhoto, PhotoToAttach, database, sweeper, tool, environment
    <3>5. SweepIsPending'
      BY <2>10 DEF AddPhoto, PhotoToAttach, database, sweeper, tool, environment
    <3>a. PhotoToAttach(r) \cap AttachedNames = {} /\ PhotoToAttach(r) \subseteq disk
      BY <2>10 DEF AddPhoto, PhotoToAttach
    <3>b. PhotoToAttach(r) # {} /\ PhotoToAttach(r) \subseteq Request
      BY <2>10 DEF AddPhoto, PhotoToAttach
    <3>c. photos' = photos \cup [name : PhotoToAttach(r), survey : {r}]
      BY <2>10, <3>a DEF AddPhoto
    <3>6. SurveyInv'
      <4>1. \E p \in photos' : p.survey = r
        <5>1. PICK f \in PhotoToAttach(r) : TRUE
          BY <3>b
        <5>2. [name |-> f, survey |-> r] \in photos'
          BY <3>c, <5>1
        <5> QED BY <5>2
      <4>2. pc'[r] \in {"consume", "done"} /\ \A q \in Request \ {r} : pc'[q] = pc[q]
        BY <2>10, <3>a DEF AddPhoto
      <4> QED
        BY <2>10, <3>c, <4>1, <4>2 DEF AddPhoto
    <3>7. AttachedOnDisk'
      BY <2>10, <3>a, <3>c DEF AddPhoto
    <3> QED BY <3>1, <3>2, <3>3, <3>4, <3>5, <3>6, <3>7
  <2>11. CASE ConsumeCarried(r)
    BY <2>11 DEF ConsumeCarried, ConsumePendingPhoto, database, sweeper, tool, environment
  <2>12. CASE StatementFails(r)
    BY <2>12 DEF StatementFails, database, sweeper, tool, environment
  <2> QED
    BY <1>2, <2>1, <2>2, <2>3, <2>4, <2>5, <2>6, <2>7, <2>8, <2>9, <2>10,
       <2>11, <2>12 DEF Step
<1>3. CASE PruneSelect
  BY <1>3 DEF PruneSelect, database, handlers, tool, environment
<1>4. CASE PruneUnlink
  <2>1. OneThread'
    BY <1>4 DEF PruneUnlink, Unlink, database, handlers, tool, environment
  <2>2. SeparateTokens'
    BY <1>4 DEF PruneUnlink, Unlink, database, handlers, tool, environment
  <2>3. Handover'
    BY <1>4 DEF PruneUnlink, Unlink, database, handlers, tool, environment
  <2>4. CarriedIsFree'
    BY <1>4 DEF PruneUnlink, Unlink, database, handlers, tool, environment
  <2>5. SweepIsPending'
    BY <1>4 DEF PruneUnlink, Unlink, database, handlers, tool, environment
  <2>6. SurveyInv'
    BY <1>4 DEF PruneUnlink, Unlink, database, handlers, tool, environment
  <2>7. AttachedOnDisk'
    BY <1>4 DEF PruneUnlink, Unlink, database, handlers, tool, environment
  <2> QED BY <2>1, <2>2, <2>3, <2>4, <2>5, <2>6, <2>7
<1>5. CASE PruneDelete
  BY <1>5 DEF PruneDelete, handlers, tool, environment
<1>6. CASE Tool
  BY <1>6 DEF Tool, ToolList, ToolReadPhotos, ToolReadPending, ToolUnlink, Unlink, ToolStep
<1>7. CASE Tick
  BY <1>7 DEF Tick, database, handlers, sweeper, tool, environment
<1>8. CASE Crash
  BY <1>8 DEF Crash
<1>9. CASE UNCHANGED vars
  BY <1>9 DEF vars, database, handlers, sweeper, tool, environment
<1>10. CASE PruneDeleteFails
  BY <1>10 DEF PruneDeleteFails, database, handlers, tool, environment
<1>11. Next \/ UNCHANGED vars
  OBVIOUS
<1> HIDE DEF Rest, NormalService, AttachInv, HeldInv, TypeInv, TypeOK, RowsUnique,
    PastRows, OwnFileOnDisk, LivePendingOnDisk, UnlinksAreDue, OneThread,
    SeparateTokens, Handover, CarriedIsFree, SweepIsPending, SurveyInv,
    AttachedOnDisk, AttachedNames, InFlight, Running, Awaiting, LoopFree, Goto,
    Names, Row, Photo
<1> QED
  BY <1>1, <1>2, <1>3, <1>4, <1>5, <1>6, <1>7, <1>8, <1>9,
     <1>10, <1>11 DEF Next, Prune

LEMMA AttachInvariant == SafeSpec => [](NormalService => AttachInv)
<1> DEFINE Inv == NormalService => AttachInv
<1>1. Inv /\ [Next]_vars => Inv' BY AttachNext, FaultsFixed DEF NormalService
<1>2. Init => Inv BY AttachInit
<1> QED BY <1>1, <1>2, PTL DEF SafeSpec

\* In normal service the file of an attached photo is never deleted, however many
\* requests and sweeps interleave.
THEOREM AttachedPhotoStays == SafeSpec => []AttachedStaysInService
<1>1. (NormalService => AttachInv) => AttachedStaysInService
  BY DEF AttachInv, AttachedStaysInService
<1> QED BY <1>1, AttachInvariant, PTL

\* In normal service no survey is saved without the photo its request had.
THEOREM SurveyHasItsPhoto == SafeSpec => []NoSurveyWithoutItsPhoto
<1>1. (NormalService => AttachInv) => NoSurveyWithoutItsPhoto
  BY DEF AttachInv, SurveyInv, NoSurveyWithoutItsPhoto, InFlight, Awaiting, Running,
         HeldInv, TypeInv, TypeOK
<1> QED BY <1>1, AttachInvariant, PTL

-----------------------------------------------------------------------------
(* Nothing stays behind                                                    *)

\* A rowid names one row of the table as it is now.
UniqueIds == \A x, y \in pending : x.id = y.id => x = y

\* The row a handler carries across an await is in the table and still works.
CarriedLives ==
    \A r \in Request : pc[r] \in Awaiting =>
        \A c \in carried[r] : c \in pending /\ c.expires > now

\* A file is there because its own handler renamed it, and knows of it.
OwnFileFromRename == \A r \in disk : r \in stored \/ pc[r] = "renamed"

\* A holding row is consumed once its photo is attached.
ConsumedIsAttached ==
    \A r \in Request : pc[r] = "consume" =>
        r \notin stored /\ Names(carried[r]) \subseteq AttachedNames

\* The sweep has every expired row still to unlink, or has unlinked its file.
SweepIsComplete ==
    sweeping => \A x \in pending : x.expires <= now => x \in sweep \/ x.name \notin disk

LeftInv ==
    /\ UniqueIds /\ CarriedLives /\ OwnFileFromRename
    /\ ConsumedIsAttached /\ SweepIsComplete
    /\ NothingLeftBehind

LEMMA LeftInit == Init => LeftInv
BY DEF Init, LeftInv, UniqueIds, CarriedLives, OwnFileFromRename, ConsumedIsAttached,
   SweepIsComplete, NothingLeftBehind, Awaiting

LEMMA LeftNext == SteadyService /\ AttachInv /\ LeftInv /\ [Next]_vars => LeftInv'
<1> SUFFICES ASSUME SteadyService, AttachInv, LeftInv, [Next]_vars PROVE LeftInv'
  OBVIOUS
<1> USE UploadsAssumption
    DEF SteadyService, NormalService, AttachInv, HeldInv, TypeInv, TypeOK, RowsUnique,
        PastRows, OwnFileOnDisk, OneThread, SeparateTokens, Handover,
        CarriedIsFree, SweepIsPending, LeftInv, UniqueIds, CarriedLives,
        OwnFileFromRename, ConsumedIsAttached, SweepIsComplete, NothingLeftBehind,
        AttachedNames, InFlight, Running, Awaiting, LoopFree, Goto, Names, Row, Photo
<1>1. ASSUME NEW r \in Request, NEW token \in Request,
             NEW valid \in BOOLEAN, NEW hasFile \in BOOLEAN,
             Submit(r, token, valid, hasFile)
      PROVE  LeftInv'
  <2>1. UniqueIds'
    BY <1>1 DEF Submit, GetPendingPhoto, database, sweeper, tool, environment
  <2>2. CarriedLives'
    BY <1>1 DEF Submit, GetPendingPhoto, database, sweeper, tool, environment
  <2>3. OwnFileFromRename'
    BY <1>1 DEF Submit, GetPendingPhoto, database, sweeper, tool, environment
  <2>4. ConsumedIsAttached'
    BY <1>1 DEF Submit, GetPendingPhoto, database, sweeper, tool, environment
  <2>5. SweepIsComplete'
    BY <1>1 DEF Submit, GetPendingPhoto, database, sweeper, tool, environment
  <2>6. NothingLeftBehind'
    BY <1>1 DEF Submit, GetPendingPhoto, database, sweeper, tool, environment
  <2> QED BY <2>1, <2>2, <2>3, <2>4, <2>5, <2>6
<1>2. ASSUME NEW r \in Request, Step(r) PROVE LeftInv'
  <2>1. CASE RejectPhoto(r)
    BY <2>1 DEF RejectPhoto, database, sweeper, tool, environment
  <2>2. CASE WriteTemp(r)
    <3>a. pc'[r] = "written" /\ \A q \in Request \ {r} : pc'[q] = pc[q]
      BY <2>2 DEF WriteTemp
    <3>1. UniqueIds'
      BY <2>2, <3>a DEF WriteTemp, database, sweeper, tool, environment
    <3>2. CarriedLives'
      BY <2>2, <3>a DEF WriteTemp, database, sweeper, tool, environment
    <3>3. OwnFileFromRename'
      BY <2>2, <3>a DEF WriteTemp, database, sweeper, tool, environment
    <3>4. ConsumedIsAttached'
      <4>1. \A q \in Request : pc'[q] = "consume" => pc[q] = "consume"
        BY <3>a
      <4>2. UNCHANGED <<stored, carried, photos>>
        BY <2>2 DEF WriteTemp, database
      <4> QED BY <4>1, <4>2
    <3>5. SweepIsComplete'
      BY <2>2, <3>a DEF WriteTemp, database, sweeper, tool, environment
    <3>6. NothingLeftBehind'
      BY <2>2, <3>a DEF WriteTemp, database, sweeper, tool, environment
    <3> QED BY <3>1, <3>2, <3>3, <3>4, <3>5, <3>6
  <2>3. CASE RenameTemp(r)
    <3>a. pc'[r] = "renamed" /\ \A q \in Request \ {r} : pc'[q] = pc[q]
      BY <2>3 DEF RenameTemp
    <3>1. UniqueIds'
      BY <2>3, <3>a DEF RenameTemp, database, sweeper, tool, environment
    <3>2. CarriedLives'
      BY <2>3, <3>a DEF RenameTemp, database, sweeper, tool, environment
    <3>3. OwnFileFromRename'
      BY <2>3, <3>a DEF RenameTemp, database, sweeper, tool, environment
    <3>4. ConsumedIsAttached'
      BY <2>3, <3>a, SMTT(25) DEF RenameTemp, database, sweeper, tool, environment
    <3>5. SweepIsComplete'
      BY <2>3, <3>a DEF RenameTemp, database, sweeper, tool, environment
    <3>6. NothingLeftBehind'
      BY <2>3, <3>a DEF RenameTemp, database, sweeper, tool, environment
    <3> QED BY <3>1, <3>2, <3>3, <3>4, <3>5, <3>6
  <2>4. CASE StoreFails(r)
    BY <2>4 DEF StoreFails, Unlink, database, sweeper, tool, environment
  <2>5. CASE DiscardPendingPhoto(r)
    <3>1. UniqueIds'
      BY <2>5 DEF DiscardPendingPhoto, DeleteRowOf, database, sweeper, tool, environment
    <3>2. CarriedLives'
      BY <2>5 DEF DiscardPendingPhoto, DeleteRowOf, database, sweeper, tool, environment
    <3>3. OwnFileFromRename'
      BY <2>5 DEF DiscardPendingPhoto, DeleteRowOf, database, sweeper, tool, environment
    <3>4. ConsumedIsAttached'
      BY <2>5 DEF DiscardPendingPhoto, DeleteRowOf, database, sweeper, tool, environment
    <3>5. SweepIsComplete'
      BY <2>5 DEF DiscardPendingPhoto, DeleteRowOf, database, sweeper, tool, environment
    <3>6. NothingLeftBehind'
      BY <2>5 DEF DiscardPendingPhoto, DeleteRowOf, database, sweeper, tool, environment
    <3> QED BY <3>1, <3>2, <3>3, <3>4, <3>5, <3>6
  <2>6. CASE UnlinkDiscarded(r)
    <3>1. UniqueIds'
      BY <2>6 DEF UnlinkDiscarded, Unlink, database, sweeper, tool, environment
    <3>2. CarriedLives'
      BY <2>6 DEF UnlinkDiscarded, Unlink, database, sweeper, tool, environment
    <3>3. OwnFileFromRename'
      BY <2>6 DEF UnlinkDiscarded, Unlink, database, sweeper, tool, environment
    <3>4. ConsumedIsAttached'
      BY <2>6 DEF UnlinkDiscarded, Unlink, database, sweeper, tool, environment
    <3>5. SweepIsComplete'
      BY <2>6 DEF UnlinkDiscarded, Unlink, database, sweeper, tool, environment
    <3>6. NothingLeftBehind'
      BY <2>6 DEF UnlinkDiscarded, Unlink, database, sweeper, tool, environment
    <3> QED BY <3>1, <3>2, <3>3, <3>4, <3>5, <3>6
  <2>7. CASE HoldForRetry(r)
    <3>1. UniqueIds'
      BY <2>7 DEF HoldForRetry, CreatePendingPhoto, IsNextRowId, database, sweeper, tool, environment
    <3>2. CarriedLives'
      BY <2>7 DEF HoldForRetry, CreatePendingPhoto, IsNextRowId, database, sweeper, tool, environment
    <3>3. OwnFileFromRename'
      BY <2>7 DEF HoldForRetry, CreatePendingPhoto, IsNextRowId, database, sweeper, tool, environment
    <3>4. ConsumedIsAttached'
      BY <2>7 DEF HoldForRetry, CreatePendingPhoto, IsNextRowId, database, sweeper, tool, environment
    <3>5. SweepIsComplete'
      BY <2>7 DEF HoldForRetry, CreatePendingPhoto, IsNextRowId, database, sweeper, tool, environment
    <3>a. pc'[r] = "done" /\ \A q \in Request \ {r} : pc'[q] = pc[q]
      BY <2>7 DEF HoldForRetry
    <3>b. pending \subseteq pending' /\ (r \in disk => r \in Names(pending'))
      <4>1. CASE r \in stored
        <5>1. PICK id \in Nat :
                pending' = pending \cup
                  {[id |-> id, name |-> r, user |-> Submitter[r], expires |-> now + TTL]}
          BY <2>7, <4>1 DEF HoldForRetry, CreatePendingPhoto
        <5>2. [id |-> id, name |-> r, user |-> Submitter[r], expires |-> now + TTL].name = r
          OBVIOUS
        <5>3. r \in Names(pending')
          <6> DEFINE row == [id |-> id, name |-> r, user |-> Submitter[r],
                             expires |-> now + TTL]
          <6>1. row \in pending' /\ row.name = r
            BY <5>1, <5>2
          <6> HIDE DEF row
          <6> QED BY <6>1
        <5> QED BY <5>1, <5>3
      <4>2. CASE r \notin stored
        BY <2>7, <4>2 DEF HoldForRetry
      <4> QED BY <4>1, <4>2
    <3>6. NothingLeftBehind'
      BY <2>7, <3>a, <3>b DEF HoldForRetry, database, sweeper, tool, environment
    <3> QED BY <3>1, <3>2, <3>3, <3>4, <3>5, <3>6
  <2>8. CASE HoldFails(r)
    BY <2>8 DEF HoldFails, Unlink, database, sweeper, tool, environment
  <2>9. CASE CreateSurvey(r)
    BY <2>9 DEF CreateSurvey, database, sweeper, tool, environment
  <2>10. CASE AddPhoto(r)
    <3>a. PhotoToAttach(r) \cap AttachedNames = {}
      BY <2>10 DEF AddPhoto, PhotoToAttach
    <3>1. UniqueIds'
      BY <2>10, <3>a DEF AddPhoto, PhotoToAttach, database, sweeper, tool, environment
    <3>2. CarriedLives'
      BY <2>10, <3>a DEF AddPhoto, PhotoToAttach, database, sweeper, tool, environment
    <3>3. OwnFileFromRename'
      BY <2>10, <3>a DEF AddPhoto, PhotoToAttach, database, sweeper, tool, environment
    <3>b. pc'[r] = (IF r \in stored THEN "done" ELSE "consume")
          /\ \A q \in Request \ {r} : pc'[q] = pc[q]
      BY <2>10, <3>a DEF AddPhoto
    <3>c. photos' = photos \cup [name : PhotoToAttach(r), survey : {r}]
      BY <2>10, <3>a DEF AddPhoto
    <3>d. ASSUME NEW f \in PhotoToAttach(r) PROVE f \in AttachedNames'
      <4>1. [name |-> f, survey |-> r] \in photos'
        BY <3>c
      <4> QED BY <4>1
    <3>e. AttachedNames \subseteq AttachedNames'
      BY <3>c
    <3>4. ConsumedIsAttached'
      BY <2>10, <3>b, <3>d, <3>e DEF AddPhoto, PhotoToAttach, database
    <3>5. SweepIsComplete'
      BY <2>10, <3>a DEF AddPhoto, PhotoToAttach, database, sweeper, tool, environment
    <3>6. NothingLeftBehind'
      <4>1. UNCHANGED <<disk, temp, pending, carried, stored, faults>>
        BY <2>10 DEF AddPhoto, environment
      <4>2. r \in disk => r \in AttachedNames' \/ pc'[r] = "consume"
        BY <3>b, <3>d DEF PhotoToAttach
      <4>3. ASSUME NEW f \in disk, f # r
            PROVE  \/ f \in (AttachedNames \cup Names(pending))'
                   \/ InFlight(f)'
                   \/ \E q \in Request : pc'[q] = "unlinkOld" /\ f \in Names(carried[q])
        BY <2>10, <3>b, <3>e, <4>1, <4>3 DEF AddPhoto
      <4>4. \A f \in temp : pc'[f] = "written"
        BY <2>10, <3>b DEF AddPhoto
      <4> QED BY <4>1, <4>2, <4>3, <4>4
    <3> QED BY <3>1, <3>2, <3>3, <3>4, <3>5, <3>6
  <2>11. CASE ConsumeCarried(r)
    <3>1. UniqueIds'
      BY <2>11 DEF ConsumeCarried, ConsumePendingPhoto, database, sweeper, tool, environment
    <3>2. CarriedLives'
      BY <2>11 DEF ConsumeCarried, ConsumePendingPhoto, database, sweeper, tool, environment
    <3>3. OwnFileFromRename'
      BY <2>11 DEF ConsumeCarried, ConsumePendingPhoto, database, sweeper, tool, environment
    <3>4. ConsumedIsAttached'
      BY <2>11 DEF ConsumeCarried, ConsumePendingPhoto, database, sweeper, tool, environment
    <3>5. SweepIsComplete'
      BY <2>11 DEF ConsumeCarried, ConsumePendingPhoto, database, sweeper, tool, environment
    <3>6. NothingLeftBehind'
      BY <2>11 DEF ConsumeCarried, ConsumePendingPhoto, database, sweeper, tool, environment
    <3> QED BY <3>1, <3>2, <3>3, <3>4, <3>5, <3>6
  <2>12. CASE StatementFails(r)
    BY <2>12 DEF StatementFails, database, sweeper, tool, environment
  <2> QED
    BY <1>2, <2>1, <2>2, <2>3, <2>4, <2>5, <2>6, <2>7, <2>8, <2>9, <2>10,
       <2>11, <2>12 DEF Step
<1>3. CASE PruneSelect
  BY <1>3 DEF PruneSelect, database, handlers, tool, environment
<1>4. CASE PruneUnlink
  BY <1>4 DEF PruneUnlink, Unlink, database, handlers, tool, environment
<1>5. CASE PruneDelete
  BY <1>5 DEF PruneDelete, handlers, tool, environment
<1>6. CASE Tool
  BY <1>6 DEF Tool, ToolList, ToolReadPhotos, ToolReadPending, ToolUnlink, Unlink, ToolStep
<1>7. CASE Tick
  BY <1>7 DEF Tick, database, handlers, sweeper, tool, environment
<1>8. CASE Crash
  BY <1>8 DEF Crash
<1>9. CASE UNCHANGED vars
  BY <1>9 DEF vars, database, handlers, sweeper, tool, environment
<1>10. CASE PruneDeleteFails
  BY <1>10 DEF PruneDeleteFails, database, handlers, tool, environment
<1>11. Next \/ UNCHANGED vars
  OBVIOUS
<1> HIDE DEF SteadyService, NormalService, AttachInv, HeldInv, TypeInv, TypeOK, RowsUnique,
    PastRows, OwnFileOnDisk, OneThread, SeparateTokens, Handover, CarriedIsFree,
    SweepIsPending, LeftInv, UniqueIds, CarriedLives, OwnFileFromRename,
    ConsumedIsAttached, SweepIsComplete, NothingLeftBehind, AttachedNames, InFlight,
    Running, Awaiting, LoopFree, Goto, Names, Row, Photo
<1> QED
  BY <1>1, <1>2, <1>3, <1>4, <1>5, <1>6, <1>7, <1>8, <1>9,
     <1>10, <1>11 DEF Next, Prune

\* With a steady clock and nothing failing, every file in the upload directory
\* belongs to a row of one of the two tables or to a handler that is about to
\* record or remove it, and every temporary file to a write in progress: neither
\* a retry, a replaced photo nor an expiry leaves bytes nobody will delete.
THEOREM NothingIsLeftBehind == SafeSpec => []NothingLeftBehind
<1> DEFINE Inv == SteadyService => AttachInv /\ LeftInv
<1>1. Inv /\ [Next]_vars => Inv'
  BY AttachNext, LeftNext, FaultsFixed DEF SteadyService, NormalService
<1>2. Init => Inv BY AttachInit, LeftInit
<1>3. Inv => NothingLeftBehind BY DEF LeftInv, NothingLeftBehind
<1> QED BY <1>1, <1>2, <1>3, PTL DEF SafeSpec

-----------------------------------------------------------------------------
(* The machinery does what PhotoCustody promises                           *)

CustodyMap == [f \in Request |-> CustodyOf(f)]

\* The steps PhotoCustody allows one photo.
Moves(from, to) ==
    \/ from = "absent" /\ to \in {"loose", "gone"}
    \/ from = "loose" /\ to \in {"held", "attached", "gone"}
    \/ from = "held" /\ to \in {"loose", "attached", "gone"}

LEMMA OneMoves ==
    ASSUME NEW p \in Request, \A f \in Request \ {p} : CustodyOf(f)' = CustodyOf(f),
           CustodyOf(p)' = CustodyOf(p) \/ Moves(CustodyOf(p), CustodyOf(p)')
    PROVE  [Custody!Next]_CustodyMap
<1>1. CASE CustodyOf(p)' = CustodyOf(p)
  BY <1>1 DEF CustodyMap
<1>2. CASE Moves(CustodyOf(p), CustodyOf(p)')
  <2>1. CustodyMap' = [CustodyMap EXCEPT ![p] = CustodyOf(p)']
    BY DEF CustodyMap
  <2>2. CustodyMap[p] = CustodyOf(p)
    BY DEF CustodyMap
  <2>3. Custody!Refuse(p) \/ Custody!Accept(p) \/ Custody!Settle(p) \/ Custody!Leave(p)
    BY <1>2, <2>1, <2>2 DEF Moves, CustodyMap, Custody!Refuse, Custody!Accept,
       Custody!Settle, Custody!Leave, Custody!Hold, Custody!Attach, Custody!Release,
       Custody!Remove, Custody!Move
  <2> QED BY <2>3 DEF Custody!Next
<1> QED BY <1>1, <1>2

LEMMA NothingMoves ==
    ASSUME \A f \in Request : CustodyOf(f)' = CustodyOf(f)
    PROVE  [Custody!Next]_CustodyMap
BY DEF CustodyMap

LEMMA CustodyNext ==
    SteadyService /\ AttachInv /\ LeftInv /\ [Next]_vars => [Custody!Next]_CustodyMap
<1> SUFFICES ASSUME SteadyService, AttachInv, LeftInv, [Next]_vars
             PROVE  [Custody!Next]_CustodyMap
  OBVIOUS
<1> USE UploadsAssumption
    DEF SteadyService, NormalService, AttachInv, HeldInv, TypeInv, TypeOK, RowsUnique,
        PastRows, OwnFileOnDisk, UnlinksAreDue, OneThread, Handover,
        CarriedIsFree, SweepIsPending, LeftInv, CarriedLives,
        OwnFileFromRename, ConsumedIsAttached, SweepIsComplete,
        AttachedNames, Running, Awaiting, LoopFree, Goto, Names, Row, Photo
<1>1. ASSUME NEW r \in Request, NEW token \in Request,
             NEW valid \in BOOLEAN, NEW hasFile \in BOOLEAN,
             Submit(r, token, valid, hasFile)
      PROVE  [Custody!Next]_CustodyMap
  <2>1. UNCHANGED <<disk, pending, photos>>
    BY <1>1 DEF Submit, database
  <2>2. pc[r] = "idle" /\ r \notin disk /\ r \notin AttachedNames
    BY <1>1 DEF Submit
  <2>3. pc'[r] \in {"receiving", "decide"} /\ \A f \in Request \ {r} : pc'[f] = pc[f]
    BY <1>1 DEF Submit
  <2>4. \A f \in Request \ {r} : CustodyOf(f)' = CustodyOf(f)
    BY <2>1, <2>3 DEF CustodyOf
  <2>5. CustodyOf(r) = "absent" /\ CustodyOf(r)' \in {"absent", "gone"}
    BY <2>1, <2>2, <2>3 DEF CustodyOf
  <2> QED BY <2>4, <2>5, OneMoves DEF Moves
<1>2. ASSUME NEW r \in Request, Step(r) PROVE [Custody!Next]_CustodyMap
  <2>1. CASE RejectPhoto(r)
    <3>1. UNCHANGED <<disk, pending, photos>>
      BY <2>1 DEF RejectPhoto, database
    <3>2. pc[r] = "receiving" /\ r \notin disk /\ r \notin AttachedNames /\ r \notin Names(pending)
      BY <2>1 DEF RejectPhoto
    <3>3. pc'[r] = "decide" /\ \A f \in Request \ {r} : pc'[f] = pc[f]
      BY <2>1 DEF RejectPhoto
    <3>4. \A f \in Request \ {r} : CustodyOf(f)' = CustodyOf(f)
      BY <3>1, <3>3 DEF CustodyOf
    <3>5. CustodyOf(r) = "absent" /\ CustodyOf(r)' = "gone"
      BY <3>1, <3>2, <3>3 DEF CustodyOf
    <3> QED BY <3>4, <3>5, OneMoves DEF Moves
  <2>2. CASE WriteTemp(r)
    <3>1. UNCHANGED <<disk, pending, photos>>
      BY <2>2 DEF WriteTemp, database
    <3>2. pc[r] = "receiving" /\ r \notin disk /\ r \notin AttachedNames /\ r \notin Names(pending)
      BY <2>2 DEF WriteTemp
    <3>3. pc'[r] = "written" /\ \A f \in Request \ {r} : pc'[f] = pc[f]
      BY <2>2 DEF WriteTemp
    <3>4. \A f \in Request \ {r} : CustodyOf(f)' = CustodyOf(f)
      BY <3>1, <3>3 DEF CustodyOf
    <3>5. CustodyOf(r) = "absent" /\ CustodyOf(r)' = "absent"
      BY <3>1, <3>2, <3>3 DEF CustodyOf
    <3> QED BY <3>4, <3>5, OneMoves DEF Moves
  <2>3. CASE RenameTemp(r)
    <3>1. disk' = disk \cup {r} /\ UNCHANGED <<pending, photos>>
      BY <2>3 DEF RenameTemp, database
    <3>2. pc[r] = "written" /\ r \notin disk /\ r \notin AttachedNames /\ r \notin Names(pending)
      BY <2>3 DEF RenameTemp
    <3>3. pc'[r] = "renamed" /\ \A f \in Request \ {r} : pc'[f] = pc[f]
      BY <2>3 DEF RenameTemp
    <3>4. \A f \in Request \ {r} : CustodyOf(f)' = CustodyOf(f)
      BY <3>1, <3>3 DEF CustodyOf
    <3>5. CustodyOf(r) = "absent" /\ CustodyOf(r)' = "loose"
      BY <3>1, <3>2, <3>3 DEF CustodyOf
    <3> QED BY <3>4, <3>5, OneMoves DEF Moves
  <2>4. CASE StoreFails(r)
    <3>1. disk' = disk \ {r} /\ UNCHANGED <<pending, photos>>
      BY <2>4 DEF StoreFails, Unlink, database
    <3>2. pc[r] \in {"receiving", "written"} /\ r \notin disk /\ r \notin AttachedNames /\ r \notin Names(pending)
      BY <2>4 DEF StoreFails, Unlink
    <3>3. pc'[r] = "decide" /\ \A f \in Request \ {r} : pc'[f] = pc[f]
      BY <2>4 DEF StoreFails, Unlink
    <3>4. \A f \in Request \ {r} : CustodyOf(f)' = CustodyOf(f)
      BY <3>1, <3>3 DEF CustodyOf
    <3>5. CustodyOf(r) = "absent" /\ CustodyOf(r)' = "gone"
      BY <3>1, <3>2, <3>3 DEF CustodyOf
    <3> QED BY <3>4, <3>5, OneMoves DEF Moves
  <2>5. CASE DiscardPendingPhoto(r)
    <3>1. UNCHANGED <<disk, photos>> /\ pc[r] = "renamed" /\ r \in disk
      BY <2>5 DEF DiscardPendingPhoto
    <3>2. \A f \in Request \ {r} : pc'[f] = pc[f]
      BY <2>5 DEF DiscardPendingPhoto
    <3>3. CASE carried[r] = {}
      <4>1. pending' = pending
        BY <2>5, <3>3 DEF DiscardPendingPhoto
      <4>2. \A f \in Request : CustodyOf(f)' = CustodyOf(f)
        BY <3>1, <3>2, <4>1 DEF CustodyOf
      <4> QED BY <4>2, NothingMoves
    <3>4. CASE carried[r] # {}
      <4>1. PICK c \in carried[r] : pending' = {x \in pending : x.id # c.id}
        BY <2>5, <3>4 DEF DiscardPendingPhoto, DeleteRowOf
      <4>2. c \in pending /\ c.name \in Request /\ c.name \in disk /\ c.name \notin AttachedNames
        BY <3>1 DEF LivePendingOnDisk
      <4>3. pending' = pending \ {c}
        BY <4>1, <4>2 DEF UniqueIds
      <4>4. c.name # r /\ \A x \in pending : x.name = c.name => x = c
        BY <3>1, <4>2
      <4>5. \A f \in Request \ {c.name} : f \in Names(pending') <=> f \in Names(pending)
        BY <4>3
      <4>6. \A f \in Request \ {c.name} : CustodyOf(f)' = CustodyOf(f)
        BY <3>1, <3>2, <4>5 DEF CustodyOf
      <4>7. c.name \in Names(pending) /\ c.name \notin Names(pending')
        BY <4>2, <4>3, <4>4
      <4>8. CustodyOf(c.name) = "held" /\ CustodyOf(c.name)' = "loose"
        BY <3>1, <4>2, <4>7 DEF CustodyOf
      <4> QED BY <4>2, <4>6, <4>8, OneMoves DEF Moves
    <3> QED BY <3>3, <3>4
  <2>6. CASE UnlinkDiscarded(r)
    <3>1. UNCHANGED <<pending, photos>> /\ pc[r] = "unlinkOld" /\ r \in disk
          /\ disk' = disk \ Names(carried[r])
      BY <2>6 DEF UnlinkDiscarded, Unlink, database
    <3>2. pc'[r] = "decide" /\ \A f \in Request \ {r} : pc'[f] = pc[f]
      BY <2>6 DEF UnlinkDiscarded, Unlink
    <3>3. CASE carried[r] = {}
      <4>1. disk' = disk
        BY <3>1, <3>3
      <4>2. \A f \in Request : CustodyOf(f)' = CustodyOf(f)
        BY <3>1, <3>2, <4>1 DEF CustodyOf
      <4> QED BY <4>2, NothingMoves
    <3>4. CASE carried[r] # {}
      <4>1. PICK c \in carried[r] : TRUE
        BY <3>4
      <4>2. Names(carried[r]) = {c.name} /\ c.name \in Request
        BY <4>1
      <4>3. c.name # r /\ pc[c.name] = "done"
        BY <3>1
      <4>4. c.name \notin AttachedNames /\ c.name \notin Names(pending)
        BY <3>1
      <4>5. \A f \in Request \ {c.name} : CustodyOf(f)' = CustodyOf(f)
        BY <3>1, <3>2, <4>2 DEF CustodyOf
      <4>6. CustodyOf(c.name) \in {"loose", "gone"} /\ CustodyOf(c.name)' = "gone"
        BY <3>1, <3>2, <4>2, <4>3, <4>4 DEF CustodyOf
      <4> QED BY <4>2, <4>5, <4>6, OneMoves DEF Moves
    <3> QED BY <3>3, <3>4
  <2>7. CASE HoldForRetry(r)
    <3>1. UNCHANGED <<disk, photos>> /\ pc[r] = "decide"
          /\ r \notin AttachedNames /\ r \notin Names(pending)
      BY <2>7 DEF HoldForRetry
    <3>2. pc'[r] = "done" /\ \A f \in Request \ {r} : pc'[f] = pc[f]
      BY <2>7 DEF HoldForRetry
    <3>3. CASE r \in stored
      <4>1. PICK id \in Nat :
              pending' = pending \cup
                {[id |-> id, name |-> r, user |-> Submitter[r], expires |-> now + TTL]}
        BY <2>7, <3>3 DEF HoldForRetry, CreatePendingPhoto
      <4> DEFINE row == [id |-> id, name |-> r, user |-> Submitter[r], expires |-> now + TTL]
      <4>2. pending' = pending \cup {row} /\ row.name = r
        BY <4>1
      <4> HIDE DEF row
      <4>3. r \in disk /\ r \in Names(pending')
        BY <3>1, <3>3, <4>2
      <4>4. \A f \in Request \ {r} : f \in Names(pending') <=> f \in Names(pending)
        BY <4>2
      <4>5. \A f \in Request \ {r} : CustodyOf(f)' = CustodyOf(f)
        BY <3>1, <3>2, <4>4 DEF CustodyOf
      <4>6. CustodyOf(r) = "loose" /\ CustodyOf(r)' = "held"
        BY <3>1, <4>3 DEF CustodyOf
      <4> QED BY <4>5, <4>6, OneMoves DEF Moves
    <3>4. CASE r \notin stored
      <4>1. pending' = pending /\ r \notin disk
        BY <2>7, <3>1, <3>4 DEF HoldForRetry
      <4>2. \A f \in Request : CustodyOf(f)' = CustodyOf(f)
        BY <3>1, <3>2, <4>1 DEF CustodyOf
      <4> QED BY <4>2, NothingMoves
    <3> QED BY <3>3, <3>4
  <2>8. CASE HoldFails(r)
    BY <2>8 DEF HoldFails, Unlink
  <2>9. CASE CreateSurvey(r)
    <3>1. UNCHANGED <<disk, pending, photos>> /\ pc[r] = "decide"
          /\ pc'[r] \in {"attach", "done"} /\ \A f \in Request \ {r} : pc'[f] = pc[f]
      BY <2>9 DEF CreateSurvey
    <3>2. \A f \in Request : CustodyOf(f)' = CustodyOf(f)
      BY <3>1 DEF CustodyOf
    <3> QED BY <3>2, NothingMoves
  <2>10. CASE AddPhoto(r)
    <3>1. UNCHANGED <<disk, pending>> /\ pc[r] = "attach"
      BY <2>10 DEF AddPhoto
    <3>2. PICK g \in Request : PhotoToAttach(r) = {g} /\ g \in disk /\ g \notin AttachedNames
                               /\ (r \in stored => g = r) /\ (r \notin stored => g # r)
      <4>1. CASE r \in stored
        BY <3>1, <4>1 DEF PhotoToAttach
      <4>2. CASE r \notin stored
        <5>1. PICK c \in carried[r] : TRUE
          BY <3>1, <4>2 DEF SurveyInv
        <5>2. PhotoToAttach(r) = {c.name} /\ c.name \in Request
          BY <4>2, <5>1 DEF PhotoToAttach
        <5>3. c.name \in disk /\ c.name # r /\ c \in pending
          BY <3>1, <4>2, <5>1
        <5>4. c.name \notin AttachedNames
          BY <3>1, <5>3
        <5> QED BY <4>2, <5>2, <5>3, <5>4
      <4> QED BY <4>1, <4>2
    <3>3. photos' = photos \cup {[name |-> g, survey |-> r]}
      BY <2>10, <3>2 DEF AddPhoto
    <3>4. pc'[r] \in {"done", "consume"} /\ \A f \in Request \ {r} : pc'[f] = pc[f]
      BY <2>10, <3>2 DEF AddPhoto
    <3>5. AttachedNames' = AttachedNames \cup {g}
      <4> DEFINE row == [name |-> g, survey |-> r]
      <4>1. photos' = photos \cup {row} /\ row.name = g
        BY <3>3
      <4> HIDE DEF row
      <4> QED BY <4>1
    <3>6. r \notin stored => r \notin disk
      BY <3>1
    <3>7. \A f \in Request \ {g} : CustodyOf(f)' = CustodyOf(f)
      BY <3>1, <3>2, <3>4, <3>5, <3>6 DEF CustodyOf
    <3>8. CustodyOf(g) \in {"loose", "held"} /\ CustodyOf(g)' = "attached"
      BY <3>1, <3>2, <3>5 DEF CustodyOf
    <3> QED BY <3>7, <3>8, OneMoves DEF Moves
  <2>11. CASE ConsumeCarried(r)
    <3>1. UNCHANGED <<disk, photos>> /\ pc[r] = "consume" /\ r \notin disk
      BY <2>11 DEF ConsumeCarried
    <3>2. pc'[r] = "done" /\ \A f \in Request \ {r} : pc'[f] = pc[f]
      BY <2>11 DEF ConsumeCarried
    <3>3. PICK c \in carried[r] : pending' = {x \in pending : x.name # c.name}
      BY <2>11 DEF ConsumeCarried, ConsumePendingPhoto
    <3>4. c.name \in AttachedNames /\ c.name \in disk
      BY <3>1, <3>3 DEF AttachedOnDisk
    <3>5. \A f \in Request \ {c.name} : f \in Names(pending') <=> f \in Names(pending)
      BY <3>3
    <3>6. \A f \in Request : CustodyOf(f)' = CustodyOf(f)
      BY <3>1, <3>2, <3>4, <3>5 DEF CustodyOf
    <3> QED BY <3>6, NothingMoves
  <2>12. CASE StatementFails(r)
    BY <2>12 DEF StatementFails
  <2> QED
    BY <1>2, <2>1, <2>2, <2>3, <2>4, <2>5, <2>6, <2>7, <2>8, <2>9, <2>10,
       <2>11, <2>12 DEF Step
<1>3. ASSUME UNCHANGED <<disk, pending, photos, pc>>
      PROVE  [Custody!Next]_CustodyMap
  <2>1. \A f \in Request : CustodyOf(f)' = CustodyOf(f)
    BY <1>3 DEF CustodyOf
  <2> QED BY <2>1, NothingMoves
<1>4. CASE PruneSelect \/ Tick \/ UNCHANGED vars
  BY <1>3, <1>4 DEF PruneSelect, Tick, vars, database, handlers
<1>5. CASE PruneUnlink
  <2>1. PICK row \in sweep : disk' = disk \ {row.name}
    BY <1>5 DEF PruneUnlink, Unlink
  <2>2. UNCHANGED <<pending, photos, pc>> /\ sweeping
    BY <1>5 DEF PruneUnlink, Unlink, database, handlers
  <2>3. row \in pending /\ row.name \in Request /\ pc[row.name] = "done"
        /\ row.name \notin AttachedNames
    BY <2>1, <2>2
  <2>4. \A f \in Request \ {row.name} : CustodyOf(f)' = CustodyOf(f)
    BY <2>1, <2>2 DEF CustodyOf
  <2>5. CustodyOf(row.name) \in {"held", "gone"} /\ CustodyOf(row.name)' = "gone"
    BY <2>1, <2>2, <2>3 DEF CustodyOf
  <2> QED BY <2>3, <2>4, <2>5, OneMoves DEF Moves
<1>6. CASE PruneDelete
  <2>1. UNCHANGED <<disk, photos, pc>> /\ sweeping /\ sweep = {}
        /\ pending' = {x \in pending : x.expires > now}
    BY <1>6 DEF PruneDelete, handlers
  <2>2. \A x \in pending \ pending' : x.name \notin disk
    BY <2>1
  <2>3. \A f \in disk : f \in Names(pending') <=> f \in Names(pending)
    BY <2>1, <2>2
  <2>4. \A f \in Request : CustodyOf(f)' = CustodyOf(f)
    BY <2>1, <2>3 DEF CustodyOf
  <2> QED BY <2>4, NothingMoves
<1>7. CASE PruneDeleteFails \/ Crash \/ Tool
  BY <1>7 DEF PruneDeleteFails, Crash, Tool, ToolList, ToolReadPhotos,
     ToolReadPending, ToolUnlink, Unlink, ToolStep
<1>8. Next \/ UNCHANGED vars
  OBVIOUS
<1> HIDE DEF SteadyService, NormalService, AttachInv, HeldInv, TypeInv, TypeOK, RowsUnique,
    PastRows, OwnFileOnDisk, UnlinksAreDue, OneThread, Handover, CarriedIsFree,
    SweepIsPending, LeftInv, CarriedLives, OwnFileFromRename, ConsumedIsAttached,
    SweepIsComplete, AttachedNames, Running, Awaiting, LoopFree, Goto, Names, Row, Photo
<1> QED
  BY <1>1, <1>2, <1>4, <1>5, <1>6, <1>7, <1>8 DEF Next, Prune

\* With a steady clock the upload machinery, of any number of requests, takes no
\* step that PhotoCustody forbids: an attached photo is attached for ever, and a
\* file that has left the directory never comes back.
THEOREM CustodyIsKept == SafeSpec /\ [](SteadyService) => Custody!Safety
<1> DEFINE Inv == AttachInv /\ LeftInv
<1>1. Init => Inv BY AttachInit, LeftInit
<1>2. SteadyService /\ Inv /\ [Next]_vars => Inv'
  BY AttachNext, LeftNext DEF SteadyService
<1>3. Init => Custody!Init
  BY DEF Init, Custody!Init, CustodyOf, AttachedNames, Names
<1>4. SteadyService /\ Inv /\ [Next]_vars => [Custody!Next]_CustodyMap
  BY CustodyNext
<1> QED
  BY <1>1, <1>2, <1>3, <1>4, PTL DEF SafeSpec, Custody!Safety, CustodyMap

-----------------------------------------------------------------------------
(* Whose row a discard takes                                               *)

\* No form is sent twice at once and no row expires in a request's hands.
Unshared == faults \cap {"resubmit", "stale"} = {}

CarrierInv == TypeInv /\ PastRows /\ UniqueIds /\ SeparateTokens /\ CarriedLives

LEMMA CarrierInit == Init => CarrierInv
BY TypeInit DEF Init, CarrierInv, PastRows, UniqueIds, SeparateTokens, CarriedLives,
   InFlight, Awaiting, Running

\* A step removes expired rows, or the one row its handler carries.
LEMMA CarrierRemoves ==
    ASSUME CarrierInv, Unshared, [Next]_vars,
           NEW x \in pending, x \notin pending', x.expires > now
    PROVE  \E r \in Request : pc[r] \in {"renamed", "consume"} /\ x \in carried[r]
<1> USE DEF CarrierInv, TypeInv, TypeOK, PastRows, UniqueIds, CarriedLives, Awaiting
<1>1. ASSUME NEW r \in Request, DiscardPendingPhoto(r)
      PROVE  pc[r] \in {"renamed", "consume"} /\ x \in carried[r]
  BY <1>1 DEF DiscardPendingPhoto, DeleteRowOf
<1>2. ASSUME NEW r \in Request, ConsumeCarried(r)
      PROVE  pc[r] \in {"renamed", "consume"} /\ x \in carried[r]
  BY <1>2 DEF ConsumeCarried, ConsumePendingPhoto
<1>3. ASSUME NEW r \in Request, HoldForRetry(r) PROVE FALSE
  BY <1>3 DEF HoldForRetry, CreatePendingPhoto
<1>4. ~PruneDelete
  BY DEF PruneDelete
<1> HIDE DEF CarrierInv, TypeInv, TypeOK, PastRows, UniqueIds, CarriedLives, Awaiting
<1>5. \/ \E r \in Request : DiscardPendingPhoto(r) \/ ConsumeCarried(r) \/ HoldForRetry(r)
      \/ PruneDelete
  <2>1. pending' # pending
    OBVIOUS
  <2> QED
    BY <2>1 DEF Next, Submit, Step, RejectPhoto, WriteTemp, RenameTemp, StoreFails, Unlink,
       UnlinkDiscarded, HoldFails, CreateSurvey, AddPhoto, StatementFails, Prune,
       PruneSelect, PruneUnlink, PruneDeleteFails, Tool, ToolList, ToolReadPhotos,
       ToolReadPending, ToolUnlink, Tick, Crash, vars, database
<1> QED BY <1>1, <1>2, <1>3, <1>4, <1>5

LEMMA CarrierNext == Unshared /\ CarrierInv /\ [Next]_vars => CarrierInv'
<1> SUFFICES ASSUME Unshared, CarrierInv, [Next]_vars PROVE CarrierInv'
  OBVIOUS
<1>0. TypeInv'
  BY TypeNext DEF CarrierInv
<1> DEFINE Rest == PastRows /\ UniqueIds /\ SeparateTokens /\ CarriedLives
<1> SUFFICES Rest'
  BY <1>0 DEF CarrierInv
<1> USE UploadsAssumption
    DEF Unshared, CarrierInv, TypeInv, TypeOK, RowsUnique, PastRows, UniqueIds,
        SeparateTokens, CarriedLives, InFlight, Running, Awaiting, Goto, Names, Row
<1>1. ASSUME NEW r \in Request, NEW token \in Request,
             NEW valid \in BOOLEAN, NEW hasFile \in BOOLEAN,
             Submit(r, token, valid, hasFile)
      PROVE  Rest'
  BY <1>1 DEF Submit, GetPendingPhoto, database, sweeper
<1>2. ASSUME NEW r \in Request, DiscardPendingPhoto(r) PROVE Rest'
  <2>1. pc[r] = "renamed" /\ UNCHANGED <<carried, now, sweep>>
    BY <1>2 DEF DiscardPendingPhoto, sweeper
  <2>2. pc'[r] \in {"decide", "unlinkOld"} /\ \A q \in Request \ {r} : pc'[q] = pc[q]
    BY <1>2 DEF DiscardPendingPhoto
  <2>3. pending' \subseteq pending /\ pending \ pending' \subseteq carried[r]
    BY <1>2, <2>1 DEF DiscardPendingPhoto, DeleteRowOf
  <2>4. \A q \in Request \ {r} : pc[q] \in Awaiting => \A c \in carried[q] : c \in pending'
    BY <2>1, <2>3
  <2> QED BY <2>1, <2>2, <2>3, <2>4
<1>3. ASSUME NEW r \in Request, ConsumeCarried(r) PROVE Rest'
  BY <1>3 DEF ConsumeCarried, ConsumePendingPhoto, sweeper
<1>4. ASSUME NEW r \in Request, HoldForRetry(r) PROVE Rest'
  <2>1. pc[r] = "decide" /\ UNCHANGED <<carried, now, sweep>>
    BY <1>4 DEF HoldForRetry, sweeper
  <2>2. pc'[r] = "done" /\ \A q \in Request \ {r} : pc'[q] = pc[q]
    BY <1>4 DEF HoldForRetry
  <2>3. PICK id \in Nat : \A x \in pending' : x \in pending \/ (x.id = id /\ x.name = r)
    BY <1>4 DEF HoldForRetry, CreatePendingPhoto
  <2>4. pending \subseteq pending' /\ UniqueIds'
    BY <1>4 DEF HoldForRetry, CreatePendingPhoto, IsNextRowId
  <2> QED BY <2>1, <2>2, <2>3, <2>4
<1>5. ASSUME NEW r \in Request, UnlinkDiscarded(r) PROVE Rest'
  BY <1>5 DEF UnlinkDiscarded, Unlink, database, sweeper
<1>6. ASSUME NEW r \in Request,
             \/ RejectPhoto(r) \/ WriteTemp(r) \/ RenameTemp(r) \/ StoreFails(r)
             \/ HoldFails(r) \/ CreateSurvey(r) \/ AddPhoto(r) \/ StatementFails(r)
      PROVE  Rest'
  <2>1. UNCHANGED <<pending, carried, now, sweep>>
    BY <1>6 DEF RejectPhoto, WriteTemp, RenameTemp, StoreFails, Unlink, HoldFails, CreateSurvey,
       AddPhoto, StatementFails, database, sweeper
  <2>2. \A q \in Request \ {r} : pc'[q] = pc[q]
    BY <1>6 DEF RejectPhoto, WriteTemp, RenameTemp, StoreFails, Unlink, HoldFails, CreateSurvey,
       AddPhoto, StatementFails
  <2>3. InFlight(r) /\ pc[r] # "done" /\ (pc'[r] \in Awaiting => pc[r] \in Awaiting)
    BY <1>6 DEF RejectPhoto, WriteTemp, RenameTemp, StoreFails, Unlink, HoldFails, CreateSurvey,
       AddPhoto, StatementFails
  <2> QED BY <2>1, <2>2, <2>3
<1>7. CASE Prune
  BY <1>7 DEF Prune, PruneSelect, PruneUnlink, Unlink, PruneDelete, PruneDeleteFails,
     database, handlers
<1>8. CASE Tool
  BY <1>8 DEF Tool, ToolList, ToolReadPhotos, ToolReadPending, ToolUnlink, Unlink, database,
     handlers, sweeper
<1>9. CASE Tick
  BY <1>9 DEF Tick, database, handlers, sweeper
<1>10. CASE Crash
  BY <1>10 DEF Crash, database
<1>11. CASE UNCHANGED vars
  BY <1>11 DEF vars, database, handlers, sweeper
<1>12. Next \/ UNCHANGED vars
  OBVIOUS
<1> HIDE DEF Rest, Unshared, CarrierInv, TypeInv, TypeOK, RowsUnique, PastRows, UniqueIds,
    SeparateTokens, CarriedLives, InFlight, Running, Awaiting, Goto, Names, Row
<1> QED
  BY <1>1, <1>2, <1>3, <1>4, <1>5, <1>6, <1>7, <1>8, <1>9, <1>10, <1>11, <1>12
     DEF Next, Step

\* As long as no form is sent twice at once and no row expires in a request's
\* hands, a discard never takes somebody else's row, although the ids of deleted
\* rows are given again; crashes, failed statements and the tool included.
THEOREM DiscardsItsOwnRow == SafeSpec => LiveRowRemovedOnlyByItsCarrier
<1> DEFINE Inv == Unshared => CarrierInv
<1>1. Init => Inv BY CarrierInit
<1>2. Inv /\ [Next]_vars => Inv' BY CarrierNext, FaultsFixed DEF Unshared
<1>3. Inv /\ [Next]_vars
      => [Unshared => \A row \in pending \ pending' : row.expires > now =>
            \E r \in Request : pc[r] \in {"renamed", "consume"} /\ row \in carried[r]]_vars
  BY CarrierRemoves
<1> QED
  BY <1>1, <1>2, <1>3, PTL DEF SafeSpec, LiveRowRemovedOnlyByItsCarrier, Unshared
=============================================================================
