---------------------------- MODULE ServicesProofs ----------------------------
(***************************************************************************)
(* Theorems about Vetting, StartCode, Coupons, RideOffers, Ratings and     *)
(* Redemptions, for any people, vehicles, documents, attempts, coupons,    *)
(* rides and requests.                                                     *)
(***************************************************************************)
EXTENDS MCServices, FiniteSetTheorems, TLAPS

-----------------------------------------------------------------------------
(* Vetting.  What a request relies on after its check: an edit that found  *)
(* the vehicle unverified still does, unless a review raced it; a document *)
(* that is to be deleted, reviewed or created is where its file is.        *)

RequestFits(x) ==
    /\ x.pc = "promote" => x.on \in People
    /\ x.pc = "writeVehicle" => x.on \in Vehicles /\ x.value \in Identities \cup {Nothing}
    /\ x.pc \in {"createDocument", "delete", "deleteFile", "writeReview"} => x.on \in Documents
    /\ x.pc = "writeReview" => x.value \in {"APPROVED", "REJECTED"}

RequestHolds(x) ==
    /\ x.pc = "writeVehicle" /\ x.on \notin raced => (vehicle[x.on].isVerified => x.sawVerified)
    /\ x.pc = "createDocument" => x.on \in files /\ document[x.on] = "none"
    /\ x.pc \in {"delete", "writeReview"} => document[x.on] # "none"
    /\ x.pc = "deleteFile" => document[x.on] = "removed"

\* A document is uploaded once.
UploadsDiffer ==
    \A q, r \in Requests :
        q # r /\ vetting[q].pc = "createDocument" /\ vetting[r].pc = "createDocument"
          => vetting[q].on # vetting[r].on

RequestRow ==
    [pc : {"done", "promote", "record", "writeVehicle", "createDocument", "delete",
           "deleteFile", "writeReview"},
     on : People \cup Vehicles \cup Documents \cup {Nothing}, sawVerified : BOOLEAN,
     value : Identities \cup Decisions \cup {Nothing, "VERIFIED", "UNVERIFIED"}]

VettingInv ==
    /\ VettingTypeOK
    /\ vetting \in [Requests -> RequestRow]
    /\ \A q \in Requests : RequestFits(vetting[q]) /\ RequestHolds(vetting[q])
    /\ UploadsDiffer
    /\ VerifiedAsReviewed
    /\ DocumentsHaveFiles

LEMMA VettingStarts == VettingInit => VettingInv
<1> SUFFICES ASSUME VettingInit PROVE VettingInv
  OBVIOUS
<1>1. VettingTypeOK
  BY DEF VettingInit, VettingTypeOK, NoVehicle, Decisions
<1>2. \A q \in Requests : vetting[q] = NoRequest /\ NoRequest.pc = "done"
  BY DEF VettingInit, NoRequest
<1>3. NoRequest \in RequestRow /\ vetting \in [Requests -> RequestRow]
  BY DEF VettingInit, NoRequest, RequestRow
<1>4. \A q \in Requests : RequestFits(vetting[q]) /\ RequestHolds(vetting[q])
  BY <1>2 DEF RequestFits, RequestHolds
<1>5. UploadsDiffer
  BY <1>2 DEF UploadsDiffer
<1>6. VerifiedAsReviewed /\ DocumentsHaveFiles
  BY DEF VettingInit, VerifiedAsReviewed, DocumentsHaveFiles, NoVehicle
<1>7. QED
  BY <1>1, <1>3, <1>4, <1>5, <1>6 DEF VettingInv

VehicleRow == [driver : People \cup {Nothing}, identity : Identities \cup {Nothing},
               isVerified : BOOLEAN, isActive : BOOLEAN]

LEMMA VehicleFields ==
    ASSUME NEW x \in VehicleRow
    PROVE  /\ \A i \in Identities \cup {Nothing}, b \in BOOLEAN :
                 [x EXCEPT !.identity = i, !.isVerified = b] \in VehicleRow
           /\ \A b \in BOOLEAN : [x EXCEPT !.isVerified = b] \in VehicleRow
           /\ [x EXCEPT !.isActive = FALSE] \in VehicleRow
<1>1. \A i \in Identities \cup {Nothing}, b \in BOOLEAN :
         [x EXCEPT !.identity = i, !.isVerified = b] \in VehicleRow
  BY DEF VehicleRow
<1>2. \A b \in BOOLEAN : [x EXCEPT !.isVerified = b] \in VehicleRow
  BY DEF VehicleRow
<1>3. [x EXCEPT !.isActive = FALSE] \in VehicleRow
  BY DEF VehicleRow
<1>4. QED
  BY <1>1, <1>2, <1>3

LEMMA RequestRows ==
    ASSUME VettingInv, NEW q \in Requests
    PROVE  /\ Leave(q) => vetting' \in [Requests -> RequestRow]
           /\ \A pc \in {"record", "deleteFile"} : Pass(q, pc) => vetting' \in [Requests -> RequestRow]
           /\ \A pc \in {"promote", "record", "writeVehicle", "createDocument", "delete",
                          "writeReview"},
                on \in People \cup Vehicles \cup Documents, saw \in BOOLEAN,
                value \in Identities \cup Decisions \cup {Nothing, "VERIFIED", "UNVERIFIED"} :
                   Enter(q, pc, on, saw, value) => vetting' \in [Requests -> RequestRow]
<1>1. NoRequest \in RequestRow /\ vetting \in [Requests -> RequestRow]
  BY DEF NoRequest, RequestRow, VettingInv
<1>2. \A pc \in {"record", "deleteFile"} : [vetting[q] EXCEPT !.pc = pc] \in RequestRow
  BY <1>1 DEF RequestRow
<1>3. \A pc \in {"promote", "record", "writeVehicle", "createDocument", "delete",
                 "writeReview"},
       on \in People \cup Vehicles \cup Documents, saw \in BOOLEAN,
       value \in Identities \cup Decisions \cup {Nothing, "VERIFIED", "UNVERIFIED"} :
          [pc |-> pc, on |-> on, sawVerified |-> saw, value |-> value] \in RequestRow
  BY DEF RequestRow
<1>4. QED
  BY <1>1, <1>2, <1>3 DEF Leave, Pass, Enter

\* The request that takes a step, and the others.
LEMMA OwnRequest ==
    ASSUME VettingInv, NEW q \in Requests
    PROVE  /\ vetting[q] \in RequestRow /\ RequestFits(vetting[q]) /\ RequestHolds(vetting[q])
           /\ vetting[q].pc # "done" => vetting[q] # NoRequest
  BY DEF VettingInv, NoRequest

LEMMA VettingTypes ==
    ASSUME VettingInv, [VettingNext]_vetVars
    PROVE  VettingTypeOK' /\ vetting' \in [Requests -> RequestRow]
<1>0. VettingTypeOK /\ vehicle \in [Vehicles -> VehicleRow]
  BY DEF VettingInv, VettingTypeOK, VehicleRow
<1> USE DEF Decisions
<1>1. ASSUME NEW q \in Requests, NEW p \in People, becomeDriver(q, p)
      PROVE  VettingTypeOK' /\ vetting' \in [Requests -> RequestRow]
  BY <1>0, <1>1, RequestRows DEF becomeDriver, VettingTypeOK
<1>2. ASSUME NEW q \in Requests, NEW p \in People, NEW s \in Decisions, reviewDriver(q, p, s)
      PROVE  VettingTypeOK' /\ vetting' \in [Requests -> RequestRow]
  BY <1>0, <1>2, RequestRows DEF reviewDriver, VettingTypeOK
<1>3. ASSUME NEW p \in People, NEW v \in Vehicles, NEW i \in Identities, createVehicle(p, v, i)
      PROVE  VettingTypeOK' /\ vetting' \in [Requests -> RequestRow]
  <2>1. [driver |-> p, identity |-> i, isVerified |-> FALSE, isActive |-> TRUE] \in VehicleRow
    BY DEF VehicleRow
  <2>2. vehicle' \in [Vehicles -> VehicleRow]
    BY <1>0, <1>3, <2>1 DEF createVehicle
  <2>3. QED
    BY <1>0, <1>3, <2>2 DEF createVehicle, VettingTypeOK, VettingInv, VehicleRow
<1>4. ASSUME NEW q \in Requests, NEW v \in Vehicles, NEW i \in Identities \cup {Nothing},
             updateVehicle(q, v, i)
      PROVE  VettingTypeOK' /\ vetting' \in [Requests -> RequestRow]
  <2>1. vehicle[v].isVerified \in BOOLEAN
    BY <1>0 DEF VehicleRow
  <2>2. QED
    BY <1>0, <1>4, <2>1, RequestRows DEF updateVehicle, VettingTypeOK
<1>5. ASSUME NEW q \in Requests, NEW v \in Vehicles, NEW b \in BOOLEAN, reviewVehicle(q, v, b)
      PROVE  VettingTypeOK' /\ vetting' \in [Requests -> RequestRow]
  <2>1. vehicle' \in [Vehicles -> VehicleRow]
    BY <1>0, <1>5, VehicleFields DEF reviewVehicle
  <2>2. reviewed' \in [Vehicles -> Identities \cup {Nothing}]
    BY <1>0, <1>5 DEF reviewVehicle, VettingTypeOK
  <2>3. raced' \subseteq Vehicles
    BY <1>0, <1>5 DEF reviewVehicle, VettingTypeOK
  <2>4. vetting' \in [Requests -> RequestRow]
    BY <1>5, RequestRows DEF reviewVehicle
  <2>5. QED
    BY <1>0, <1>5, <2>1, <2>2, <2>3, <2>4 DEF reviewVehicle, VettingTypeOK, VehicleRow
<1>6. ASSUME NEW q \in Requests, NEW v \in Vehicles, NEW k \in Documents, uploadDocument(q, k, v)
      PROVE  VettingTypeOK' /\ vetting' \in [Requests -> RequestRow]
  BY <1>0, <1>6, RequestRows DEF uploadDocument, VettingTypeOK
<1>7. ASSUME NEW v \in Vehicles, deactivateVehicle(v)
      PROVE  VettingTypeOK' /\ vetting' \in [Requests -> RequestRow]
  <2>1. vehicle' \in [Vehicles -> VehicleRow]
    BY <1>0, <1>7, VehicleFields DEF deactivateVehicle
  <2>2. QED
    BY <1>0, <1>7, <2>1 DEF deactivateVehicle, VettingTypeOK, VettingInv, VehicleRow
<1>8. ASSUME NEW q \in Requests, NEW k \in Documents, removeDocument(q, k)
      PROVE  VettingTypeOK' /\ vetting' \in [Requests -> RequestRow]
  BY <1>0, <1>8, RequestRows DEF removeDocument, VettingTypeOK
<1>9. ASSUME NEW q \in Requests, NEW k \in Documents, NEW s \in {"APPROVED", "REJECTED"},
             reviewDocument(q, k, s)
      PROVE  VettingTypeOK' /\ vetting' \in [Requests -> RequestRow]
  BY <1>0, <1>9, RequestRows DEF reviewDocument, VettingTypeOK
<1>10. ASSUME NEW q \in Requests, promoteToDriver(q)
       PROVE  VettingTypeOK' /\ vetting' \in [Requests -> RequestRow]
  <2>1. vetting[q].on \in People
    BY <1>10, OwnRequest DEF promoteToDriver, On, RequestFits
  <2>2. QED
    BY <1>0, <1>10, <2>1, RequestRows DEF promoteToDriver, profileOf, VettingTypeOK
<1>11. ASSUME NEW q \in Requests, record(q) \/ drop(q)
       PROVE  VettingTypeOK' /\ vetting' \in [Requests -> RequestRow]
  BY <1>0, <1>11, RequestRows DEF record, drop, VettingTypeOK
<1>12. ASSUME NEW q \in Requests, writeVehicle(q)
       PROVE  VettingTypeOK' /\ vetting' \in [Requests -> RequestRow]
  <2> DEFINE v == vetting[q].on  i == vetting[q].value
  <2>1. v \in Vehicles /\ i \in Identities \cup {Nothing}
    BY <1>12, OwnRequest DEF writeVehicle, On, RequestFits
  <2>2. vehicle[v] \in VehicleRow /\ vehicle[v].identity \in Identities \cup {Nothing}
    BY <1>0, <2>1 DEF VehicleRow
  <2>3. payload(v, q) \in BOOLEAN
    BY <2>2 DEF payload, VehicleRow
  <2>4. [vehicle[v] EXCEPT !.identity = IF i = Nothing THEN @ ELSE i, !.isVerified = payload(v, q)]
           \in VehicleRow
    BY <2>1, <2>2, <2>3, VehicleFields
  <2>5. vehicle' \in {vehicle, [vehicle EXCEPT ![v] =
           [vehicle[v] EXCEPT !.identity = IF i = Nothing THEN @ ELSE i, !.isVerified = payload(v, q)]]}
    BY <1>0, <1>12, <2>1 DEF writeVehicle
  <2>6. vehicle' \in [Vehicles -> VehicleRow]
    BY <1>0, <2>1, <2>4, <2>5
  <2>7. QED
    BY <1>0, <1>12, <2>6, RequestRows DEF writeVehicle, VettingTypeOK, VehicleRow
<1>13. ASSUME NEW q \in Requests, addDocument(q)
       PROVE  VettingTypeOK' /\ vetting' \in [Requests -> RequestRow]
  BY <1>0, <1>13, RequestRows DEF addDocument, VettingTypeOK
<1>14. ASSUME NEW q \in Requests, deleteRow(q) \/ deleteFile(q)
       PROVE  VettingTypeOK' /\ vetting' \in [Requests -> RequestRow]
  BY <1>0, <1>14, RequestRows DEF deleteRow, deleteFile, VettingTypeOK
<1>15. ASSUME NEW q \in Requests, writeReview(q)
       PROVE  VettingTypeOK' /\ vetting' \in [Requests -> RequestRow]
  <2>1. standing(vetting[q].on, vetting[q].value) \in {"APPROVED", "REJECTED", "removed"}
    BY <1>15, OwnRequest DEF writeReview, On, RequestFits, standing
  <2>2. QED
    BY <1>0, <1>15, <2>1, RequestRows DEF writeReview, VettingTypeOK
<1>16. QED
  BY <1>0, <1>1, <1>2, <1>3, <1>4, <1>5, <1>6, <1>7, <1>8, <1>9, <1>10, <1>11, <1>12, <1>13,
     <1>14, <1>15 DEF VettingNext, vetVars, VettingTypeOK, VettingInv

\* One request at a time takes a step; the record it then has.
Others(q) == \A r \in Requests \ {q} : vetting'[r] = vetting[r]

LEMMA Leaving ==
    ASSUME VettingInv, NEW q \in Requests, Leave(q)
    PROVE  Others(q) /\ vetting'[q] = NoRequest
  BY DEF VettingInv, Leave, Others

\* What a step that is no review of a vehicle leaves to a request.
DocumentsKept(k) ==
    /\ document[k] # "none" => document'[k] # "none"
    /\ document[k] = "removed" => document'[k] = "removed"
NotVerified(v) == vehicle'[v].isVerified => vehicle[v].isVerified

LEMMA VettingKeeps ==
    ASSUME VettingInv, [VettingNext]_vetVars
    PROVE  /\ \A k \in Documents : DocumentsKept(k)
           /\ raced \subseteq raced'
<1>1. ASSUME NEW q \in Requests, addDocument(q) PROVE \A k \in Documents : DocumentsKept(k)
  BY <1>1, OwnRequest DEF addDocument, On, RequestHolds, DocumentsKept, VettingInv, VettingTypeOK
<1>2. ASSUME NEW q \in Requests, deleteRow(q) PROVE \A k \in Documents : DocumentsKept(k)
  BY <1>2 DEF deleteRow, DocumentsKept, VettingInv, VettingTypeOK
<1>3. ASSUME NEW q \in Requests, writeReview(q) PROVE \A k \in Documents : DocumentsKept(k)
  BY <1>3, OwnRequest DEF writeReview, On, RequestFits, standing, DocumentsKept, VettingInv,
     VettingTypeOK
<1>4. QED
  BY <1>1, <1>2, <1>3 DEF VettingNext, vetVars, DocumentsKept, becomeDriver, reviewDriver,
     createVehicle, updateVehicle, reviewVehicle, uploadDocument, deactivateVehicle,
     removeDocument, reviewDocument, promoteToDriver, record, drop, writeVehicle, addDocument,
     deleteRow, deleteFile, writeReview

LEMMA VehiclesKept ==
    ASSUME VettingInv, [VettingNext]_vetVars,
           ~(\E q \in Requests, v \in Vehicles, b \in BOOLEAN : reviewVehicle(q, v, b))
    PROVE  \A v \in Vehicles : NotVerified(v)
<1>1. ASSUME NEW p \in People, NEW v \in Vehicles, NEW i \in Identities, createVehicle(p, v, i)
      PROVE  \A w \in Vehicles : NotVerified(w)
  BY <1>1 DEF createVehicle, NotVerified, VettingInv, VettingTypeOK
<1>2. ASSUME NEW v \in Vehicles, deactivateVehicle(v)
      PROVE  \A w \in Vehicles : NotVerified(w)
  BY <1>2 DEF deactivateVehicle, NotVerified, VettingInv, VettingTypeOK
<1>3. ASSUME NEW q \in Requests, writeVehicle(q)
      PROVE  \A w \in Vehicles : NotVerified(w)
  <2>1. \A v \in Vehicles : payload(v, q) => vehicle[v].isVerified
    BY DEF payload
  <2>2. QED
    BY <1>3, <2>1 DEF writeVehicle, NotVerified, VettingInv, VettingTypeOK
<1>4. QED
  BY <1>1, <1>2, <1>3 DEF VettingNext, vetVars, NotVerified, becomeDriver, reviewDriver,
     updateVehicle, uploadDocument, removeDocument, reviewDocument, promoteToDriver, record,
     drop, addDocument, deleteRow, deleteFile, writeReview

\* A document whose upload is under way is not touched by another request.
LEMMA UploadKept ==
    ASSUME VettingInv, NEW q \in Requests, NEW r \in Requests \ {q},
           vetting[r].pc = "createDocument",
           \/ addDocument(q) \/ deleteRow(q) \/ deleteFile(q) \/ writeReview(q)
           \/ \E k \in Documents, v \in Vehicles : uploadDocument(q, k, v)
    PROVE  vetting[r].on \in files' /\ document'[vetting[r].on] = "none"
<1>1. vetting[r].on \in files /\ document[vetting[r].on] = "none" /\ vetting[r].on \in Documents
  BY OwnRequest DEF RequestHolds, RequestFits
<1>2. CASE addDocument(q)
  BY <1>1, <1>2 DEF addDocument, On, VettingInv, VettingTypeOK, UploadsDiffer
<1>3. CASE deleteRow(q) \/ writeReview(q)
  BY <1>1, <1>3, OwnRequest DEF deleteRow, writeReview, On, RequestHolds, VettingInv,
     VettingTypeOK
<1>4. CASE deleteFile(q)
  BY <1>1, <1>4, OwnRequest DEF deleteFile, On, RequestHolds
<1>5. QED
  BY <1>1, <1>2, <1>3, <1>4 DEF uploadDocument

LEMMA UploadsKept ==
    ASSUME VettingInv, [VettingNext]_vetVars, NEW r \in Requests, vetting'[r] = vetting[r],
           vetting[r].pc = "createDocument"
    PROVE  vetting[r].on \in files' /\ document'[vetting[r].on] = "none"
<1>1. vetting[r].on \in files /\ document[vetting[r].on] = "none" /\ vetting[r] # NoRequest
  BY OwnRequest DEF RequestHolds
<1>2. ~addDocument(r) /\ ~deleteRow(r) /\ ~deleteFile(r) /\ ~writeReview(r)
  BY <1>1, Leaving DEF addDocument, deleteRow, deleteFile, writeReview, On
<1>3. \A k \in Documents, v \in Vehicles : ~uploadDocument(r, k, v)
  BY <1>1 DEF uploadDocument, Enter
<1>4. QED
  BY <1>1, <1>2, <1>3, UploadKept DEF VettingNext, vetVars, becomeDriver, reviewDriver,
     createVehicle, updateVehicle, reviewVehicle, deactivateVehicle,
     removeDocument, reviewDocument, promoteToDriver, record, drop, writeVehicle

\* Who does not take the step still has what it relies on.
LEMMA RestingHolds ==
    ASSUME VettingInv, [VettingNext]_vetVars, NEW r \in Requests, vetting'[r] = vetting[r]
    PROVE  (RequestFits(vetting[r]) /\ RequestHolds(vetting[r]))'
<1>1. RequestFits(vetting[r]) /\ RequestHolds(vetting[r])
  BY OwnRequest
<1>2. RequestFits(vetting[r])'
  BY <1>1 DEF RequestFits
<1>3. ASSUME vetting[r].pc = "writeVehicle", vetting[r].on \notin raced', vehicle'[vetting[r].on].isVerified
      PROVE  vetting[r].sawVerified
  <2>1. vetting[r].on \in Vehicles /\ vetting[r].on \notin raced
    BY <1>1, <1>3, VettingKeeps DEF RequestFits
  <2>2. ASSUME NEW q \in Requests, NEW v \in Vehicles, NEW b \in BOOLEAN, reviewVehicle(q, v, b)
        PROVE  vehicle[vetting[r].on].isVerified
    <3>1. v # vetting[r].on
      BY <1>3, <2>1, <2>2 DEF reviewVehicle, On
    <3>2. QED
      BY <1>3, <2>1, <2>2, <3>1 DEF reviewVehicle, VettingInv, VettingTypeOK
  <2>3. vehicle[vetting[r].on].isVerified
    BY <1>3, <2>1, <2>2, VehiclesKept DEF NotVerified
  <2>4. QED
    BY <1>1, <1>3, <2>1, <2>3 DEF RequestHolds
<1>4. vetting[r].pc = "createDocument" =>
        vetting[r].on \in files' /\ document'[vetting[r].on] = "none"
  BY UploadsKept
<1>5. /\ vetting[r].pc \in {"delete", "writeReview"} => document'[vetting[r].on] # "none"
      /\ vetting[r].pc = "deleteFile" => document'[vetting[r].on] = "removed"
  BY <1>1, VettingKeeps DEF RequestHolds, RequestFits, DocumentsKept
<1>6. RequestHolds(vetting[r])'
  BY <1>3, <1>4, <1>5 DEF RequestHolds
<1>7. QED
  BY <1>2, <1>6

\* Who takes the step has found what it relies on.
LEMMA StartsHold ==
    ASSUME VettingInv, NEW q \in Requests,
           \/ \E p \in People : becomeDriver(q, p) \/ \E d \in Decisions : reviewDriver(q, p, d)
           \/ \E v \in Vehicles :
                 \/ \E i \in Identities \cup {Nothing} : updateVehicle(q, v, i)
                 \/ \E b \in BOOLEAN : reviewVehicle(q, v, b)
                 \/ \E k \in Documents : uploadDocument(q, k, v)
           \/ \E k \in Documents :
                 removeDocument(q, k) \/ \E d \in {"APPROVED", "REJECTED"} : reviewDocument(q, k, d)
    PROVE  (RequestFits(vetting[q]) /\ RequestHolds(vetting[q]))' /\ Others(q)
<1> USE DEF Enter, Others
<1>0. vetting \in [Requests -> RequestRow]
  BY DEF VettingInv
<1>1. ASSUME NEW v \in Vehicles, NEW i \in Identities \cup {Nothing}, updateVehicle(q, v, i)
      PROVE  (RequestFits(vetting[q]) /\ RequestHolds(vetting[q]))' /\ Others(q)
  BY <1>0, <1>1 DEF updateVehicle, RequestFits, RequestHolds
<1>2. ASSUME NEW v \in Vehicles, NEW k \in Documents, uploadDocument(q, k, v)
      PROVE  (RequestFits(vetting[q]) /\ RequestHolds(vetting[q]))' /\ Others(q)
  BY <1>0, <1>2 DEF uploadDocument, RequestFits, RequestHolds
<1>3. ASSUME NEW k \in Documents,
             removeDocument(q, k) \/ \E d \in {"APPROVED", "REJECTED"} : reviewDocument(q, k, d)
      PROVE  (RequestFits(vetting[q]) /\ RequestHolds(vetting[q]))' /\ Others(q)
  BY <1>0, <1>3 DEF removeDocument, reviewDocument, RequestFits, RequestHolds
<1>4. ASSUME NEW p \in People,
             becomeDriver(q, p) \/ \E d \in Decisions : reviewDriver(q, p, d)
      PROVE  (RequestFits(vetting[q]) /\ RequestHolds(vetting[q]))' /\ Others(q)
  BY <1>0, <1>4 DEF becomeDriver, reviewDriver, RequestFits, RequestHolds
<1>5. ASSUME NEW v \in Vehicles, NEW b \in BOOLEAN, reviewVehicle(q, v, b)
      PROVE  (RequestFits(vetting[q]) /\ RequestHolds(vetting[q]))' /\ Others(q)
  BY <1>0, <1>5 DEF reviewVehicle, RequestFits, RequestHolds
<1>6. QED
  BY <1>1, <1>2, <1>3, <1>4, <1>5

LEMMA StepsHold ==
    ASSUME VettingInv, NEW q \in Requests,
           \/ promoteToDriver(q) \/ record(q) \/ writeVehicle(q) \/ addDocument(q)
           \/ deleteRow(q) \/ deleteFile(q) \/ writeReview(q) \/ drop(q)
    PROVE  (RequestFits(vetting[q]) /\ RequestHolds(vetting[q]))' /\ Others(q)
<1>1. ASSUME Leave(q)
      PROVE  (RequestFits(vetting[q]) /\ RequestHolds(vetting[q]))' /\ Others(q)
  BY <1>1, Leaving DEF NoRequest, RequestFits, RequestHolds
<1>2. vetting[q] \in RequestRow /\ RequestFits(vetting[q]) /\ RequestHolds(vetting[q])
  BY OwnRequest
<1>3. CASE deleteRow(q) /\ ~Leave(q)
  <2>1. Others(q) /\ vetting'[q].pc = "deleteFile" /\ vetting'[q].on = vetting[q].on
    BY <1>2, <1>3 DEF deleteRow, RequestRow, Pass, Others, VettingInv
  <2>2. vetting[q].on \in Documents /\ document'[vetting[q].on] = "removed"
    BY <1>2, <1>3 DEF deleteRow, On, RequestFits, VettingInv, VettingTypeOK
  <2>3. QED
    BY <2>1, <2>2 DEF RequestFits, RequestHolds
<1>4. CASE writeReview(q) /\ ~Leave(q)
  <2>1. Others(q) /\ vetting'[q].pc = "record" /\ vetting'[q].on = vetting[q].on
    BY <1>2, <1>4 DEF writeReview, RequestRow, Pass, Others, VettingInv
  <2>2. QED
    BY <2>1 DEF RequestFits, RequestHolds
<1>5. QED
  BY <1>1, <1>3, <1>4 DEF promoteToDriver, record, writeVehicle, addDocument, deleteRow,
     deleteFile, writeReview, drop

LEMMA RequestsHold ==
    ASSUME VettingInv, [VettingNext]_vetVars
    PROVE  \A q \in Requests : (RequestFits(vetting[q]) /\ RequestHolds(vetting[q]))'
<1>1. ASSUME NEW q \in Requests, Others(q), (RequestFits(vetting[q]) /\ RequestHolds(vetting[q]))'
      PROVE  \A r \in Requests : (RequestFits(vetting[r]) /\ RequestHolds(vetting[r]))'
  BY <1>1, RestingHolds DEF Others
<1>2. ASSUME UNCHANGED vetting
      PROVE  \A r \in Requests : (RequestFits(vetting[r]) /\ RequestHolds(vetting[r]))'
  BY <1>2, RestingHolds
<1>3. QED
  BY <1>1, <1>2, StartsHold, StepsHold DEF VettingNext, vetVars, createVehicle, deactivateVehicle

\* Who is about to create a document has just uploaded it, or was there before.
LEMMA Uploader ==
    ASSUME VettingInv, [VettingNext]_vetVars, NEW x \in Requests,
           vetting'[x].pc = "createDocument", vetting'[x] # vetting[x]
    PROVE  \E k \in Documents, v \in Vehicles : uploadDocument(x, k, v)
<1>0. vetting \in [Requests -> RequestRow]
  BY DEF VettingInv
<1>1. \A q \in Requests : ~Leave(q)
  BY <1>0 DEF Leave, NoRequest
<1>2. ASSUME NEW q \in Requests, NEW pc \in {"record", "deleteFile"}
      PROVE  ~Pass(q, pc)
  BY <1>0 DEF Pass, RequestRow
<1>3. ASSUME NEW q \in Requests, NEW p \in People,
             becomeDriver(q, p) \/ \E d \in Decisions : reviewDriver(q, p, d)
      PROVE  FALSE
  BY <1>0, <1>3 DEF becomeDriver, reviewDriver, Enter
<1>4. ASSUME NEW q \in Requests, NEW v \in Vehicles,
             \/ \E i \in Identities \cup {Nothing} : updateVehicle(q, v, i)
             \/ \E b \in BOOLEAN : reviewVehicle(q, v, b)
      PROVE  FALSE
  BY <1>0, <1>4 DEF updateVehicle, reviewVehicle, Enter
<1>5. ASSUME NEW q \in Requests, NEW k \in Documents,
             removeDocument(q, k) \/ \E d \in {"APPROVED", "REJECTED"} : reviewDocument(q, k, d)
      PROVE  FALSE
  BY <1>0, <1>5 DEF removeDocument, reviewDocument, Enter
<1>6. ASSUME NEW q \in Requests, NEW k \in Documents, NEW v \in Vehicles, uploadDocument(q, k, v)
      PROVE  q = x
  BY <1>0, <1>6 DEF uploadDocument, Enter
<1>7. QED
  BY <1>1, <1>2, <1>3, <1>4, <1>5, <1>6 DEF VettingNext, vetVars, createVehicle,
     deactivateVehicle, promoteToDriver, record, drop, writeVehicle, addDocument, deleteRow,
     deleteFile, writeReview

LEMMA UploadsStep == ASSUME VettingInv, [VettingNext]_vetVars PROVE UploadsDiffer'
<1>1. ASSUME NEW x \in Requests, NEW y \in Requests, x # y,
             vetting'[x].pc = "createDocument", vetting'[y].pc = "createDocument",
             vetting'[x] # vetting[x]
      PROVE  vetting'[y].on # vetting'[x].on
  <2>1. PICK k \in Documents, v \in Vehicles : uploadDocument(x, k, v)
    BY <1>1, Uploader
  <2>2. vetting'[y] = vetting[y] /\ k \notin files /\ vetting'[x].on = k
    BY <1>1, <2>1 DEF uploadDocument, Enter, VettingInv
  <2>3. vetting[y].on \in files
    BY <1>1, <2>2, OwnRequest DEF RequestHolds
  <2>4. QED
    BY <2>2, <2>3
<1>2. ASSUME NEW x \in Requests, NEW y \in Requests, x # y,
             vetting'[x].pc = "createDocument", vetting'[y].pc = "createDocument",
             vetting'[x] = vetting[x], vetting'[y] = vetting[y]
      PROVE  vetting'[y].on # vetting'[x].on
  BY <1>2 DEF VettingInv, UploadsDiffer
<1>3. QED
  BY <1>1, <1>2 DEF UploadsDiffer

\* A vehicle is verified as what it is then, and loses that when it is edited.
LEMMA VerifiedStep == ASSUME VettingInv, [VettingNext]_vetVars PROVE VerifiedAsReviewed'
<1> SUFFICES ASSUME NEW v \in Vehicles \ raced', vehicle'[v].isVerified
             PROVE  vehicle'[v].identity = reviewed'[v]
  BY DEF VerifiedAsReviewed
<1>0. v \notin raced /\ (vehicle[v].isVerified => vehicle[v].identity = reviewed[v])
  BY VettingKeeps DEF VettingInv, VerifiedAsReviewed
<1>1. ASSUME NEW p \in People, NEW w \in Vehicles, NEW i \in Identities, createVehicle(p, w, i)
      PROVE  vehicle'[v].identity = reviewed'[v]
  BY <1>0, <1>1 DEF createVehicle, VettingInv, VettingTypeOK
<1>2. ASSUME NEW w \in Vehicles, deactivateVehicle(w)
      PROVE  vehicle'[v].identity = reviewed'[v]
  BY <1>0, <1>2 DEF deactivateVehicle, VettingInv, VettingTypeOK
<1>3. ASSUME NEW q \in Requests, NEW w \in Vehicles, NEW b \in BOOLEAN, reviewVehicle(q, w, b)
      PROVE  vehicle'[v].identity = reviewed'[v]
  BY <1>0, <1>3 DEF reviewVehicle, VettingInv, VettingTypeOK
<1>4. ASSUME NEW q \in Requests, writeVehicle(q)
      PROVE  vehicle'[v].identity = reviewed'[v]
  <2>1. RequestFits(vetting[q]) /\ RequestHolds(vetting[q]) /\ vetting[q].pc = "writeVehicle"
    BY <1>4, OwnRequest DEF writeVehicle, On
  <2>2. CASE v # vetting[q].on \/ UNCHANGED vehicle
    BY <1>0, <1>4, <2>1, <2>2 DEF writeVehicle, VettingInv, VettingTypeOK, RequestFits
  <2>3. CASE v = vetting[q].on /\ ~UNCHANGED vehicle
    <3>0. vehicle[v] \in VehicleRow /\ v \in Vehicles
      BY DEF VettingInv, VettingTypeOK, VehicleRow
    <3>1. vehicle'[v].isVerified = payload(v, q)
      <4>1. vehicle' = [vehicle EXCEPT ![v].identity =
                          IF vetting[q].value = Nothing THEN @ ELSE vetting[q].value,
                                       ![v].isVerified = payload(v, q)]
        BY <1>4, <2>3 DEF writeVehicle
      <4> DEFINE p == payload(v, q)
      <4> HIDE DEF p
      <4>2. vehicle'[v].isVerified = p
        BY <3>0, <4>1 DEF VettingInv, VettingTypeOK, VehicleRow, p
      <4>3. QED
        BY <4>2 DEF p
    <3>2. vehicle[v].isVerified /\ vetting[q].value = Nothing
      BY <1>0, <2>1, <2>3, <3>1 DEF payload, RequestHolds
    <3>3. vehicle'[v].identity = vehicle[v].identity
      BY <1>4, <2>1, <2>3, <3>2 DEF writeVehicle, VettingInv, VettingTypeOK, RequestFits
    <3>4. QED
      BY <1>0, <1>4, <3>2, <3>3 DEF writeVehicle
  <2>4. QED
    BY <2>2, <2>3
<1>5. QED
  BY <1>0, <1>1, <1>2, <1>3, <1>4 DEF VettingNext, vetVars, becomeDriver, reviewDriver,
     updateVehicle, uploadDocument, removeDocument, reviewDocument, promoteToDriver, record,
     drop, addDocument, deleteRow, deleteFile, writeReview

\* A file goes after its row.
LEMMA FilesStep == ASSUME VettingInv, [VettingNext]_vetVars PROVE DocumentsHaveFiles'
<1> SUFFICES ASSUME NEW k \in Documents, document'[k] \in {"PENDING", "APPROVED", "REJECTED"}
             PROVE  k \in files'
  BY DEF DocumentsHaveFiles
<1>0. document[k] \in {"PENDING", "APPROVED", "REJECTED"} => k \in files
  BY DEF VettingInv, DocumentsHaveFiles
<1>1. ASSUME NEW q \in Requests, addDocument(q) PROVE k \in files'
  BY <1>0, <1>1, OwnRequest DEF addDocument, On, RequestHolds, VettingInv, VettingTypeOK
<1>2. ASSUME NEW q \in Requests, deleteRow(q) PROVE k \in files'
  BY <1>0, <1>2 DEF deleteRow, VettingInv, VettingTypeOK
<1>3. ASSUME NEW q \in Requests, deleteFile(q) PROVE k \in files'
  BY <1>0, <1>3, OwnRequest DEF deleteFile, On, RequestHolds
<1>4. ASSUME NEW q \in Requests, writeReview(q) PROVE k \in files'
  BY <1>0, <1>4, OwnRequest DEF writeReview, On, RequestHolds, RequestFits, standing, VettingInv,
     VettingTypeOK
<1>5. QED
  BY <1>0, <1>1, <1>2, <1>3, <1>4 DEF VettingNext, vetVars, becomeDriver, reviewDriver,
     createVehicle, updateVehicle, reviewVehicle, uploadDocument, deactivateVehicle,
     removeDocument, reviewDocument, promoteToDriver, record, drop, writeVehicle

LEMMA VettingStep == ASSUME VettingInv, [VettingNext]_vetVars PROVE VettingInv'
  BY VettingTypes, RequestsHold, UploadsStep, VerifiedStep, FilesStep DEF VettingInv

\* Requests of drivers and administrators overlap in any order: what each relies
\* on after its check holds, or a review raced the vehicle it is about.
THEOREM VettingInvariance == VettingSpec => []VettingInv
  BY VettingStarts, VettingStep, PTL DEF VettingSpec

\* A verified vehicle is what the administrator has verified, whatever edits and
\* reviews overlap (vehicle.service.js:40-50), unless an edit was in flight.
THEOREM VerifiedIsReviewed == VettingSpec => []VerifiedAsReviewed
<1>1. VettingInv => VerifiedAsReviewed
  BY DEF VettingInv
<1>2. QED
  BY <1>1, VettingInvariance, PTL

\* Every document that can be downloaded has its file (vehicle.service.js:80-100).
THEOREM FilesOutliveRows == VettingSpec => []DocumentsHaveFiles
<1>1. VettingInv => DocumentsHaveFiles
  BY DEF VettingInv
<1>2. QED
  BY <1>1, VettingInvariance, PTL

-----------------------------------------------------------------------------
(* StartCode.  Whoever compares a wrong code has counted it first: what    *)
(* has been guessed and what is about to be never exceeds the counter, nor *)
(* what the counter admits; and the counter that could forget them has     *)
(* been given a window that ends after the code does.                      *)

Comparing == {a \in Attempters : attempt[a] \in {"expire", "compare"}}

CounterOutlivesCode == counter.left = Forever \/ counter.left + sinceArrival >= Window

GuessesCounted ==
    /\ guesses + Cardinality(Comparing) <= counter.value
    /\ guesses + Cardinality(Comparing) <= MaxAttempts

CodeInv ==
    /\ sinceArrival \in Nat /\ guesses \in Nat /\ named \in BOOLEAN
    /\ counter \in [value : Nat, left : 1 .. Forever]
    /\ attempt \in [Attempters -> {"done", "incr", "expire", "compare", "update"}]
    /\ IsFiniteSet(Comparing)
    /\ sinceArrival <= Validity /\ ~named => CounterOutlivesCode /\ GuessesCounted

\* What a step does to the set of those who compare.
LEMMA OneMoreCompares ==
  ASSUME CodeInv, NEW a \in Attempters, a \notin Comparing, NEW pc \in {"expire", "compare"},
         attempt' = [attempt EXCEPT ![a] = pc]
  PROVE  IsFiniteSet(Comparing') /\ Cardinality(Comparing') = Cardinality(Comparing) + 1
<1>1. Comparing' = Comparing \cup {a}
  BY DEF Comparing, CodeInv
<1>2. QED
  BY <1>1, FS_AddElement DEF CodeInv

LEMMA OneLessCompares ==
  ASSUME CodeInv, NEW a \in Attempters, a \in Comparing, NEW pc \in {"done", "update"},
         attempt' = [attempt EXCEPT ![a] = pc]
  PROVE  IsFiniteSet(Comparing') /\ Cardinality(Comparing') = Cardinality(Comparing) - 1
<1>1. Comparing' = Comparing \ {a}
  BY DEF Comparing, CodeInv
<1>2. QED
  BY <1>1, FS_RemoveElement DEF CodeInv

LEMMA CompareCount == ASSUME CodeInv PROVE Cardinality(Comparing) \in Nat
  BY FS_CardinalityType DEF CodeInv

LEMMA CodeStarts == CodeInit => CodeInv
<1> SUFFICES ASSUME CodeInit PROVE CodeInv
  OBVIOUS
<1>1. Comparing = {}
  BY DEF CodeInit, Comparing
<1>2. IsFiniteSet(Comparing) /\ Cardinality(Comparing) = 0
  BY <1>1, FS_EmptySet
<1>3. counter \in [value : Nat, left : 1 .. Forever]
  BY WindowAssumption DEF CodeInit, NoCounter, Forever
<1>4. CounterOutlivesCode /\ GuessesCounted
  BY <1>2, WindowAssumption DEF CodeInit, NoCounter, CounterOutlivesCode, GuessesCounted
<1>5. QED
  BY <1>2, <1>3, <1>4 DEF CodeInit, CodeInv

LEMMA CodeStep == ASSUME CodeInv, [CodeNext]_codeVars PROVE CodeInv'
<1> USE WindowAssumption DEF Forever
<1>0. Cardinality(Comparing) \in Nat
  BY CompareCount
<1>1. ASSUME NEW a \in Attempters, startRide(a) PROVE CodeInv'
  <2>1. Comparing' = Comparing
    BY <1>1 DEF startRide, Comparing, CodeInv
  <2>2. QED
    BY <1>1, <2>1 DEF startRide, CodeInv, CounterOutlivesCode, GuessesCounted
<1>2. ASSUME NEW a \in Attempters, incr(a) PROVE CodeInv'
  <2> DEFINE n == counter.value + 1
             pc == IF n = 1 THEN "expire" ELSE IF admit(n) THEN "compare" ELSE "done"
  <2>1. a \notin Comparing /\ n \in Nat /\ attempt' = [attempt EXCEPT ![a] = pc]
    BY <1>2 DEF incr, Comparing, CodeInv
  <2>2. counter' \in [value : Nat, left : 1 .. Forever] /\ counter'.value = n
        /\ counter'.left = counter.left
    BY <1>2 DEF incr, CodeInv
  <2>3. attempt' \in [Attempters -> {"done", "incr", "expire", "compare", "update"}]
    BY <2>1 DEF CodeInv
  <2>4. UNCHANGED <<sinceArrival, guesses, named>>
    BY <1>2 DEF incr
  <2> HIDE DEF pc
  <2>5. CASE pc \in {"expire", "compare"}
    <3>1. IsFiniteSet(Comparing') /\ Cardinality(Comparing') = Cardinality(Comparing) + 1
      BY <2>1, <2>5, OneMoreCompares
    <3>2. n <= MaxAttempts
      BY <2>1, <2>5 DEF pc, admit
    <3>3. sinceArrival <= Validity /\ ~named => GuessesCounted'
      BY <1>0, <2>2, <2>4, <3>1, <3>2 DEF CodeInv, GuessesCounted
    <3>4. QED
      BY <2>2, <2>3, <2>4, <3>1, <3>3 DEF CodeInv, CounterOutlivesCode
  <2>6. CASE pc = "done"
    <3>1. Comparing' = Comparing
      BY <2>1, <2>6 DEF Comparing, CodeInv
    <3>2. sinceArrival <= Validity /\ ~named => GuessesCounted'
      BY <1>0, <2>2, <2>4, <3>1 DEF CodeInv, GuessesCounted
    <3>3. QED
      BY <2>2, <2>3, <2>4, <3>1, <3>2 DEF CodeInv, CounterOutlivesCode
  <2>7. QED
    BY <2>5, <2>6 DEF pc
<1>3. ASSUME NEW a \in Attempters, expire(a) PROVE CodeInv'
  <2>1. Comparing' = Comparing
    BY <1>3 DEF expire, Comparing, CodeInv
  <2>2. counter' \in [value : Nat, left : 1 .. Forever] /\ counter'.value = counter.value
    BY <1>3 DEF expire, CodeInv
  <2>3. counter'.left = IF counter.value = 0 THEN counter.left ELSE Window
    BY <1>3 DEF expire, CodeInv
  <2>4. sinceArrival <= Validity /\ ~named => CounterOutlivesCode'
    BY <1>3, <2>3 DEF expire, CodeInv, CounterOutlivesCode
  <2>5. QED
    BY <1>3, <2>1, <2>2, <2>4 DEF expire, CodeInv, GuessesCounted
<1>4. ASSUME NEW a \in Attempters, wrongCode(a) PROVE CodeInv'
  <2>1. a \in Comparing /\ attempt' = [attempt EXCEPT ![a] = "done"]
    BY <1>4 DEF wrongCode, Comparing
  <2>2. IsFiniteSet(Comparing') /\ Cardinality(Comparing') = Cardinality(Comparing) - 1
    BY <2>1, OneLessCompares
  <2>3. sinceArrival <= Validity /\ ~named => GuessesCounted'
    BY <1>0, <1>4, <2>2 DEF wrongCode, CodeInv, GuessesCounted
  <2>4. QED
    BY <1>4, <2>2, <2>3 DEF wrongCode, CodeInv, CounterOutlivesCode
<1>5. ASSUME NEW a \in Attempters, rightCode(a) PROVE CodeInv'
  <2>1. a \in Comparing /\ attempt' = [attempt EXCEPT ![a] = "update"]
    BY <1>5 DEF rightCode, Comparing
  <2>2. IsFiniteSet(Comparing')
    BY <2>1, OneLessCompares
  <2>3. counter' \in [value : Nat, left : 1 .. Forever]
    BY <1>5 DEF rightCode, NoCounter
  <2>4. QED
    BY <1>5, <2>2, <2>3 DEF rightCode, CodeInv
<1>6. ASSUME NEW a \in Attempters, updateStatus(a) PROVE CodeInv'
  <2>1. Comparing' = Comparing
    BY <1>6 DEF updateStatus, Comparing, CodeInv
  <2>2. QED
    BY <1>6, <2>1 DEF updateStatus, CodeInv, CounterOutlivesCode, GuessesCounted
<1>7. ASSUME NEW a \in Attempters, abandonAttempt(a) PROVE CodeInv'
  <2>1. attempt' = [attempt EXCEPT ![a] = "done"]
    BY <1>7 DEF abandonAttempt
  <2>2. IsFiniteSet(Comparing') /\ Cardinality(Comparing') <= Cardinality(Comparing)
        /\ Cardinality(Comparing') \in Nat
    <3>1. CASE a \in Comparing
      <4>1. IsFiniteSet(Comparing') /\ Cardinality(Comparing') = Cardinality(Comparing) - 1
        BY <2>1, <3>1, OneLessCompares
      <4>2. Cardinality(Comparing') \in Nat
        BY <4>1, FS_CardinalityType
      <4>3. QED
        BY <1>0, <4>1, <4>2
    <3>2. CASE a \notin Comparing
      <4>1. Comparing' = Comparing
        BY <2>1, <3>2 DEF Comparing, CodeInv
      <4>2. QED
        BY <1>0, <4>1 DEF CodeInv
    <3>3. QED
      BY <3>1, <3>2
  <2>3. sinceArrival <= Validity /\ ~named => GuessesCounted'
    BY <1>0, <1>7, <2>2 DEF abandonAttempt, CodeInv, GuessesCounted
  <2>4. QED
    BY <1>7, <2>2, <2>3 DEF abandonAttempt, CodeInv, CounterOutlivesCode
<1>8. ASSUME minutesPass PROVE CodeInv'
  <2>1. Comparing' = Comparing
    BY <1>8 DEF minutesPass, Comparing
  <2>2. sinceArrival' \in Nat /\ sinceArrival <= sinceArrival'
        /\ (sinceArrival <= Validity => sinceArrival' = sinceArrival + 1)
    BY <1>8 DEF minutesPass, CodeInv
  <2>3. CASE counter.left = Forever
    <3>1. counter' = counter
      BY <1>8, <2>3 DEF minutesPass
    <3>2. QED
      BY <1>8, <2>1, <2>2, <2>3, <3>1 DEF minutesPass, CodeInv, CounterOutlivesCode, GuessesCounted
  <2>4. CASE counter.left = 1
    <3>1. counter' = NoCounter
      BY <1>8, <2>4 DEF minutesPass, CodeInv
    <3>2. counter' \in [value : Nat, left : 1 .. Forever]
      BY <3>1 DEF NoCounter
    <3>3. ~(sinceArrival' <= Validity /\ ~named')
      BY <1>8, <2>2, <2>4 DEF minutesPass, CodeInv, CounterOutlivesCode
    <3>4. QED
      BY <1>8, <2>1, <2>2, <3>2, <3>3 DEF minutesPass, CodeInv
  <2>5. CASE counter.left \notin {1, Forever}
    <3>1. counter' = [counter EXCEPT !.left = @ - 1]
      BY <1>8, <2>5 DEF minutesPass
    <3>2. counter' \in [value : Nat, left : 1 .. Forever] /\ counter'.value = counter.value
          /\ counter'.left = counter.left - 1
      BY <2>5, <3>1 DEF CodeInv
    <3>3. sinceArrival' <= Validity /\ ~named' => CounterOutlivesCode' /\ GuessesCounted'
      BY <1>8, <2>1, <2>2, <2>5, <3>2
         DEF minutesPass, CodeInv, CounterOutlivesCode, GuessesCounted
    <3>4. QED
      BY <1>8, <2>1, <2>2, <3>2, <3>3 DEF minutesPass, CodeInv
  <2>6. QED
    BY <2>3, <2>4, <2>5
<1>9. CASE UNCHANGED codeVars
  BY <1>9 DEF codeVars, CodeInv, Comparing, CounterOutlivesCode, GuessesCounted
<1>10. QED
  BY <1>1, <1>2, <1>3, <1>4, <1>5, <1>6, <1>7, <1>8, <1>9 DEF CodeNext

\* However many requests try codes at once and wherever they die, no more wrong
\* ones are compared than MAX_OTP_ATTEMPTS while the code is valid and nobody
\* has named the right one (ride.service.js:297).
THEOREM GuessesAreBounded == CodeSpec => []GuessesBounded
<1>1. CodeInv => GuessesBounded
  BY CompareCount, WindowAssumption DEF CodeInv, GuessesBounded, GuessesCounted
<1>2. QED
  BY <1>1, CodeStarts, CodeStep, PTL DEF CodeSpec

\* Every attempt counts itself once, and compares once.
AttemptsAt(P) == {a \in Attempters : attempt[a] \in P}
Counting == {"incr"}
Guessing == {"incr", "expire", "compare"}

CountsHold ==
    /\ stage \in {"ARRIVED", "IN_PROGRESS"} /\ sinceArrival <= Validity + 1
    /\ started \in 0 .. MaxStarts
    /\ IsFiniteSet(AttemptsAt(Counting))
    /\ counter.value + Cardinality(AttemptsAt(Counting)) <= started
    /\ IsFiniteSet(AttemptsAt(Guessing))
    /\ guesses + Cardinality(AttemptsAt(Guessing)) <= started

LEMMA AttemptMoves ==
  ASSUME CodeInv, NEW a \in Attempters, NEW P, IsFiniteSet(AttemptsAt(P)), NEW pc,
         attempt' = [attempt EXCEPT ![a] = pc]
  PROVE  /\ IsFiniteSet(AttemptsAt(P)') /\ Cardinality(AttemptsAt(P)') \in Nat
         /\ Cardinality(AttemptsAt(P)) \in Nat
         /\ attempt[a] \in P /\ pc \in P =>
               Cardinality(AttemptsAt(P)') = Cardinality(AttemptsAt(P))
         /\ attempt[a] \in P /\ pc \notin P =>
               Cardinality(AttemptsAt(P)') = Cardinality(AttemptsAt(P)) - 1
         /\ attempt[a] \notin P /\ pc \in P =>
               Cardinality(AttemptsAt(P)') = Cardinality(AttemptsAt(P)) + 1
         /\ attempt[a] \notin P /\ pc \notin P =>
               Cardinality(AttemptsAt(P)') = Cardinality(AttemptsAt(P))
<1> DEFINE S == AttemptsAt(P)  T == AttemptsAt(P)'
<1>1. /\ a \in S <=> attempt[a] \in P
      /\ pc \in P => T = S \cup {a}
      /\ pc \notin P => T = S \ {a}
  BY DEF AttemptsAt, CodeInv
<1>2. IsFiniteSet(S)
  OBVIOUS
<1> HIDE DEF S, T
<1>3. /\ IsFiniteSet(S \cup {a}) /\ IsFiniteSet(S \ {a})
      /\ Cardinality(S) \in Nat /\ Cardinality(S \cup {a}) \in Nat
      /\ Cardinality(S \ {a}) \in Nat
      /\ a \in S => Cardinality(S \cup {a}) = Cardinality(S)
      /\ a \in S => Cardinality(S \ {a}) = Cardinality(S) - 1
      /\ a \notin S => Cardinality(S \cup {a}) = Cardinality(S) + 1
      /\ a \notin S => Cardinality(S \ {a}) = Cardinality(S)
  BY <1>2, FS_AddElement, FS_RemoveElement, FS_CardinalityType
<1>4. QED
  BY <1>1, <1>3 DEF S, T

LEMMA CountsStart == CodeInit => CountsHold
<1> SUFFICES ASSUME CodeInit PROVE CountsHold
  OBVIOUS
<1>1. AttemptsAt(Counting) = {} /\ AttemptsAt(Guessing) = {}
  BY DEF CodeInit, AttemptsAt, Counting, Guessing
<1>2. QED
  BY <1>1, FS_EmptySet, WindowAssumption DEF CodeInit, NoCounter, CountsHold

LEMMA CountTypes ==
  ASSUME CodeInv, CountsHold
  PROVE  /\ sinceArrival \in Nat /\ guesses \in Nat /\ started \in Nat /\ counter.value \in Nat
         /\ Validity \in Nat /\ MaxStarts \in Nat /\ started <= MaxStarts
         /\ Cardinality(AttemptsAt(Counting)) \in Nat /\ Cardinality(AttemptsAt(Guessing)) \in Nat
         /\ IsFiniteSet(AttemptsAt(Counting)) /\ IsFiniteSet(AttemptsAt(Guessing))
  BY WindowAssumption, FS_CardinalityType DEF CodeInv, CountsHold

LEMMA CountsOn ==
  ASSUME CodeInv, CountsHold, NEW a \in Attempters, NEW pc,
         attempt' = [attempt EXCEPT ![a] = pc], pc # "incr",
         UNCHANGED <<stage, sinceArrival, started>>,
         counter'.value \in Nat, guesses' \in Nat,
         \/ counter'.value <= counter.value
         \/ counter'.value = counter.value + 1 /\ attempt[a] = "incr",
         \/ guesses' = guesses
         \/ guesses' = guesses + 1 /\ attempt[a] = "compare" /\ pc = "done",
         pc \in Guessing => attempt[a] \in Guessing
  PROVE  CountsHold'
<1>0. /\ guesses \in Nat /\ started \in Nat /\ counter.value \in Nat
      /\ Cardinality(AttemptsAt(Counting)) \in Nat /\ Cardinality(AttemptsAt(Guessing)) \in Nat
      /\ IsFiniteSet(AttemptsAt(Counting)) /\ IsFiniteSet(AttemptsAt(Guessing))
  BY CountTypes
<1> DEFINE I == Cardinality(AttemptsAt(Counting))  In == Cardinality(AttemptsAt(Counting)')
           G == Cardinality(AttemptsAt(Guessing))  Gn == Cardinality(AttemptsAt(Guessing)')
<1>1. /\ IsFiniteSet(AttemptsAt(Counting)') /\ In \in Nat
      /\ attempt[a] \in Counting /\ pc \notin Counting => In = I - 1
      /\ attempt[a] \notin Counting /\ pc \notin Counting => In = I
  BY <1>0, AttemptMoves
<1>2. /\ IsFiniteSet(AttemptsAt(Guessing)') /\ Gn \in Nat
      /\ attempt[a] \in Guessing /\ pc \in Guessing => Gn = G
      /\ attempt[a] \in Guessing /\ pc \notin Guessing => Gn = G - 1
      /\ attempt[a] \notin Guessing /\ pc \notin Guessing => Gn = G
  BY <1>0, AttemptMoves
<1> HIDE DEF I, In, G, Gn
<1>3. I \in Nat /\ G \in Nat
  BY <1>0 DEF I, G
<1>4. counter.value + I <= started /\ guesses + G <= started
  BY DEF CountsHold, I, G
<1>5. In <= I /\ (attempt[a] = "incr" => In = I - 1)
  BY <1>1, <1>3 DEF Counting
<1>6. Gn <= G /\ (attempt[a] = "compare" /\ pc = "done" => Gn = G - 1)
  BY <1>2, <1>3 DEF Guessing
<1>7. counter'.value + In <= started
  BY <1>0, <1>1, <1>3, <1>4, <1>5
<1>8. guesses' + Gn <= started
  <2>1. CASE guesses' = guesses
    BY <1>0, <1>2, <1>3, <1>4, <1>6, <2>1
  <2>2. CASE guesses' = guesses + 1 /\ attempt[a] = "compare" /\ pc = "done"
    BY <1>0, <1>2, <1>3, <1>4, <1>6, <2>2
  <2>3. QED
    BY <2>1, <2>2
<1>9. QED
  BY <1>1, <1>2, <1>7, <1>8 DEF CountsHold, In, Gn

LEMMA CountsStep == ASSUME CodeInv, CountsHold, [CodeNext]_codeVars PROVE CountsHold'
<1>0. /\ sinceArrival \in Nat /\ guesses \in Nat /\ started \in Nat /\ counter.value \in Nat
      /\ Validity \in Nat /\ MaxStarts \in Nat /\ started <= MaxStarts
      /\ Cardinality(AttemptsAt(Counting)) \in Nat /\ Cardinality(AttemptsAt(Guessing)) \in Nat
      /\ IsFiniteSet(AttemptsAt(Counting)) /\ IsFiniteSet(AttemptsAt(Guessing))
  BY CountTypes
<1>1. ASSUME NEW a \in Attempters, startRide(a) PROVE CountsHold'
  <2>1. attempt' = [attempt EXCEPT ![a] = "incr"] /\ attempt[a] = "done"
    BY <1>1 DEF startRide
  <2>2. /\ attempt[a] \notin Counting /\ "incr" \in Counting
        /\ attempt[a] \notin Guessing /\ "incr" \in Guessing
    BY <2>1 DEF Counting, Guessing
  <2>3. /\ IsFiniteSet(AttemptsAt(Counting)')
        /\ Cardinality(AttemptsAt(Counting)') = Cardinality(AttemptsAt(Counting)) + 1
    BY <1>0, <2>1, <2>2, AttemptMoves
  <2>4. /\ IsFiniteSet(AttemptsAt(Guessing)')
        /\ Cardinality(AttemptsAt(Guessing)') = Cardinality(AttemptsAt(Guessing)) + 1
    BY <1>0, <2>1, <2>2, AttemptMoves
  <2>5. QED
    BY <1>0, <1>1, <2>3, <2>4 DEF startRide, CountsHold
<1>2. ASSUME NEW a \in Attempters, incr(a) PROVE CountsHold'
  <2> DEFINE pc == IF counter.value + 1 = 1 THEN "expire"
                   ELSE IF admit(counter.value + 1) THEN "compare" ELSE "done"
  <2>1. /\ attempt' = [attempt EXCEPT ![a] = pc] /\ attempt[a] = "incr"
        /\ counter'.value = counter.value + 1
        /\ UNCHANGED <<stage, sinceArrival, started, guesses>>
    BY <1>2 DEF incr, CodeInv
  <2>2. pc # "incr"
    OBVIOUS
  <2> HIDE DEF pc
  <2>3. attempt[a] \in Guessing /\ counter'.value \in Nat /\ guesses' \in Nat
    BY <1>0, <2>1 DEF Guessing
  <2>4. QED
    BY <2>1, <2>2, <2>3, CountsOn
<1>3. ASSUME NEW a \in Attempters, expire(a) PROVE CountsHold'
  <2>1. /\ attempt' = [attempt EXCEPT ![a] = "compare"] /\ attempt[a] \in Guessing
        /\ counter'.value = counter.value /\ counter'.value <= counter.value
        /\ counter'.value \in Nat /\ guesses' \in Nat
        /\ UNCHANGED <<stage, sinceArrival, started, guesses>>
    BY <1>0, <1>3 DEF expire, CodeInv, Guessing
  <2>2. QED
    BY <2>1, CountsOn
<1>4. ASSUME NEW a \in Attempters, wrongCode(a) PROVE CountsHold'
  <2>1. /\ attempt' = [attempt EXCEPT ![a] = "done"] /\ attempt[a] = "compare"
        /\ counter'.value <= counter.value
        /\ counter'.value \in Nat /\ guesses' \in Nat /\ guesses' = guesses + 1
        /\ UNCHANGED <<stage, sinceArrival, started>> /\ "done" \notin Guessing
    BY <1>0, <1>4 DEF wrongCode, Guessing
  <2>2. QED
    BY <2>1, CountsOn
<1>5. ASSUME NEW a \in Attempters, rightCode(a) PROVE CountsHold'
  <2>1. /\ attempt' = [attempt EXCEPT ![a] = "update"]
        /\ counter'.value \in Nat /\ counter'.value <= counter.value /\ guesses' \in Nat
        /\ UNCHANGED <<stage, sinceArrival, started, guesses>> /\ "update" \notin Guessing
    BY <1>0, <1>5 DEF rightCode, NoCounter, Guessing
  <2>2. QED
    BY <2>1, CountsOn
<1>6. ASSUME NEW a \in Attempters, updateStatus(a) PROVE CountsHold'
  <2>1. attempt' = [attempt EXCEPT ![a] = "done"] /\ attempt[a] = "update"
    BY <1>6 DEF updateStatus
  <2>2. /\ attempt[a] \notin Counting /\ "done" \notin Counting
        /\ attempt[a] \notin Guessing /\ "done" \notin Guessing
    BY <2>1 DEF Counting, Guessing
  <2>3. /\ IsFiniteSet(AttemptsAt(Counting)')
        /\ Cardinality(AttemptsAt(Counting)') = Cardinality(AttemptsAt(Counting))
    BY <1>0, <2>1, <2>2, AttemptMoves
  <2>4. /\ IsFiniteSet(AttemptsAt(Guessing)')
        /\ Cardinality(AttemptsAt(Guessing)') = Cardinality(AttemptsAt(Guessing))
    BY <1>0, <2>1, <2>2, AttemptMoves
  <2>5. QED
    BY <1>0, <1>6, <2>3, <2>4 DEF updateStatus, CountsHold
<1>7. ASSUME NEW a \in Attempters, abandonAttempt(a) PROVE CountsHold'
  <2>1. /\ attempt' = [attempt EXCEPT ![a] = "done"]
        /\ counter'.value <= counter.value /\ counter'.value \in Nat /\ guesses' \in Nat
        /\ UNCHANGED <<stage, sinceArrival, started, guesses>> /\ "done" \notin Guessing
    BY <1>0, <1>7 DEF abandonAttempt, Guessing
  <2>2. QED
    BY <2>1, CountsOn
<1>8. ASSUME minutesPass PROVE CountsHold'
  <2>1. AttemptsAt(Counting)' = AttemptsAt(Counting) /\ AttemptsAt(Guessing)' = AttemptsAt(Guessing)
    BY <1>8 DEF minutesPass, AttemptsAt
  <2>2. counter'.value \in Nat /\ counter'.value <= counter.value
    BY <1>0, <1>8 DEF minutesPass, CodeInv, NoCounter
  <2>3. sinceArrival' <= Validity + 1
    BY <1>0, <1>8 DEF minutesPass, CountsHold
  <2>4. QED
    BY <1>0, <1>8, <2>1, <2>2, <2>3 DEF minutesPass, CountsHold
<1>9. CASE UNCHANGED codeVars
  BY <1>9 DEF codeVars, CountsHold, AttemptsAt
<1>10. QED
  BY <1>1, <1>2, <1>3, <1>4, <1>5, <1>6, <1>7, <1>8, <1>9 DEF CodeNext

LEMMA CodeInvariance == CodeSpec => [](CodeInv /\ CountsHold)
  BY CodeStarts, CodeStep, CountsStart, CountsStep, PTL DEF CodeSpec

\* No counter of the attempts at a code counts more than were made
\* (ride.service.js:297).
THEOREM CodeTypes == CodeSpec => []CodeTypeOK
<1>1. CodeInv /\ CountsHold => CodeTypeOK
  <2> SUFFICES ASSUME CodeInv, CountsHold PROVE CodeTypeOK
    OBVIOUS
  <2>1. /\ Cardinality(AttemptsAt(Counting)) \in Nat
        /\ Cardinality(AttemptsAt(Guessing)) \in Nat
    BY FS_CardinalityType DEF CountsHold
  <2>2. counter.value \in 0 .. MaxStarts /\ guesses \in 0 .. MaxStarts
    BY <2>1, WindowAssumption DEF CodeInv, CountsHold
  <2>3. counter \in [value : 0 .. MaxStarts, left : 1 .. Forever]
    BY <2>2 DEF CodeInv
  <2>4. sinceArrival \in 0 .. Validity + 1
    BY WindowAssumption DEF CodeInv, CountsHold
  <2>5. QED
    BY <2>2, <2>3, <2>4 DEF CodeInv, CountsHold, CodeTypeOK
<1>2. QED
  BY <1>1, CodeInvariance, PTL

-----------------------------------------------------------------------------
(* Coupons.  What is quoted is the least of two amounts, one of them the   *)
(* whole fare, rounded to the nearest cent: rounding cannot pass the fare, *)
(* which is a whole number of cents.                                       *)

LEMMA RoundingStays ==
  ASSUME NEW x \in Nat, NEW fare \in Nat, x <= fare * Unit
  PROVE  toCents(x) \in Nat /\ toCents(x) <= fare
<1>1. Unit = 10000 /\ Unit \div 2 = 5000
  BY DEF Unit, Percent
<1>2. toCents(x) = (x + 5000) \div 10000
  BY <1>1 DEF toCents
<1>3. x + 5000 \in Nat /\ x + 5000 < 10000 * (fare + 1)
  BY <1>1
<1>4. QED
  BY <1>2, <1>3

LEMMA DiscountIsAmount ==
  ASSUME NEW k \in Coupon, NEW fare \in Fares
  PROVE  capped(discountOf(k, fare), k.maxDiscount) \in Nat
<1>0. k.discountValue \in Values /\ Unit = 10000
  BY DEF Coupon, Unit, Percent
<1>1. fare \in Nat /\ k.discountValue \in Nat /\ Unit \in Nat
  <2>1. fare \in Nat
    BY MoneyAssumption
  <2>2. k.discountValue \in Nat
    BY <1>0, MoneyAssumption
  <2>3. QED
    BY <1>0, <2>1, <2>2
<1>2. k.maxDiscount = Unlimited \/ k.maxDiscount \in Nat
  BY MoneyAssumption DEF Coupon
<1>3. discountOf(k, fare) \in Nat
  BY <1>1 DEF discountOf
<1>4. ASSUME k.maxDiscount \in Nat PROVE k.maxDiscount * Unit \in Nat
  BY <1>1, <1>4
<1>5. QED
  BY <1>2, <1>3, <1>4 DEF capped, Lower

LEMMA QuoteFits ==
  ASSUME NEW k \in Coupon, NEW fare \in Fares
  PROVE  computeDiscount(k, fare) \in Nat /\ computeDiscount(k, fare) <= fare
<1> DEFINE x == Lower(capped(discountOf(k, fare), k.maxDiscount), fare * Unit)
<1>1. fare \in Nat /\ fare * Unit \in Nat
  BY MoneyAssumption DEF Unit, Percent
<1>2. x \in Nat /\ x <= fare * Unit
  BY <1>1, DiscountIsAmount DEF Lower
<1> HIDE DEF x
<1>3. toCents(x) \in Nat /\ toCents(x) <= fare
  BY <1>1, <1>2, RoundingStays
<1>4. QED
  BY <1>3 DEF computeDiscount, x

CouponInv == CouponTypeOK /\ DiscountFits

LEMMA CouponStarts == CouponInit => CouponInv
  BY DEF CouponInit, CouponInv, CouponTypeOK, DiscountFits, NoQuote

LEMMA CouponStep == ASSUME CouponInv, [CouponNext]_couponVars PROVE CouponInv'
<1>1. ASSUME NEW c \in Codes, NEW fare \in Fares, quote(c, fare) PROVE CouponInv'
  <2>1. coupon[c] \in Coupon /\ fare \in Nat
    BY <1>1, MoneyAssumption DEF quote, validateCoupon, CouponInv, CouponTypeOK
  <2>2. computeDiscount(coupon[c], fare) \in Nat /\ computeDiscount(coupon[c], fare) <= fare
    BY <2>1, QuoteFits
  <2>3. QED
    BY <1>1, <2>1, <2>2 DEF quote, CouponInv, CouponTypeOK, DiscountFits
<1>2. ASSUME NEW c \in Codes, NEW type \in {"PERCENTAGE", "FIXED"}, NEW value \in Values,
             NEW max \in Values \cup {Unlimited}, NEW min \in Values \cup {Unlimited},
             NEW from \in Days, NEW to \in Days,
             createCoupon(c, type, value, max, min, from, to)
      PROVE  CouponInv'
  <2> DEFINE row == [discountType |-> type, discountValue |-> value, maxDiscount |-> max,
                     minRideFare |-> min, validFrom |-> from, validTo |-> to, isActive |-> TRUE]
  <2>1. row \in Coupon
    BY DEF Coupon
  <2>2. coupon' = [coupon EXCEPT ![c] = row] /\ UNCHANGED <<today, quoted>>
    BY <1>2 DEF createCoupon
  <2> HIDE DEF row
  <2>3. QED
    BY <2>1, <2>2 DEF CouponInv, CouponTypeOK, DiscountFits
<1>3. ASSUME NEW c \in Codes, updateCoupon(c) PROVE CouponInv'
  <2>1. coupon[c] \in Coupon
    BY <1>3 DEF updateCoupon, CouponInv, CouponTypeOK
  <2>2. PICK row \in Coupon : coupon' = [coupon EXCEPT ![c] = row]
    <3>1. ASSUME NEW x \in Values PROVE [coupon[c] EXCEPT !.discountValue = x] \in Coupon
      BY <2>1 DEF Coupon
    <3>2. ASSUME NEW x \in Values PROVE [coupon[c] EXCEPT !.maxDiscount = x] \in Coupon
      BY <2>1 DEF Coupon
    <3>3. ASSUME NEW x \in Values PROVE [coupon[c] EXCEPT !.minRideFare = x] \in Coupon
      BY <2>1 DEF Coupon
    <3>4. ASSUME NEW d \in Days PROVE [coupon[c] EXCEPT !.validFrom = d] \in Coupon
      BY <2>1 DEF Coupon
    <3>5. ASSUME NEW d \in Days PROVE [coupon[c] EXCEPT !.validTo = d] \in Coupon
      BY <2>1 DEF Coupon
    <3>6. ASSUME NEW b \in BOOLEAN PROVE [coupon[c] EXCEPT !.isActive = b] \in Coupon
      BY <2>1 DEF Coupon
    <3>7. QED
      BY <1>3, <3>1, <3>2, <3>3, <3>4, <3>5, <3>6 DEF updateCoupon
  <2>3. QED
    BY <1>3, <2>2 DEF updateCoupon, CouponInv, CouponTypeOK, DiscountFits
<1>4. ASSUME nextDay PROVE CouponInv'
  BY <1>4, DaysAssumption DEF nextDay, CouponInv, CouponTypeOK, DiscountFits
<1>5. CASE UNCHANGED couponVars
  BY <1>5 DEF couponVars, CouponInv, CouponTypeOK, DiscountFits
<1>6. QED
  BY <1>1, <1>2, <1>3, <1>4, <1>5 DEF CouponNext

\* The types of coupons, in whatever order administrators edit their fields.
THEOREM CouponTypes == CouponSpec => []CouponTypeOK
<1>1. CouponInv => CouponTypeOK
  BY DEF CouponInv
<1>2. QED
  BY <1>1, CouponStarts, CouponStep, PTL DEF CouponSpec

\* Whatever administrators made of a coupon, for every fare and every value: what
\* is taken off is no more than the fare (coupon.service.js:13).
THEOREM DiscountsFit == CouponSpec => []DiscountFits
<1>1. CouponInv => DiscountFits
  BY DEF CouponInv
<1>2. QED
  BY <1>1, CouponStarts, CouponStep, PTL DEF CouponSpec

-----------------------------------------------------------------------------
(* RideOffers.  A ride that was over when a search began stays over, and a *)
(* ride that was declined is still in the set of Redis as long as the      *)
(* search is measured against it; a driver who could not take a ride since *)
(* the search for drivers cannot take it now.                              *)

BookingRow == [status : {"NONE", "REQUESTED", "ACCEPTED", "OVER"}, driver : Takers \cup {Nobody}]
Rejection == [drivers : SUBSET Takers, lapses : BOOLEAN]
PollRow ==
    [pc : {"done", "vehicles", "search", "rows", "rejected"}, driver : Takers \cup {Nobody},
     near : SUBSET Bookings, found : SUBSET Bookings, closed : SUBSET Bookings,
     declined : SUBSET Bookings]
RefusalRow ==
    [pc : {"done", "sadd", "expire"}, driver : Takers \cup {Nobody},
     booking : Bookings \cup {Nobody}]
RequestOf ==
    [pc : {"done", "geoadd", "search", "look"}, near : SUBSET Takers, eligible : SUBSET Takers,
     unfit : SUBSET Takers]

Message == (Takers \cup Requesters) \X Bookings

PollHolds(p) ==
    /\ \A b \in p.closed : booking[b].status \in {"ACCEPTED", "OVER"}
    /\ \A b \in p.declined : p.driver \in rejectedBy[b].drivers
    /\ p.pc = "rejected" => p.near \cap p.closed = {}
    /\ p.found \cap p.closed = {}
    /\ p.found \cap p.declined = {}

RequestOfHolds(x) ==
    /\ x.unfit \cap ready = {}
    /\ x.eligible \cap x.unfit = {}

RefusalFits(x) == x.pc # "done" => x.driver \in Takers /\ x.booking \in Bookings

OfferInv ==
    /\ OfferTypeOK /\ CodeStaysWithPassenger
    /\ \A q \in Refusals : RefusalFits(refusal[q])
    /\ \A q \in Polls : PollHolds(poll[q])
    /\ \A b \in Bookings : RequestOfHolds(request[b])

LEMMA OfferRows ==
  OfferTypeOK <=>
    /\ booking \in [Bookings -> BookingRow] /\ ready \subseteq Takers
    /\ pendingSet \subseteq Bookings /\ rejectedBy \in [Bookings -> Rejection]
    /\ poll \in [Polls -> PollRow] /\ refusal \in [Refusals -> RefusalRow]
    /\ request \in [Bookings -> RequestOf] /\ told \subseteq Message
  BY DEF OfferTypeOK, BookingRow, Rejection, PollRow, RefusalRow, RequestOf, Message

\* Fields of rows, and rows with one of them changed.
LEMMA PollRows ==
  ASSUME NEW p \in PollRow, NEW pc \in {"done", "vehicles", "search", "rows", "rejected"},
         NEW S \in SUBSET Bookings, NEW F \in SUBSET Bookings, NEW D \in SUBSET Bookings
  PROVE  /\ [p EXCEPT !.pc = pc] \in PollRow
         /\ [p EXCEPT !.pc = pc, !.near = S] \in PollRow
         /\ [p EXCEPT !.near = S, !.found = F] \in PollRow
         /\ [p EXCEPT !.near = S, !.found = F, !.declined = D] \in PollRow
         /\ [p EXCEPT !.declined = D] \in PollRow
  BY DEF PollRow

LEMMA PollFields ==
  ASSUME NEW p \in PollRow
  PROVE  /\ p.near \subseteq Bookings /\ p.found \subseteq Bookings
         /\ p.closed \subseteq Bookings /\ p.declined \subseteq Bookings
         /\ p.driver \in Takers \cup {Nobody}
  BY DEF PollRow

LEMMA RequestOfRows ==
  ASSUME NEW x \in RequestOf, NEW pc \in {"done", "geoadd", "search", "look"},
         NEW S \in SUBSET Takers, NEW E \in SUBSET Takers
  PROVE  /\ [x EXCEPT !.pc = pc] \in RequestOf
         /\ [x EXCEPT !.near = S, !.eligible = E] \in RequestOf
         /\ [x EXCEPT !.unfit = S] \in RequestOf
         /\ x.near \subseteq Takers /\ x.eligible \subseteq Takers /\ x.unfit \subseteq Takers
  BY DEF RequestOf

LEMMA OfferRowsEmpty ==
  /\ NoPoll \in PollRow /\ NoRefusal \in RefusalRow /\ NotAsked \in RequestOf
  /\ NoRejection \in Rejection /\ NoRow \in BookingRow
  /\ NoPoll.pc = "done" /\ NoPoll.near = {} /\ NoPoll.found = {} /\ NoPoll.closed = {}
  /\ NoPoll.declined = {} /\ NoRefusal.pc = "done"
  /\ NotAsked.eligible = {} /\ NotAsked.unfit = {}
  BY DEF NoPoll, PollRow, NoRefusal, RefusalRow, NotAsked, RequestOf, NoRejection, Rejection,
     NoRow, BookingRow

LEMMA OffersStart == OfferInit => OfferInv
<1> SUFFICES ASSUME OfferInit PROVE OfferInv
  OBVIOUS
<1>1. OfferTypeOK
  BY OfferRows, OfferRowsEmpty DEF OfferInit
<1>2. \A q \in Polls : PollHolds(poll[q])
  BY OfferRowsEmpty DEF OfferInit, PollHolds
<1>3. \A b \in Bookings : RequestOfHolds(request[b])
  BY OfferRowsEmpty DEF OfferInit, RequestOfHolds
<1>4. \A q \in Refusals : RefusalFits(refusal[q])
  BY OfferRowsEmpty DEF OfferInit, RefusalFits
<1>5. CodeStaysWithPassenger
  BY DEF OfferInit, CodeStaysWithPassenger
<1>6. QED
  BY <1>1, <1>2, <1>3, <1>4, <1>5 DEF OfferInv

-----------------------------------------------------------------------------
(* The types, one group of variables after the other.                      *)

LEMMA RowTypes ==
  ASSUME OfferTypeOK, [OfferNext]_offerVars
  PROVE  booking' \in [Bookings -> BookingRow] /\ ready' \subseteq Takers
<1>0. booking \in [Bookings -> BookingRow] /\ ready \subseteq Takers
  BY OfferRows
<1>1. ASSUME NEW b \in Bookings, requestRide(b)
      PROVE  booking' \in [Bookings -> BookingRow] /\ ready' \subseteq Takers
  BY <1>0, <1>1 DEF requestRide, BookingRow
<1>2. ASSUME NEW b \in Bookings, NEW d \in Takers, acceptRide(b, d)
      PROVE  booking' \in [Bookings -> BookingRow] /\ ready' \subseteq Takers
  BY <1>0, <1>2 DEF acceptRide, BookingRow
<1>3. ASSUME NEW b \in Bookings, endRide(b)
      PROVE  booking' \in [Bookings -> BookingRow] /\ ready' \subseteq Takers
  <2>1. [booking[b] EXCEPT !.status = "OVER"] \in BookingRow /\ booking[b].driver \in Takers \cup {Nobody}
    BY <1>0 DEF BookingRow
  <2>2. QED
    BY <1>0, <1>3, <2>1 DEF endRide
<1>4. ASSUME NEW d \in Takers, driverChanges(d)
      PROVE  booking' \in [Bookings -> BookingRow] /\ ready' \subseteq Takers
  BY <1>0, <1>4 DEF driverChanges
<1>5. QED
  BY <1>0, <1>1, <1>2, <1>3, <1>4 DEF OfferNext, offerVars, rows, addPendingRide,
     findNearbyOnlineDrivers, findByIdForDispatch, emitOffers, dropRequest, removePendingRide,
     rejectionsLapse, listPassengerHistory, listDriverHistory, getRide, listNearby,
     listActiveVerifiedByDriver, findNearbyPendingRides, findManyByIds, isRejectedByDriver,
     answerNearby, rejectRide, recordRejection, expireRejections, dropRefusal, syncRide

LEMMA RedisTypes ==
  ASSUME OfferInv, [OfferNext]_offerVars
  PROVE  pendingSet' \subseteq Bookings /\ rejectedBy' \in [Bookings -> Rejection]
<1>0. pendingSet \subseteq Bookings /\ rejectedBy \in [Bookings -> Rejection]
  BY OfferRows DEF OfferInv
<1>1. ASSUME NEW b \in Bookings, addPendingRide(b)
      PROVE  pendingSet' \subseteq Bookings /\ rejectedBy' \in [Bookings -> Rejection]
  BY <1>0, <1>1 DEF addPendingRide
<1>2. ASSUME NEW b \in Bookings, removePendingRide(b)
      PROVE  pendingSet' \subseteq Bookings /\ rejectedBy' \in [Bookings -> Rejection]
  BY <1>0, <1>2 DEF removePendingRide
<1>3. ASSUME NEW b \in Bookings, rejectionsLapse(b)
      PROVE  pendingSet' \subseteq Bookings /\ rejectedBy' \in [Bookings -> Rejection]
  BY <1>0, <1>3, OfferRowsEmpty DEF rejectionsLapse
<1>4. ASSUME NEW q \in Refusals, recordRejection(q)
      PROVE  pendingSet' \subseteq Bookings /\ rejectedBy' \in [Bookings -> Rejection]
  <2>1. refusal[q].booking \in Bookings /\ refusal[q].driver \in Takers
    BY <1>4 DEF recordRejection, OfferInv, RefusalFits
  <2>2. ASSUME NEW x \in Rejection, NEW d \in Takers
        PROVE  [x EXCEPT !.drivers = @ \cup {d}] \in Rejection
    BY <2>2 DEF Rejection
  <2>3. QED
    BY <1>0, <1>4, <2>1, <2>2 DEF recordRejection
<1>5. ASSUME NEW q \in Refusals, expireRejections(q)
      PROVE  pendingSet' \subseteq Bookings /\ rejectedBy' \in [Bookings -> Rejection]
  <2>1. refusal[q].booking \in Bookings
    BY <1>5 DEF expireRejections, OfferInv, RefusalFits
  <2>2. ASSUME NEW x \in Rejection, NEW f \in BOOLEAN
        PROVE  [x EXCEPT !.lapses = f] \in Rejection
    BY <2>2 DEF Rejection
  <2>3. QED
    BY <1>0, <1>5, <2>1, <2>2 DEF expireRejections
<1>6. QED
  BY <1>0, <1>1, <1>2, <1>3, <1>4, <1>5 DEF OfferNext, offerVars, redisSets, requestRide,
     findNearbyOnlineDrivers, findByIdForDispatch, acceptRide, emitOffers, dropRequest, endRide,
     listPassengerHistory, listDriverHistory, getRide, listNearby, driverChanges,
     listActiveVerifiedByDriver, findNearbyPendingRides, findManyByIds, isRejectedByDriver,
     answerNearby, rejectRide, dropRefusal, syncRide

LEMMA RefusalTypes ==
  ASSUME OfferInv, [OfferNext]_offerVars
  PROVE  refusal' \in [Refusals -> RefusalRow] /\ \A q \in Refusals : RefusalFits(refusal[q])'
<1>0. refusal \in [Refusals -> RefusalRow] /\ \A q \in Refusals : RefusalFits(refusal[q])
  BY OfferRows DEF OfferInv
<1>1. ASSUME NEW q \in Refusals, NEW d \in Takers, NEW b \in Bookings, rejectRide(q, d, b)
      PROVE  refusal' \in [Refusals -> RefusalRow] /\ \A r \in Refusals : RefusalFits(refusal[r])'
  BY <1>0, <1>1 DEF rejectRide, RefusalRow, RefusalFits
<1>2. ASSUME NEW q \in Refusals, recordRejection(q)
      PROVE  refusal' \in [Refusals -> RefusalRow] /\ \A r \in Refusals : RefusalFits(refusal[r])'
  <2>1. refusal[q].pc # "done"
    BY <1>2 DEF recordRejection
  <2>2. [refusal[q] EXCEPT !.pc = "expire"] \in RefusalRow
    BY <1>0 DEF RefusalRow
  <2>3. RefusalFits([refusal[q] EXCEPT !.pc = "expire"])
    BY <1>0, <2>1 DEF RefusalFits, RefusalRow
  <2>4. QED
    BY <1>0, <1>2, <2>2, <2>3 DEF recordRejection
<1>3. ASSUME NEW q \in Refusals, refusal' = [refusal EXCEPT ![q] = NoRefusal]
      PROVE  refusal' \in [Refusals -> RefusalRow] /\ \A r \in Refusals : RefusalFits(refusal[r])'
  BY <1>0, <1>3, OfferRowsEmpty DEF RefusalFits
<1>4. CASE refusal' = refusal
  BY <1>0, <1>4
<1>5. QED
  BY <1>1, <1>2, <1>3, <1>4 DEF OfferNext, offerVars, requestRide, addPendingRide,
     findNearbyOnlineDrivers, findByIdForDispatch, acceptRide, emitOffers, dropRequest, endRide,
     removePendingRide, rejectionsLapse, listPassengerHistory, listDriverHistory, getRide,
     listNearby, driverChanges, listActiveVerifiedByDriver, findNearbyPendingRides,
     findManyByIds, isRejectedByDriver, answerNearby, expireRejections, dropRefusal, syncRide

\* Searches for drivers: nobody who is unfit is ready, and whoever becomes ready
\* is unfit no more.
LEMMA RequestsOfHold ==
  ASSUME OfferInv, [OfferNext]_offerVars
  PROVE  request' \in [Bookings -> RequestOf] /\ \A b \in Bookings : RequestOfHolds(request[b])'
<1> DEFINE Goal == request' \in [Bookings -> RequestOf]
                   /\ \A b \in Bookings : RequestOfHolds(request[b])'
<1>0. /\ request \in [Bookings -> RequestOf] /\ \A b \in Bookings : RequestOfHolds(request[b])
      /\ ready \subseteq Takers
  BY OfferRows DEF OfferInv
<1>1. ASSUME NEW b \in Bookings, NEW x \in RequestOf, request' = [request EXCEPT ![b] = x],
             ready' = ready, RequestOfHolds(x)
      PROVE  Goal
  BY <1>0, <1>1 DEF RequestOfHolds
<1>2. ASSUME NEW b \in Bookings, NEW pc \in {"done", "geoadd", "search", "look"}
      PROVE  [request[b] EXCEPT !.pc = pc] \in RequestOf
             /\ RequestOfHolds([request[b] EXCEPT !.pc = pc])
  <2>1. /\ [request[b] EXCEPT !.pc = pc].unfit = request[b].unfit
        /\ [request[b] EXCEPT !.pc = pc].eligible = request[b].eligible
        /\ [request[b] EXCEPT !.pc = pc] \in RequestOf
    BY <1>0 DEF RequestOf
  <2>2. QED
    BY <1>0, <2>1 DEF RequestOfHolds
<1>3. ASSUME NEW b \in Bookings, requestRide(b) PROVE Goal
  BY <1>1, <1>2, <1>3 DEF requestRide
<1>4. ASSUME NEW b \in Bookings, addPendingRide(b) PROVE Goal
  BY <1>1, <1>2, <1>4 DEF addPendingRide, rows
<1>5. ASSUME NEW b \in Bookings, findNearbyOnlineDrivers(b) PROVE Goal
  <2>1. PICK near \in SUBSET Takers : request' = [request EXCEPT ![b] =
            [pc |-> "look", near |-> near, eligible |-> {}, unfit |-> Takers \ ready]]
    BY <1>5 DEF findNearbyOnlineDrivers
  <2> DEFINE x == [pc |-> "look", near |-> near, eligible |-> {}, unfit |-> Takers \ ready]
  <2>2. x \in RequestOf /\ RequestOfHolds(x)
    BY <1>0 DEF RequestOf, RequestOfHolds
  <2>3. QED
    BY <1>1, <1>5, <2>1, <2>2 DEF findNearbyOnlineDrivers, rows
<1>6. ASSUME NEW b \in Bookings, NEW d \in Takers, findByIdForDispatch(b, d) PROVE Goal
  <2>1. PICK suited \in SUBSET eligible(d) : request' =
            [request EXCEPT ![b].near = @ \ {d}, ![b].eligible = @ \cup suited]
    BY <1>6 DEF findByIdForDispatch
  <2> DEFINE x == [request[b] EXCEPT !.near = request[b].near \ {d},
                                     !.eligible = request[b].eligible \cup suited]
  <2>2. suited \subseteq ready
    BY DEF eligible
  <2>3. x \in RequestOf
    BY <1>0, <2>2, RequestOfRows
  <2>4. x.unfit = request[b].unfit /\ x.eligible = request[b].eligible \cup suited
    BY <1>0 DEF RequestOf
  <2>5. RequestOfHolds(x)
    BY <1>0, <2>2, <2>4 DEF RequestOfHolds
  <2>6. request' = [request EXCEPT ![b] = x]
    BY <1>0, <2>1
  <2> HIDE DEF x
  <2>7. QED
    BY <1>1, <1>6, <2>3, <2>5, <2>6 DEF findByIdForDispatch, rows
<1>7. ASSUME NEW b \in Bookings, request' = [request EXCEPT ![b] = NotAsked], ready' = ready
      PROVE  Goal
  BY <1>1, <1>7, OfferRowsEmpty DEF RequestOfHolds
<1>8. ASSUME Refit, ready' \subseteq Takers PROVE Goal
  <2>1. ASSUME NEW b \in Bookings
        PROVE  /\ [request[b] EXCEPT !.unfit = @ \ ready'] \in RequestOf
               /\ request'[b] = [request[b] EXCEPT !.unfit = @ \ ready']
               /\ request'[b].unfit = request[b].unfit \ ready'
               /\ request'[b].eligible = request[b].eligible
    BY <1>0, <1>8 DEF Refit, RequestOf
  <2>2. QED
    BY <1>0, <1>8, <2>1 DEF Refit, RequestOfHolds
<1>9. ASSUME request' = request, ready' \subseteq ready PROVE Goal
  BY <1>0, <1>9 DEF RequestOfHolds
<1>10. ASSUME NEW b \in Bookings, NEW d \in Takers, acceptRide(b, d) PROVE Goal
  BY <1>9, <1>10 DEF acceptRide
<1>11. ready' \subseteq Takers
  BY RowTypes DEF OfferInv
<1>12. ASSUME NEW b \in Bookings, endRide(b) PROVE Goal
  BY <1>8, <1>11, <1>12 DEF endRide
<1>13. ASSUME NEW d \in Takers, driverChanges(d) PROVE Goal
  BY <1>8, <1>11, <1>13 DEF driverChanges
<1>14. QED
  BY <1>3, <1>4, <1>5, <1>6, <1>7, <1>9, <1>10, <1>12, <1>13 DEF OfferNext, offerVars, rows,
     emitOffers, dropRequest, removePendingRide,
     rejectionsLapse, listPassengerHistory, listDriverHistory, getRide, listNearby,
     listActiveVerifiedByDriver, findNearbyPendingRides, findManyByIds, isRejectedByDriver,
     answerNearby, rejectRide, recordRejection, expireRejections, dropRefusal, syncRide

\* Searches for rides.
LEMMA PollsHold ==
  ASSUME OfferInv, [OfferNext]_offerVars
  PROVE  poll' \in [Polls -> PollRow] /\ \A q \in Polls : PollHolds(poll[q])'
<1> DEFINE Goal == poll' \in [Polls -> PollRow] /\ \A q \in Polls : PollHolds(poll[q])'
<1>0. /\ poll \in [Polls -> PollRow] /\ \A q \in Polls : PollHolds(poll[q])
      /\ booking \in [Bookings -> BookingRow] /\ rejectedBy \in [Bookings -> Rejection]
      /\ pendingSet \subseteq Bookings
  BY OfferRows DEF OfferInv
<1>1. ASSUME NEW q \in Polls, NEW p \in PollRow, poll' = [poll EXCEPT ![q] = p], PollHolds(p),
             booking' = booking, rejectedBy' = rejectedBy
      PROVE  Goal
  BY <1>0, <1>1 DEF PollHolds
<1>2. ASSUME poll' = poll,
             \A b \in Bookings : booking[b].status \in {"ACCEPTED", "OVER"}
                                   => booking'[b].status \in {"ACCEPTED", "OVER"},
             \A b \in Bookings : rejectedBy[b].drivers \subseteq rejectedBy'[b].drivers
      PROVE  Goal
  <2>1. ASSUME NEW q \in Polls PROVE PollHolds(poll[q])'
    <3>1. poll[q].closed \subseteq Bookings /\ poll[q].declined \subseteq Bookings
      BY <1>0, PollFields
    <3>2. QED
      BY <1>0, <1>2, <3>1 DEF PollHolds
  <2>2. QED
    BY <1>0, <1>2, <2>1
<1>3. ASSUME NEW b \in Bookings, requestRide(b) PROVE Goal
  <2>1. booking[b].status = "NONE" /\ rejectedBy' = rejectedBy /\ poll' = poll
    BY <1>3 DEF requestRide, NoRow, redisSets
  <2>2. \A c \in Bookings : c # b => booking'[c] = booking[c]
    BY <1>0, <1>3 DEF requestRide
  <2>3. QED
    BY <1>2, <2>1, <2>2
<1>4. ASSUME NEW b \in Bookings, NEW d \in Takers, acceptRide(b, d) PROVE Goal
  <2>1. rejectedBy' = rejectedBy /\ poll' = poll
    BY <1>4 DEF acceptRide, redisSets
  <2>2. \A c \in Bookings : booking'[c] = booking[c] \/ booking'[c].status = "ACCEPTED"
    BY <1>0, <1>4 DEF acceptRide
  <2>3. QED
    BY <1>2, <2>1, <2>2
<1>5. ASSUME NEW b \in Bookings, endRide(b) PROVE Goal
  <2>1. rejectedBy' = rejectedBy /\ poll' = poll
    BY <1>5 DEF endRide, redisSets
  <2>2. [booking[b] EXCEPT !.status = "OVER"].status = "OVER"
    BY <1>0 DEF BookingRow
  <2>3. \A c \in Bookings : booking'[c] = booking[c] \/ booking'[c].status = "OVER"
    BY <1>0, <1>5, <2>2 DEF endRide
  <2>4. QED
    BY <1>2, <2>1, <2>3
<1>6. ASSUME NEW q \in Refusals, recordRejection(q) PROVE Goal
  <2>1. booking' = booking /\ poll' = poll
    BY <1>6 DEF recordRejection, rows
  <2>2. \A c \in Bookings : rejectedBy[c].drivers \subseteq rejectedBy'[c].drivers
    BY <1>0, <1>6 DEF recordRejection, Rejection
  <2>3. QED
    BY <1>2, <2>1, <2>2
<1>7. ASSUME NEW q \in Refusals, expireRejections(q) PROVE Goal
  <2>1. booking' = booking /\ poll' = poll
    BY <1>7 DEF expireRejections, rows
  <2>2. \A c \in Bookings : rejectedBy[c].drivers \subseteq rejectedBy'[c].drivers
    BY <1>0, <1>7 DEF expireRejections, Rejection
  <2>3. QED
    BY <1>2, <2>1, <2>2
<1>8. ASSUME NEW b \in Bookings, rejectionsLapse(b) PROVE Goal
  <2>1. ASSUME NEW q \in Polls
        PROVE  /\ poll'[q] \in PollRow
               /\ poll'[q].declined = poll[q].declined \ {b}
               /\ \A c \in poll[q].declined : c \in Bookings
               /\ poll'[q].pc = poll[q].pc /\ poll'[q].driver = poll[q].driver
               /\ poll'[q].near = poll[q].near /\ poll'[q].found = poll[q].found
               /\ poll'[q].closed = poll[q].closed
    <3>1. poll[q].declined \ {b} \in SUBSET Bookings
      BY <1>0, PollFields
    <3>2. poll'[q] = [poll[q] EXCEPT !.declined = poll[q].declined \ {b}]
      BY <1>8 DEF rejectionsLapse
    <3>3. poll'[q] \in PollRow
      BY <1>0, <3>1, <3>2 DEF PollRow
    <3>4. QED
      BY <1>0, <3>1, <3>2, <3>3 DEF PollRow
  <2>2. \A c \in Bookings : c # b => rejectedBy'[c] = rejectedBy[c]
    BY <1>0, <1>8 DEF rejectionsLapse
  <2>3. booking' = booking
    BY <1>8 DEF rejectionsLapse, rows
  <2>4. ASSUME NEW q \in Polls PROVE PollHolds(poll[q])'
    BY <1>0, <2>1, <2>2, <2>3 DEF PollHolds
  <2>5. poll' = [q \in Polls |-> poll'[q]]
    BY <1>8 DEF rejectionsLapse
  <2>6. QED
    BY <2>1, <2>4, <2>5
<1>9. ASSUME NEW q \in Polls, NEW d \in Takers, listNearby(q, d) PROVE Goal
  <2> DEFINE p == [pc |-> "vehicles", driver |-> d, near |-> {}, found |-> {},
                   closed |-> {b \in Bookings : booking[b].status \notin {"NONE", "REQUESTED"}},
                   declined |-> {b \in Bookings : d \in rejectedBy[b].drivers}]
  <2>1. p \in PollRow
    BY DEF PollRow
  <2>2. PollHolds(p)
    BY <1>0 DEF PollHolds, BookingRow
  <2>3. QED
    BY <1>1, <1>9, <2>1, <2>2 DEF listNearby, rows, redisSets
<1>10. ASSUME NEW q \in Polls, Answer(q), booking' = booking, rejectedBy' = rejectedBy PROVE Goal
  <2>1. PollHolds(NoPoll)
    BY OfferRowsEmpty DEF PollHolds
  <2>2. QED
    BY <1>1, <1>10, <2>1, OfferRowsEmpty DEF Answer
<1>11. ASSUME NEW q \in Polls, listActiveVerifiedByDriver(q) PROVE Goal
  <2>1. CASE poll' = [poll EXCEPT ![q].pc = "search"]
    <3>1. [poll[q] EXCEPT !.pc = "search"] \in PollRow
      BY <1>0, PollRows
    <3>2. PollHolds([poll[q] EXCEPT !.pc = "search"])
      BY <1>0 DEF PollHolds, PollRow
    <3>3. QED
      BY <1>1, <1>11, <2>1, <3>1, <3>2 DEF listActiveVerifiedByDriver, rows, redisSets
  <2>2. QED
    BY <1>10, <1>11, <2>1 DEF listActiveVerifiedByDriver, rows, redisSets
<1>12. ASSUME NEW q \in Polls, findNearbyPendingRides(q) PROVE Goal
  <2>1. CASE poll' = [poll EXCEPT ![q].pc = "rows", ![q].near = pendingSet]
    <3> DEFINE p == [poll[q] EXCEPT !.pc = "rows", !.near = pendingSet]
    <3>1. p \in PollRow
      BY <1>0, PollRows
    <3>2. PollHolds(p)
      BY <1>0 DEF PollHolds, PollRow
    <3>3. poll' = [poll EXCEPT ![q] = p]
      BY <1>0, <2>1
    <3>4. QED
      BY <1>1, <1>12, <3>1, <3>2, <3>3 DEF findNearbyPendingRides, rows, redisSets
  <2>2. QED
    BY <1>10, <1>12, <2>1 DEF findNearbyPendingRides, rows, redisSets
<1>13. ASSUME NEW q \in Polls, findManyByIds(q) PROVE Goal
  <2> DEFINE S == candidates(poll[q].near)
             p == [poll[q] EXCEPT !.pc = "rejected", !.near = S]
  <2>1. S \in SUBSET Bookings /\ \A b \in S : booking[b].status = "REQUESTED"
    BY <1>0, PollFields DEF candidates, Open
  <2> HIDE DEF S
  <2>2. p \in PollRow
    BY <1>0, <2>1, PollRows
  <2>3. p.near = S /\ p.closed = poll[q].closed /\ p.declined = poll[q].declined
        /\ p.found = poll[q].found /\ p.driver = poll[q].driver
    BY <1>0 DEF PollRow
  <2>4. PollHolds(p)
    BY <1>0, <2>1, <2>3 DEF PollHolds
  <2>5. poll' = [poll EXCEPT ![q] = p]
    BY <1>0, <1>13 DEF findManyByIds, S
  <2> HIDE DEF p
  <2>6. QED
    BY <1>1, <1>13, <2>2, <2>4, <2>5 DEF findManyByIds, rows, redisSets
<1>14. ASSUME NEW q \in Polls, NEW b \in Bookings, isRejectedByDriver(q, b) PROVE Goal
  <2> DEFINE N == poll[q].near \ {b}
             F == IF kept(poll[q].driver, b) THEN poll[q].found \cup {b} ELSE poll[q].found
             p == [poll[q] EXCEPT !.near = N, !.found = F]
             r == [poll[q] EXCEPT !.near = N, !.found = poll[q].found \cup {b},
                                  !.declined = poll[q].declined \ {b}]
  <2>1. poll[q] \in PollRow /\ PollHolds(poll[q])
    BY <1>0
  <2>2. N \in SUBSET Bookings /\ F \in SUBSET Bookings /\ poll[q].found \cup {b} \in SUBSET Bookings
        /\ poll[q].declined \ {b} \in SUBSET Bookings
    BY <2>1, PollFields
  <2>3. poll[q].pc = "rejected" /\ b \in poll[q].near
    BY <1>14 DEF isRejectedByDriver
  <2>4. p \in PollRow /\ r \in PollRow
    BY <2>1, <2>2, PollRows
  <2>5. p.near = N /\ p.found = F /\ p.closed = poll[q].closed /\ p.declined = poll[q].declined
        /\ p.driver = poll[q].driver
    BY <2>1 DEF PollRow
  <2>6. r.near = N /\ r.found = poll[q].found \cup {b} /\ r.closed = poll[q].closed
        /\ r.declined = poll[q].declined \ {b} /\ r.driver = poll[q].driver
    BY <2>1 DEF PollRow
  <2>7. PollHolds(p)
    BY <2>1, <2>3, <2>5 DEF PollHolds, kept
  <2>8. PollHolds(r)
    BY <2>1, <2>3, <2>6 DEF PollHolds
  <2>9. poll' = [poll EXCEPT ![q] = p] \/ poll' = [poll EXCEPT ![q] = r]
    <3>1. CASE poll' = [poll EXCEPT ![q].near = @ \ {b},
                 ![q].found = IF kept(poll[q].driver, b) THEN @ \cup {b} ELSE @]
      BY <1>0, <3>1
    <3>2. CASE poll' = [poll EXCEPT ![q].near = @ \ {b}, ![q].found = @ \cup {b},
                                    ![q].declined = @ \ {b}]
      BY <1>0, <3>2
    <3>3. QED
      BY <1>14, <3>1, <3>2 DEF isRejectedByDriver
  <2>10. booking' = booking /\ rejectedBy' = rejectedBy
    BY <1>14 DEF isRejectedByDriver, rows, redisSets
  <2> HIDE DEF p, r
  <2>11. QED
    BY <1>1, <2>4, <2>7, <2>8, <2>9, <2>10
<1>15. ASSUME NEW q \in Polls, answerNearby(q) PROVE Goal
  BY <1>10, <1>15 DEF answerNearby, rows, redisSets
<1>16. ASSUME poll' = poll, booking' = booking, rejectedBy' = rejectedBy PROVE Goal
  BY <1>0, <1>16 DEF PollHolds
<1>17. QED
  BY <1>3, <1>4, <1>5, <1>6, <1>7, <1>8, <1>9, <1>11, <1>12, <1>13, <1>14, <1>15, <1>16
     DEF OfferNext, offerVars, rows, redisSets, addPendingRide, findNearbyOnlineDrivers,
     findByIdForDispatch, emitOffers, dropRequest, removePendingRide, listPassengerHistory,
     listDriverHistory, getRide, rejectRide, dropRefusal, driverChanges, syncRide

-----------------------------------------------------------------------------
(* The code.  Every message names the passenger of its ride.               *)

LEMMA ToldStep ==
  ASSUME told \subseteq Message, booking \in [Bookings -> BookingRow], CodeStaysWithPassenger,
         [OfferNext]_offerVars
  PROVE  told' \subseteq Message /\ CodeStaysWithPassenger'
<1> DEFINE Mine == {<<RequesterOf[b], b>> : b \in Bookings}
<1>1. Mine \subseteq Message /\ \A m \in Mine : m[1] = RequesterOf[m[2]]
  BY DEF Message, Requesters
<1>2. ASSUME told' \subseteq told \cup Mine PROVE told' \subseteq Message /\ CodeStaysWithPassenger'
  BY <1>1, <1>2 DEF CodeStaysWithPassenger
<1>3. ASSUME NEW b \in Bookings PROVE sanitizeRide(RequesterOf[b], b, "PASSENGER") \subseteq Mine
  BY DEF sanitizeRide
<1>4. ASSUME NEW p, NEW b PROVE sanitizeRide(p, b, "DRIVER") = {}
  BY DEF sanitizeRide
<1>5. ASSUME NEW b \in Bookings, emitOffers(b) PROVE told' \subseteq told \cup Mine
  BY <1>5 DEF emitOffers, sanitizeRideOffer
<1>6. ASSUME NEW q \in Polls, answerNearby(q) PROVE told' \subseteq told \cup Mine
  BY <1>6 DEF answerNearby, sanitizeRideOffer
<1>7. ASSUME NEW b \in Bookings, NEW d \in Takers, acceptRide(b, d) PROVE told' \subseteq told \cup Mine
  BY <1>3, <1>4, <1>7 DEF acceptRide
<1>8. ASSUME NEW b \in Bookings, NEW p, getRide(p, b) PROVE told' \subseteq told \cup Mine
  <2>1. CASE p = RequesterOf[b]
    BY <1>3, <1>8, <2>1 DEF getRide, viewer
  <2>2. CASE p # RequesterOf[b]
    BY <1>4, <1>8, <2>2 DEF getRide, viewer
  <2>3. QED
    BY <2>1, <2>2
<1>9. ASSUME NEW b \in Bookings, listPassengerHistory(b) PROVE told' \subseteq told \cup Mine
  BY <1>3, <1>9 DEF listPassengerHistory
<1>10. ASSUME NEW b \in Bookings, NEW d \in Takers, listDriverHistory(d, b)
       PROVE  told' \subseteq told \cup Mine
  BY <1>4, <1>10 DEF listDriverHistory
<1>11. ASSUME NEW p, syncRide(p) PROVE told' \subseteq told \cup Mine
  <2> DEFINE asPassenger == {b \in Bookings : Active(b) /\ RequesterOf[b] = p}
             asDriver == {b \in Bookings : Active(b) /\ booking[b].driver = p}
  <2>1. CASE asPassenger # {}
    <3>1. PICK b \in asPassenger : told' = told \cup sanitizeRide(p, b, "PASSENGER")
      BY <1>11, <2>1 DEF syncRide
    <3>2. b \in Bookings /\ RequesterOf[b] = p
      OBVIOUS
    <3>3. QED
      BY <1>3, <3>1, <3>2
  <2>2. CASE asPassenger = {}
    <3>1. PICK b \in asDriver : told' = told \cup sanitizeRide(p, b, "DRIVER")
      BY <1>11, <2>2 DEF syncRide
    <3>2. QED
      BY <1>4, <3>1
  <2>3. QED
    BY <2>1, <2>2
<1>12. told' = told => told' \subseteq told \cup Mine
  OBVIOUS
<1> HIDE DEF Mine
<1>13. told' \subseteq told \cup Mine
  BY <1>5, <1>6, <1>7, <1>8, <1>9, <1>10, <1>11, <1>12 DEF OfferNext, offerVars, requestRide,
     addPendingRide, findNearbyOnlineDrivers, findByIdForDispatch, dropRequest, endRide,
     removePendingRide, rejectionsLapse, listNearby, listActiveVerifiedByDriver,
     findNearbyPendingRides, findManyByIds, isRejectedByDriver, rejectRide, recordRejection,
     expireRejections, dropRefusal, driverChanges
<1>14. QED
  BY <1>2, <1>13

LEMMA OfferStep == ASSUME OfferInv, [OfferNext]_offerVars PROVE OfferInv'
<1>1. told' \subseteq Message /\ CodeStaysWithPassenger'
  BY OfferRows, ToldStep DEF OfferInv
<1>2. booking' \in [Bookings -> BookingRow] /\ ready' \subseteq Takers
  BY RowTypes DEF OfferInv
<1>3. pendingSet' \subseteq Bookings /\ rejectedBy' \in [Bookings -> Rejection]
  BY RedisTypes
<1>4. refusal' \in [Refusals -> RefusalRow] /\ \A q \in Refusals : RefusalFits(refusal[q])'
  BY RefusalTypes
<1>5. request' \in [Bookings -> RequestOf] /\ \A b \in Bookings : RequestOfHolds(request[b])'
  BY RequestsOfHold
<1>6. poll' \in [Polls -> PollRow] /\ \A q \in Polls : PollHolds(poll[q])'
  BY PollsHold
<1>7. OfferTypeOK'
  BY <1>1, <1>2, <1>3, <1>4, <1>5, <1>6 DEF OfferTypeOK, BookingRow, Rejection, PollRow,
     RefusalRow, RequestOf, Message
<1>8. QED
  BY <1>1, <1>4, <1>5, <1>6, <1>7 DEF OfferInv

\* The invariant of offers: no ride that was over or declined when a search for
\* rides began is in what it has found, no driver who could not take a ride since
\* a search for drivers began is among the eligible, and every code that was sent
\* went to its passenger.
THEOREM OfferInvariance == OfferSpec => []OfferInv
  BY OffersStart, OfferStep, PTL DEF OfferSpec

\* What drivers are shown and pushed is still to be had when it is looked up
\* (ride.service.js:156-162 and 221-230), for any number of rides, drivers and
\* overlapping requests.
THEOREM OffersStayDue == OfferSpec => []OffersAreDue
<1>1. OfferInv => OffersAreDue
  BY DEF OfferInv, OffersAreDue, PollHolds, RequestOfHolds
<1>2. QED
  BY <1>1, OfferInvariance, PTL

\* The code of a ride is sent to nobody but its passenger (ride.service.js:40-42).
THEOREM CodesStay == OfferSpec => []CodeStaysWithPassenger
<1>1. OfferInv => CodeStaysWithPassenger
  BY DEF OfferInv
<1>2. QED
  BY <1>1, OfferInvariance, PTL

-----------------------------------------------------------------------------
(* Ratings.  Of the requests at one user's average there is at most one,   *)
(* and it holds all ratings there are, unless the user is disturbed.       *)

SubmitRow == [pc : {"done", "insert", "average", "write"},
              of : (Rides \X Directions) \cup {NoRating},
              counted : SUBSET (Rides \X Directions)]

SubmitHolds(s) ==
    /\ submit[s].pc = "done" => submit[s] = NoSubmit
    /\ submit[s].pc # "done" => submit[s].of \in Rides \X Directions
    /\ submit[s].pc \in {"average", "write"} => submit[s].of \in rating
    /\ submit[s].pc = "write" => submit[s].counted \subseteq Received(Receiver(submit[s].of))

AverageHolds(u) ==
    /\ \A d \in Directions : average[u][d] \subseteq Received(u)
    /\ u \notin disturbed =>
         /\ \A s, t \in Recomputing(u) : s = t
         /\ \A s \in Recomputing(u) : submit[s].pc = "write" => submit[s].counted = Received(u)
         /\ Recomputing(u) = {} /\ Received(u) # {}
              => \E d \in Directions : average[u][d] = Received(u)

RatingInv ==
    /\ RatingTypeOK
    /\ \A s \in Raters : SubmitHolds(s)
    /\ \A u \in Riders : AverageHolds(u)

LEMMA ReceiverType == ASSUME NEW g \in Rides \X Directions PROVE Receiver(g) \in Riders
  BY PartiesAssumption DEF Receiver

LEMMA RatingStarts == RatingInit => RatingInv
<1> SUFFICES ASSUME RatingInit PROVE RatingInv
  OBVIOUS
<1>1. \A s \in Raters : submit[s] = NoSubmit /\ submit[s].pc = "done"
  BY DEF RatingInit, NoSubmit
<1>2. \A u \in Riders : Received(u) = {} /\ Recomputing(u) = {} /\ \A d \in Directions : average[u][d] = {}
  BY <1>1 DEF RatingInit, Received, Recomputing
<1>3. RatingTypeOK
  BY DEF RatingInit, RatingTypeOK, NoSubmit
<1>4. \A s \in Raters : SubmitHolds(s)
  BY <1>1 DEF SubmitHolds
<1>5. \A u \in Riders : AverageHolds(u)
  BY <1>2 DEF AverageHolds
<1>6. QED
  BY <1>3, <1>4, <1>5 DEF RatingInv

\* One request moves; the others are where they were.
LEMMA SubmitMoves ==
  ASSUME RatingInv, NEW s \in Raters, NEW x \in SubmitRow, submit' = [submit EXCEPT ![s] = x]
  PROVE  /\ submit' \in [Raters -> SubmitRow] /\ submit'[s] = x
         /\ \A t \in Raters \ {s} : submit'[t] = submit[t]
  BY DEF RatingInv, RatingTypeOK, SubmitRow

\* What the rows of all others say stays so while no rating is taken away.
LEMMA OthersHold ==
  ASSUME RatingInv, NEW s \in Raters, rating \subseteq rating',
         \A t \in Raters \ {s} : submit'[t] = submit[t], SubmitHolds(s)'
  PROVE  \A t \in Raters : SubmitHolds(t)'
  BY DEF RatingInv, SubmitHolds, Received

LEMMA SubmitStep ==
  ASSUME RatingInv, NEW s \in Raters, NEW r \in Rides, NEW d \in Directions, submitRating(s, r, d)
  PROVE  RatingInv'
<1> DEFINE x == [pc |-> "insert", of |-> <<r, d>>, counted |-> {}]
<1>1. x \in SubmitRow /\ submit' = [submit EXCEPT ![s] = x] /\ UNCHANGED <<rating, average, disturbed>>
  BY DEF submitRating, SubmitRow
<1>2. submit' \in [Raters -> SubmitRow] /\ submit'[s] = x /\ \A t \in Raters \ {s} : submit'[t] = submit[t]
  BY <1>1, SubmitMoves
<1>3. submit[s].pc = "done"
  BY DEF submitRating, NoSubmit
<1>4. \A t \in Raters : SubmitHolds(t)'
  <2>1. SubmitHolds(s)'
    BY <1>2 DEF SubmitHolds
  <2>2. QED
    BY <1>1, <1>2, <2>1, OthersHold
<1>5. \A u \in Riders : Recomputing(u)' = Recomputing(u) /\ Received(u)' = Received(u)
  BY <1>1, <1>2, <1>3 DEF Recomputing, Received
<1>6. \A u \in Riders : AverageHolds(u)'
  <2>1. \A u \in Riders : \A t \in Recomputing(u) : t \in Raters \ {s}
    BY <1>3 DEF Recomputing
  <2>2. QED
    BY <1>1, <1>2, <1>5, <2>1 DEF RatingInv, AverageHolds
<1>7. RatingTypeOK'
  BY <1>1, <1>2 DEF RatingInv, RatingTypeOK, SubmitRow
<1>8. QED
  BY <1>4, <1>6, <1>7 DEF RatingInv

\* After the insert the request is the only one at its receiver's average, or
\* the receiver is disturbed.
LEMMA CreateStep == ASSUME RatingInv, NEW s \in Raters, createRating(s) PROVE RatingInv'
<1> DEFINE g == submit[s].of
           u == Receiver(g)
<1>1. submit[s] \in SubmitRow /\ submit[s].pc = "insert" /\ g \in Rides \X Directions /\ u \in Riders
  BY ReceiverType DEF RatingInv, RatingTypeOK, SubmitRow, SubmitHolds, createRating
<1>2. CASE g \in rating
  <2>1. submit' = [submit EXCEPT ![s] = NoSubmit] /\ UNCHANGED <<rating, average, disturbed>>
    BY <1>2 DEF createRating
  <2>2. NoSubmit \in SubmitRow /\ NoSubmit.pc = "done"
    BY DEF NoSubmit, SubmitRow
  <2>3. submit' \in [Raters -> SubmitRow] /\ submit'[s] = NoSubmit
        /\ \A t \in Raters \ {s} : submit'[t] = submit[t]
    BY <2>1, <2>2, SubmitMoves
  <2>4. \A t \in Raters : SubmitHolds(t)'
    <3>1. SubmitHolds(s)'
      BY <2>2, <2>3 DEF SubmitHolds
    <3>2. QED
      BY <2>1, <2>3, <3>1, OthersHold
  <2>5. \A v \in Riders : Recomputing(v)' = Recomputing(v) /\ Received(v)' = Received(v)
    BY <1>1, <2>1, <2>2, <2>3 DEF Recomputing, Received
  <2>6. \A v \in Riders : AverageHolds(v)'
    <3>1. \A v \in Riders : \A t \in Recomputing(v) : t \in Raters \ {s}
      BY <1>1 DEF Recomputing
    <3>2. QED
      BY <2>1, <2>3, <2>5, <3>1 DEF RatingInv, AverageHolds
  <2>7. RatingTypeOK'
    BY <2>1, <2>3 DEF RatingInv, RatingTypeOK, SubmitRow
  <2>8. QED
    BY <2>4, <2>6, <2>7 DEF RatingInv
<1>3. CASE g \notin rating
  <2> DEFINE x == [submit[s] EXCEPT !.pc = "average"]
  <2>1. /\ rating' = rating \cup {g} /\ UNCHANGED average
        /\ submit' = [submit EXCEPT ![s] = x]
        /\ disturbed' = IF Recomputing(u) = {} THEN disturbed \ {u} ELSE disturbed \cup {u}
    <3>1. submit' = [submit EXCEPT ![s].pc = "average"]
      BY <1>3 DEF createRating
    <3>2. submit' = [submit EXCEPT ![s] = x]
      BY <3>1
    <3>3. QED
      BY <1>3, <3>2 DEF createRating
  <2>2. x \in SubmitRow /\ x.pc = "average" /\ x.of = g
    BY <1>1 DEF SubmitRow
  <2> HIDE DEF x
  <2>3. submit' \in [Raters -> SubmitRow] /\ submit'[s] = x
        /\ \A t \in Raters \ {s} : submit'[t] = submit[t]
    BY <2>1, <2>2, SubmitMoves
  <2>4. \A t \in Raters : SubmitHolds(t)'
    <3>1. SubmitHolds(s)'
      BY <1>1, <2>1, <2>2, <2>3 DEF SubmitHolds
    <3>2. QED
      BY <2>1, <2>3, <3>1, OthersHold
  <2>5. \A v \in Riders :
          /\ Recomputing(v)' = IF v = u THEN Recomputing(v) \cup {s} ELSE Recomputing(v)
          /\ v # u => Received(v)' = Received(v)
          /\ Received(v) \subseteq Received(v)'
    BY <1>1, <2>1, <2>2, <2>3 DEF Recomputing, Received
  <2>6. ASSUME NEW v \in Riders PROVE AverageHolds(v)'
    <3>0. AverageHolds(v)
      BY DEF RatingInv
    <3>1. \A d \in Directions : average'[v][d] \subseteq Received(v)'
      BY <2>1, <2>5, <3>0 DEF AverageHolds
    <3>2. CASE v = u
      <4>1. SUFFICES ASSUME v \notin disturbed'
                     PROVE  Recomputing(v)' = {s}
        BY <2>2, <2>3, <3>1 DEF AverageHolds
      <4>2. QED
        BY <2>1, <2>5, <3>2, <4>1
    <3>3. CASE v # u
      <4>1. \A t \in Recomputing(v) : t \in Raters \ {s}
        BY <1>1 DEF Recomputing
      <4>2. v \notin disturbed' => v \notin disturbed
        BY <2>1, <3>3
      <4>3. QED
        BY <2>1, <2>3, <2>5, <3>0, <3>1, <3>3, <4>1, <4>2 DEF AverageHolds
    <3>4. QED
      BY <3>2, <3>3
  <2>7. RatingTypeOK'
    BY <1>1, <2>1, <2>3 DEF RatingInv, RatingTypeOK, SubmitRow
  <2>8. QED
    BY <2>4, <2>6, <2>7 DEF RatingInv
<1>4. QED
  BY <1>2, <1>3

LEMMA AverageStep == ASSUME RatingInv, NEW s \in Raters, averageForUser(s) PROVE RatingInv'
<1> DEFINE x == [submit[s] EXCEPT !.pc = "write", !.counted = counted(s)]
<1>0. PICK u : u = Receiver(submit[s].of)
  OBVIOUS
<1>1. submit[s] \in SubmitRow /\ submit[s].pc = "average"
      /\ submit[s].of \in Rides \X Directions /\ submit[s].of \in rating /\ u \in Riders
  BY <1>0, ReceiverType DEF RatingInv, RatingTypeOK, SubmitRow, SubmitHolds, averageForUser
<1>2. counted(s) = Received(u) /\ Received(u) \subseteq Rides \X Directions
  BY <1>0 DEF counted, Received, RatingInv, RatingTypeOK
<1>3. x \in SubmitRow /\ x.pc = "write" /\ x.of = submit[s].of /\ x.counted = Received(u)
  BY <1>1, <1>2 DEF SubmitRow
<1>4. submit' = [submit EXCEPT ![s] = x] /\ UNCHANGED <<rating, average, disturbed>>
  BY DEF averageForUser
<1> HIDE DEF x
<1>5. submit' \in [Raters -> SubmitRow] /\ submit'[s] = x
      /\ \A t \in Raters \ {s} : submit'[t] = submit[t]
  BY <1>3, <1>4, SubmitMoves
<1>6. \A v \in Riders : Recomputing(v)' = Recomputing(v) /\ Received(v)' = Received(v)
  BY <1>1, <1>3, <1>4, <1>5 DEF Recomputing, Received
<1>7. \A t \in Raters : SubmitHolds(t)'
  <2>1. Received(u)' = Received(u)
    BY <1>1, <1>6
  <2>2. SubmitHolds(s)'
    BY <1>0, <1>1, <1>3, <1>4, <1>5, <2>1 DEF SubmitHolds
  <2>3. QED
    BY <1>4, <1>5, <2>2, OthersHold
<1>8. ASSUME NEW v \in Riders PROVE AverageHolds(v)'
  <2>0. AverageHolds(v)
    BY DEF RatingInv
  <2>1. s \in Recomputing(v) => v = u
    BY <1>0 DEF Recomputing
  <2>2. \A t \in Recomputing(v)' : t \in Raters
    BY DEF Recomputing
  <2>3. QED
    BY <1>3, <1>4, <1>5, <1>6, <2>0, <2>1, <2>2 DEF AverageHolds
<1>9. RatingTypeOK'
  BY <1>4, <1>5 DEF RatingInv, RatingTypeOK, SubmitRow
<1>10. QED
  BY <1>7, <1>8, <1>9 DEF RatingInv

\* A request ends: its receiver is disturbed, or has the average of all.
LEMMA LastStep ==
  ASSUME RatingInv, NEW s \in Raters, setAverageRating(s) \/ dropRating(s)
  PROVE  RatingInv'
<1>0. PICK g, u : g = submit[s].of /\ u = Receiver(g)
  OBVIOUS
<1>1. submit[s] \in SubmitRow /\ submit[s] # NoSubmit
  BY DEF RatingInv, RatingTypeOK, SubmitRow, setAverageRating, dropRating, NoSubmit
<1>2. NoSubmit \in SubmitRow /\ NoSubmit.pc = "done"
  BY DEF NoSubmit, SubmitRow
<1>3. submit' = [submit EXCEPT ![s] = NoSubmit] /\ UNCHANGED rating
  BY DEF setAverageRating, dropRating
<1>4. submit' \in [Raters -> SubmitRow] /\ submit'[s] = NoSubmit
      /\ \A t \in Raters \ {s} : submit'[t] = submit[t]
  BY <1>2, <1>3, SubmitMoves
<1>5. \A t \in Raters : SubmitHolds(t)'
  <2>1. SubmitHolds(s)'
    BY <1>2, <1>4 DEF SubmitHolds
  <2>2. QED
    BY <1>3, <1>4, <2>1, OthersHold
<1>6. \A v \in Riders : /\ Received(v)' = Received(v)
                        /\ Recomputing(v)' = Recomputing(v) \ {s}
  BY <1>2, <1>3, <1>4 DEF Recomputing, Received
<1>7. CASE setAverageRating(s)
  <2>1. submit[s].pc = "write" /\ g \in Rides \X Directions /\ u \in Riders
        /\ submit[s].counted \subseteq Received(u) /\ g[2] \in Directions
    BY <1>0, <1>7, ReceiverType DEF RatingInv, SubmitHolds, Directions, setAverageRating
  <2>2. average' = [average EXCEPT ![u][g[2]] = submit[s].counted] /\ UNCHANGED disturbed
    BY <1>0, <1>7 DEF setAverageRating
  <2>3. average \in [Riders -> [Directions -> SUBSET (Rides \X Directions)]]
    BY DEF RatingInv, RatingTypeOK
  <2>4. \A v \in Riders : \A d \in Directions :
          average'[v][d] = IF v = u /\ d = g[2] THEN submit[s].counted ELSE average[v][d]
    BY <2>1, <2>2, <2>3
  <2>5. average' \in [Riders -> [Directions -> SUBSET (Rides \X Directions)]]
    <3>1. submit[s].counted \in SUBSET (Rides \X Directions)
      BY <1>1 DEF SubmitRow
    <3>2. QED
      BY <2>1, <2>2, <2>3, <3>1
  <2>6. ASSUME NEW v \in Riders PROVE AverageHolds(v)'
    <3>0. AverageHolds(v)
      BY DEF RatingInv
    <3>1. \A d \in Directions : average'[v][d] \subseteq Received(v)'
      BY <1>6, <2>1, <2>4, <3>0 DEF AverageHolds
    <3>2. CASE v = u
      <4>1. s \in Recomputing(u)
        BY <1>0, <2>1 DEF Recomputing
      <4>2. u \notin disturbed => average'[u][g[2]] = Received(u)'
        BY <1>6, <2>1, <2>4, <3>0, <3>2, <4>1 DEF AverageHolds
      <4>3. u \notin disturbed => Recomputing(u)' = {}
        BY <1>6, <3>0, <3>2, <4>1 DEF AverageHolds
      <4>4. QED
        BY <2>1, <2>2, <3>1, <3>2, <4>2, <4>3 DEF AverageHolds
    <3>3. CASE v # u
      <4>1. Recomputing(v)' = Recomputing(v) /\ \A t \in Recomputing(v) : t \in Raters \ {s}
        BY <1>0, <1>6, <3>3 DEF Recomputing
      <4>2. \A d \in Directions : average'[v][d] = average[v][d]
        BY <2>4, <3>3
      <4>3. QED
        BY <1>4, <1>6, <2>2, <3>0, <3>1, <4>1, <4>2 DEF AverageHolds
    <3>4. QED
      BY <3>2, <3>3
  <2>7. RatingTypeOK'
    BY <1>3, <1>4, <2>2, <2>5 DEF RatingInv, RatingTypeOK, SubmitRow
  <2>8. QED
    BY <1>5, <2>6, <2>7 DEF RatingInv
<1>8. CASE dropRating(s)
  <2>1. UNCHANGED average
        /\ disturbed' = IF submit[s].pc = "insert" THEN disturbed ELSE disturbed \cup {u}
    BY <1>0, <1>8 DEF dropRating
  <2>2. submit[s].pc # "done" => u \in Riders
    BY <1>0, ReceiverType DEF RatingInv, SubmitHolds
  <2>3. ASSUME NEW v \in Riders PROVE AverageHolds(v)'
    <3>0. AverageHolds(v)
      BY DEF RatingInv
    <3>1. v \notin disturbed' => v \notin disturbed /\ s \notin Recomputing(v)
      BY <1>0, <2>1 DEF Recomputing
    <3>2. \A t \in Recomputing(v) : t \in Raters
      BY DEF Recomputing
    <3>3. QED
      BY <1>4, <1>6, <2>1, <3>0, <3>1, <3>2 DEF AverageHolds
  <2>4. disturbed' \subseteq Riders
    BY <1>1, <1>8, <2>1, <2>2 DEF RatingInv, RatingTypeOK, SubmitHolds
  <2>5. RatingTypeOK'
    BY <1>3, <1>4, <2>1, <2>4 DEF RatingInv, RatingTypeOK, SubmitRow
  <2>6. QED
    BY <1>5, <2>3, <2>5 DEF RatingInv
<1>9. QED
  BY <1>7, <1>8

LEMMA RatingStep == ASSUME RatingInv, [RatingNext]_ratingVars PROVE RatingInv'
<1>1. CASE UNCHANGED ratingVars
  BY <1>1 DEF RatingInv, RatingTypeOK, SubmitHolds, AverageHolds, Received, Recomputing, ratingVars
<1>2. QED
  BY <1>1, SubmitStep, CreateStep, AverageStep, LastStep DEF RatingNext

\* Averages heal because of what the requests in flight hold.
THEOREM RatingInvariance == RatingSpec => []RatingInv
  BY RatingStarts, RatingStep, PTL DEF RatingSpec

\* An average that a crash or an overlap left wrong is right again after the next
\* rating submitted on its own (rating.service.js:8-26).
THEOREM AveragesHeal == RatingSpec => []AverageHeals
<1>1. RatingInv => AverageHeals
  BY DEF RatingInv, AverageHolds, AverageHeals
<1>2. QED
  BY <1>1, RatingInvariance, PTL

-----------------------------------------------------------------------------
(* Redemptions.  The bound is inductive: a request that passes the count   *)
(* while there is room leaves at least one redemption to the limit, and    *)
(* one that redeems is no longer among those who may.                      *)

CheckoutRow == [pc : {"done", "countAll", "countOwn", "pay", "redeem"}, trip : Trips \cup {NoTrip}]

Redeemed(u) == {t \in redeemed : PayerOf[t] = u}
PastOf(u) == {p \in Past({"pay", "redeem"}) : PayerOf[checkout[p].trip] = u}

RedemptionInv ==
    /\ RedemptionTypeOK
    /\ \A p \in Checkouts : checkout[p].pc # "done" => checkout[p].trip \in Trips
    /\ \A p \in Checkouts : checkout[p].pc = "redeem" => checkout[p].trip \in paidTrips
    /\ OversellIsBounded

\* Sets and sums: what is counted is finite, one more redeemed is one less past
\* its count, and whoever is past a count is among the requests.
LEMMA Finite ==
  ASSUME NEW S \in SUBSET Trips, NEW P \in SUBSET Checkouts
  PROVE  /\ IsFiniteSet(S) /\ Cardinality(S) \in Nat
         /\ IsFiniteSet(P) /\ Cardinality(P) \in Nat
         /\ Cardinality(P) <= Cardinality(Checkouts) /\ Cardinality(Checkouts) \in Nat
<1>1. IsFiniteSet(S) /\ IsFiniteSet(P) /\ Cardinality(P) <= Cardinality(Checkouts)
  BY TripsAssumption, FS_Subset
<1>2. QED
  BY <1>1, TripsAssumption, FS_CardinalityType

LEMMA Fewer ==
  ASSUME NEW P \in SUBSET Checkouts, NEW Q \in SUBSET P
  PROVE  Cardinality(Q) <= Cardinality(P)
  BY TripsAssumption, FS_Subset

LEMMA OneLess ==
  ASSUME NEW P \in SUBSET Checkouts, NEW p \in P, NEW Q \in SUBSET (P \ {p})
  PROVE  Cardinality(Q) + 1 <= Cardinality(P)
<1>1. IsFiniteSet(P) /\ Cardinality(P) \in Nat /\ Cardinality(Q) \in Nat
  BY Finite
<1>2. IsFiniteSet(P \ {p}) /\ Cardinality(P \ {p}) = Cardinality(P) - 1
  BY <1>1, FS_RemoveElement
<1>3. Cardinality(Q) <= Cardinality(P \ {p})
  BY <1>2, FS_Subset
<1>4. QED
  BY <1>1, <1>2, <1>3

LEMMA OneMore ==
  ASSUME NEW S \in SUBSET Trips, NEW t \in Trips, NEW T \in SUBSET (S \cup {t})
  PROVE  Cardinality(T) <= Cardinality(S) + 1
<1>1. IsFiniteSet(S) /\ Cardinality(S) \in Nat /\ Cardinality(T) \in Nat
  BY Finite
<1>2. /\ IsFiniteSet(S \cup {t})
      /\ Cardinality(S \cup {t}) = Cardinality(S) \/ Cardinality(S \cup {t}) = Cardinality(S) + 1
  BY <1>1, FS_AddElement
<1>3. Cardinality(T) <= Cardinality(S \cup {t})
  BY <1>2, FS_Subset
<1>4. Cardinality(S \cup {t}) \in Nat
  BY <1>2, FS_CardinalityType
<1>5. QED
  BY <1>1, <1>2, <1>3, <1>4

\* What a step may do to what was redeemed and to who is past the count.
LEMMA BoundKept ==
  ASSUME NEW R \in SUBSET Trips, NEW P \in SUBSET Checkouts,
         NEW S \in SUBSET Trips, NEW Q \in SUBSET Checkouts, NEW limit \in Nat \ {0},
         Cardinality(R) + Cardinality(P) <= limit + Cardinality(Checkouts) - 1,
         \/ S = R /\ Q \subseteq P
         \/ S = R /\ Cardinality(R) < limit
         \/ \E t \in Trips, p \in P : S \subseteq R \cup {t} /\ Q \subseteq P \ {p}
  PROVE  Cardinality(S) + Cardinality(Q) <= limit + Cardinality(Checkouts) - 1
<1>1. /\ Cardinality(R) \in Nat /\ Cardinality(P) \in Nat /\ Cardinality(S) \in Nat
      /\ Cardinality(Q) \in Nat /\ Cardinality(Checkouts) \in Nat
      /\ Cardinality(Q) <= Cardinality(Checkouts)
  BY Finite
<1>2. CASE S = R /\ Q \subseteq P
  <2>1. Cardinality(Q) <= Cardinality(P)
    BY <1>2, Fewer
  <2>2. QED
    BY <1>1, <1>2, <2>1
<1>3. CASE S = R /\ Cardinality(R) < limit
  BY <1>1, <1>3
<1>4. CASE \E t \in Trips, p \in P : S \subseteq R \cup {t} /\ Q \subseteq P \ {p}
  <2>1. PICK t \in Trips, p \in P : S \subseteq R \cup {t} /\ Q \subseteq P \ {p}
    BY <1>4
  <2>2. Cardinality(Q) + 1 <= Cardinality(P) /\ Cardinality(S) <= Cardinality(R) + 1
    BY <2>1, OneLess, OneMore
  <2>3. QED
    BY <1>1, <2>2
<1>5. QED
  BY <1>2, <1>3, <1>4

Payers == {PayerOf[t] : t \in Trips}

\* The two halves of OversellIsBounded.
AllBounded ==
    Cardinality(redeemed) + Cardinality(Past({"countOwn", "pay", "redeem"}))
        <= Limit + Cardinality(Checkouts) - 1
OwnBounded(u) ==
    Cardinality(Redeemed(u)) + Cardinality(PastOf(u)) <= PerUser + Cardinality(Checkouts) - 1

LEMMA Halves == OversellIsBounded <=> AllBounded /\ \A u \in Payers : OwnBounded(u)
  BY DEF OversellIsBounded, AllBounded, OwnBounded, Redeemed, PastOf, Payers

LEMMA RedemptionStarts == RedemptionInit => RedemptionInv
<1> SUFFICES ASSUME RedemptionInit PROVE RedemptionInv
  OBVIOUS
<1>1. \A p \in Checkouts : checkout[p].pc = "done"
  BY DEF RedemptionInit, NotPaying
<1>2. RedemptionTypeOK
  BY DEF RedemptionInit, RedemptionTypeOK, NotPaying
<1>3. Past({"countOwn", "pay", "redeem"}) = {} /\ redeemed = {}
      /\ \A u : Redeemed(u) = {} /\ PastOf(u) = {}
  BY <1>1 DEF RedemptionInit, Past, Redeemed, PastOf
<1>4. Cardinality({}) = 0
  BY FS_EmptySet
<1>5. Cardinality(Checkouts) \in Nat
  BY Finite
<1>6. AllBounded /\ \A u \in Payers : OwnBounded(u)
  <2>1. \A limit \in Nat \ {0} : 0 + 0 <= limit + Cardinality(Checkouts) - 1
    BY <1>5
  <2>2. AllBounded
    BY <1>3, <1>4, <2>1, LimitAssumption DEF AllBounded
  <2>3. ASSUME NEW u \in Payers PROVE OwnBounded(u)
    <3>1. Redeemed(u) = {} /\ PastOf(u) = {}
      BY <1>3
    <3>2. QED
      BY <1>4, <2>1, <3>1, LimitAssumption DEF OwnBounded
  <2>4. QED
    BY <2>2, <2>3
<1>7. QED
  BY <1>1, <1>2, <1>6, Halves DEF RedemptionInv

LEMMA Bounded ==
  ASSUME RedemptionInv, RedemptionTypeOK'
  PROVE  /\ redeemed \in SUBSET Trips /\ redeemed' \in SUBSET Trips
         /\ \A steps : Past(steps) \in SUBSET Checkouts /\ Past(steps)' \in SUBSET Checkouts
         /\ \A u : /\ Redeemed(u) \in SUBSET Trips /\ Redeemed(u)' \in SUBSET Trips
                   /\ PastOf(u) \in SUBSET Checkouts /\ PastOf(u)' \in SUBSET Checkouts
         /\ AllBounded /\ \A u \in Payers : OwnBounded(u)
  BY Halves DEF RedemptionInv, RedemptionTypeOK, Past, Redeemed, PastOf

LEMMA AllBoundedStep ==
  ASSUME RedemptionInv, RedemptionTypeOK',
         LET P == Past({"countOwn", "pay", "redeem"}) IN
            \/ redeemed' = redeemed /\ P' \subseteq P
            \/ redeemed' = redeemed /\ Cardinality(redeemed) < Limit
            \/ \E t \in Trips, p \in P : redeemed' \subseteq redeemed \cup {t} /\ P' \subseteq P \ {p}
  PROVE  AllBounded'
<1> DEFINE P == Past({"countOwn", "pay", "redeem"})
<1>1. /\ redeemed \in SUBSET Trips /\ redeemed' \in SUBSET Trips
      /\ P \in SUBSET Checkouts /\ P' \in SUBSET Checkouts
      /\ Cardinality(redeemed) + Cardinality(P) <= Limit + Cardinality(Checkouts) - 1
  BY Bounded DEF AllBounded
<1>2. QED
  BY <1>1, BoundKept, LimitAssumption DEF AllBounded

LEMMA OwnBoundedStep ==
  ASSUME RedemptionInv, RedemptionTypeOK', NEW u \in Payers,
            \/ Redeemed(u)' = Redeemed(u) /\ PastOf(u)' \subseteq PastOf(u)
            \/ Redeemed(u)' = Redeemed(u) /\ Cardinality(Redeemed(u)) < PerUser
            \/ \E t \in Trips, p \in PastOf(u) :
                  Redeemed(u)' \subseteq Redeemed(u) \cup {t} /\ PastOf(u)' \subseteq PastOf(u) \ {p}
  PROVE  OwnBounded(u)'
<1>1. /\ Redeemed(u) \in SUBSET Trips /\ Redeemed(u)' \in SUBSET Trips
      /\ PastOf(u) \in SUBSET Checkouts /\ PastOf(u)' \in SUBSET Checkouts
      /\ Cardinality(Redeemed(u)) + Cardinality(PastOf(u)) <= PerUser + Cardinality(Checkouts) - 1
  BY Bounded DEF OwnBounded
<1>2. QED
  BY <1>1, BoundKept, LimitAssumption DEF OwnBounded

\* One request moves.
LEMMA CheckoutMoves ==
  ASSUME RedemptionInv, NEW p \in Checkouts, NEW x \in CheckoutRow,
         checkout' = [checkout EXCEPT ![p] = x],
         x.pc # "done" => x.trip \in Trips, x.pc = "redeem" => x.trip \in paidTrips',
         redeemed' \subseteq paidTrips', paidTrips \subseteq paidTrips', paidTrips' \subseteq Trips
  PROVE  /\ checkout'[p] = x /\ \A q \in Checkouts \ {p} : checkout'[q] = checkout[q]
         /\ RedemptionTypeOK'
         /\ \A q \in Checkouts : checkout'[q].pc # "done" => checkout'[q].trip \in Trips
         /\ \A q \in Checkouts : checkout'[q].pc = "redeem" => checkout'[q].trip \in paidTrips'
  BY DEF RedemptionInv, RedemptionTypeOK, CheckoutRow

\* A request is no further past a count than it was, or takes its turn.
LEMMA Moving ==
  ASSUME RedemptionInv, NEW p \in Checkouts, NEW x \in CheckoutRow,
         checkout' = [checkout EXCEPT ![p] = x], redeemed' = redeemed,
         x.pc # "done" => x.trip \in Trips, x.pc = "redeem" => x.trip \in paidTrips',
         paidTrips \subseteq paidTrips', paidTrips' \subseteq Trips,
         \/ x.pc \in {"done", "countAll"}
         \/ checkout[p].pc = "countAll" /\ x.pc = "countOwn" /\ Cardinality(redeemed) < Limit
         \/ checkout[p].pc = "countOwn" /\ x.pc = "pay" /\ x.trip = checkout[p].trip
               /\ Cardinality(Own(p)) < PerUser
         \/ checkout[p].pc = "pay" /\ x.pc = "redeem" /\ x.trip = checkout[p].trip
  PROVE  RedemptionInv'
<1>1. redeemed' \subseteq paidTrips'
  BY DEF RedemptionInv, RedemptionTypeOK
<1>2. /\ checkout'[p] = x /\ \A q \in Checkouts \ {p} : checkout'[q] = checkout[q]
      /\ RedemptionTypeOK'
      /\ \A q \in Checkouts : checkout'[q].pc # "done" => checkout'[q].trip \in Trips
      /\ \A q \in Checkouts : checkout'[q].pc = "redeem" => checkout'[q].trip \in paidTrips'
  BY <1>1, CheckoutMoves
<1>3. \/ Past({"countOwn", "pay", "redeem"})' \subseteq Past({"countOwn", "pay", "redeem"})
      \/ Cardinality(redeemed) < Limit
  BY <1>2 DEF Past
<1>4. AllBounded'
  BY <1>2, <1>3, AllBoundedStep
<1>5. ASSUME NEW u \in Payers PROVE OwnBounded(u)'
  <2>1. Redeemed(u)' = Redeemed(u)
    BY DEF Redeemed
  <2>2. \/ PastOf(u)' \subseteq PastOf(u)
        \/ Cardinality(Own(p)) < PerUser /\ PayerOf[checkout[p].trip] = u
    BY <1>2 DEF PastOf, Past
  <2>3. PayerOf[checkout[p].trip] = u => Own(p) = Redeemed(u)
    BY DEF Own, Redeemed
  <2>4. QED
    BY <1>2, <2>1, <2>2, <2>3, OwnBoundedStep
<1>6. OversellIsBounded'
  <2>1. AllBounded' /\ \A u \in Payers : OwnBounded(u)'
    BY <1>4, <1>5
  <2>2. QED
    BY <2>1 DEF OversellIsBounded, AllBounded, OwnBounded, Redeemed, PastOf, Payers
<1>7. QED
  BY <1>2, <1>6 DEF RedemptionInv

LEMMA Redeeming == ASSUME RedemptionInv, NEW p \in Checkouts, redeem(p) PROVE RedemptionInv'
<1>0. PICK t : t = checkout[p].trip
  OBVIOUS
<1>1. checkout[p].pc = "redeem" /\ t \in Trips /\ t \in paidTrips
  BY <1>0 DEF RedemptionInv, redeem
<1>2. NotPaying \in CheckoutRow /\ NotPaying.pc = "done"
  BY DEF NotPaying, CheckoutRow
<1>3. checkout' = [checkout EXCEPT ![p] = NotPaying] /\ redeemed' = redeemed \cup {t}
      /\ paidTrips' = paidTrips
  BY <1>0 DEF redeem, GiveUp
<1>4. redeemed' \subseteq paidTrips' /\ paidTrips' \subseteq Trips
  BY <1>1, <1>3 DEF RedemptionInv, RedemptionTypeOK
<1>5. /\ checkout'[p] = NotPaying /\ \A q \in Checkouts \ {p} : checkout'[q] = checkout[q]
      /\ RedemptionTypeOK'
      /\ \A q \in Checkouts : checkout'[q].pc # "done" => checkout'[q].trip \in Trips
      /\ \A q \in Checkouts : checkout'[q].pc = "redeem" => checkout'[q].trip \in paidTrips'
  BY <1>2, <1>3, <1>4, CheckoutMoves
<1>6. AllBounded'
  <2>1. p \in Past({"countOwn", "pay", "redeem"})
        /\ Past({"countOwn", "pay", "redeem"})' \subseteq Past({"countOwn", "pay", "redeem"}) \ {p}
    BY <1>1, <1>2, <1>5 DEF Past
  <2>2. QED
    BY <1>1, <1>3, <1>5, <2>1, AllBoundedStep
<1>7. ASSUME NEW u \in Payers PROVE OwnBounded(u)'
  <2>1. CASE PayerOf[t] = u
    <3>1. p \in PastOf(u) /\ PastOf(u)' \subseteq PastOf(u) \ {p}
      BY <1>0, <1>1, <1>2, <1>5, <2>1 DEF PastOf, Past
    <3>2. Redeemed(u)' \subseteq Redeemed(u) \cup {t}
      BY <1>3 DEF Redeemed
    <3>3. QED
      BY <1>1, <1>5, <3>1, <3>2, OwnBoundedStep
  <2>2. CASE PayerOf[t] # u
    <3>1. PastOf(u)' \subseteq PastOf(u)
      BY <1>2, <1>5 DEF PastOf, Past
    <3>2. Redeemed(u)' = Redeemed(u)
      BY <1>3, <2>2 DEF Redeemed
    <3>3. QED
      BY <1>5, <3>1, <3>2, OwnBoundedStep
  <2>3. QED
    BY <2>1, <2>2
<1>8. OversellIsBounded'
  <2>1. AllBounded' /\ \A u \in Payers : OwnBounded(u)'
    BY <1>6, <1>7
  <2>2. QED
    BY <2>1 DEF OversellIsBounded, AllBounded, OwnBounded, Redeemed, PastOf, Payers
<1>9. QED
  BY <1>5, <1>8 DEF RedemptionInv

LEMMA RedemptionStep == ASSUME RedemptionInv, [RedemptionNext]_redemptionVars PROVE RedemptionInv'
<1> DEFINE To(p, pc) == [checkout[p] EXCEPT !.pc = pc]
<1>1. NotPaying \in CheckoutRow /\ NotPaying.pc = "done"
  BY DEF NotPaying, CheckoutRow
<1>2. ASSUME NEW p \in Checkouts, NEW pc \in {"countOwn", "pay", "redeem"}
      PROVE  To(p, pc) \in CheckoutRow /\ To(p, pc).pc = pc /\ To(p, pc).trip = checkout[p].trip
             /\ (Advance(p, pc) => checkout' = [checkout EXCEPT ![p] = To(p, pc)])
  BY DEF RedemptionInv, RedemptionTypeOK, CheckoutRow, Advance
<1>3. /\ paidTrips \subseteq Trips
      /\ \A p \in Checkouts : checkout[p].pc # "done" => checkout[p].trip \in Trips
  BY DEF RedemptionInv, RedemptionTypeOK
<1> HIDE DEF To
<1>4. ASSUME NEW p \in Checkouts, GiveUp(p), redeemed' = redeemed,
             paidTrips \subseteq paidTrips', paidTrips' \subseteq Trips
      PROVE  RedemptionInv'
  BY <1>1, <1>4, Moving DEF GiveUp
<1>5. ASSUME NEW p \in Checkouts, NEW t \in Trips, checkOut(p, t) PROVE RedemptionInv'
  <2> DEFINE x == [pc |-> "countAll", trip |-> t]
  <2>1. x \in CheckoutRow /\ x.pc = "countAll" /\ x.trip \in Trips
    BY DEF CheckoutRow
  <2>2. checkout' = [checkout EXCEPT ![p] = x] /\ redeemed' = redeemed /\ paidTrips' = paidTrips
    BY <1>5 DEF checkOut
  <2> HIDE DEF x
  <2>3. QED
    BY <1>3, <2>1, <2>2, Moving
<1>6. ASSUME NEW p \in Checkouts, countAll(p) PROVE RedemptionInv'
  <2>1. checkout[p].pc = "countAll" /\ redeemed' = redeemed /\ paidTrips' = paidTrips
        /\ (GiveUp(p) \/ (Cardinality(redeemed) < Limit /\ Advance(p, "countOwn")))
    BY <1>6 DEF countAll, Below
  <2>2. QED
    BY <1>2, <1>3, <1>4, <2>1, Moving
<1>7. ASSUME NEW p \in Checkouts, countOwn(p) PROVE RedemptionInv'
  <2>1. checkout[p].pc = "countOwn" /\ redeemed' = redeemed /\ paidTrips' = paidTrips
        /\ (GiveUp(p) \/ (Cardinality(Own(p)) < PerUser /\ Advance(p, "pay")))
    BY <1>7 DEF countOwn, Below
  <2>2. QED
    BY <1>2, <1>3, <1>4, <2>1, Moving
<1>8. ASSUME NEW p \in Checkouts, pay(p) PROVE RedemptionInv'
  <2>1. checkout[p].pc = "pay" /\ redeemed' = redeemed
        /\ paidTrips' = paidTrips \cup {checkout[p].trip}
        /\ (GiveUp(p) \/ Advance(p, "redeem"))
    BY <1>8 DEF pay
  <2>2. paidTrips \subseteq paidTrips' /\ paidTrips' \subseteq Trips
    BY <1>3, <2>1
  <2>3. QED
    BY <1>2, <1>3, <1>4, <2>1, <2>2, Moving
<1>9. ASSUME NEW p \in Checkouts, dropCheckout(p) PROVE RedemptionInv'
  BY <1>3, <1>4, <1>9 DEF dropCheckout
<1>10. CASE UNCHANGED redemptionVars
  BY <1>10 DEF RedemptionInv, RedemptionTypeOK, OversellIsBounded, Past, redemptionVars
<1>11. QED
  BY <1>5, <1>6, <1>7, <1>8, <1>9, <1>10, Redeeming DEF RedemptionNext

\* What is redeemed and who is about to redeem stay within the limits.
THEOREM RedemptionInvariance == RedemptionSpec => []RedemptionInv
  BY RedemptionStarts, RedemptionStep, PTL DEF RedemptionSpec

\* Concurrent payments oversell a coupon by no more than those already past its
\* count (coupon.service.js:20, 42-51; payment.service.js:158).
THEOREM OversellingIsBounded == RedemptionSpec => []OversellIsBounded
<1>1. RedemptionInv => OversellIsBounded
  BY DEF RedemptionInv
<1>2. QED
  BY <1>1, RedemptionInvariance, PTL
-----------------------------------------------------------------------------
(* The six services side by side.  Each one sees its own steps and         *)
(* otherwise stutters, so what holds of it alone holds of it here.         *)

LEMMA ServicesStart ==
  MCInit => /\ VettingInit /\ RatingInit /\ CouponInit
            /\ RedemptionInit /\ CodeInit /\ OfferInit
  BY DEF MCInit

LEMMA ServicesStep ==
  [MCNext]_allVars =>
      /\ [VettingNext]_vetVars /\ [RatingNext]_ratingVars /\ [CouponNext]_couponVars
      /\ [RedemptionNext]_redemptionVars /\ [CodeNext]_codeVars /\ [OfferNext]_offerVars
<1> SUFFICES ASSUME [MCNext]_allVars
             PROVE  /\ [VettingNext]_vetVars /\ [RatingNext]_ratingVars /\ [CouponNext]_couponVars
                    /\ [RedemptionNext]_redemptionVars /\ [CodeNext]_codeVars
                    /\ [OfferNext]_offerVars
  OBVIOUS
<1> USE DEF MCNext
<1>1. CASE part = "vetting" /\ VettingNext
             /\ UNCHANGED <<ratingVars, couponVars, redemptionVars, codeVars, offerVars>>
  BY <1>1
<1>2. CASE part = "ratings" /\ RatingNext
             /\ UNCHANGED <<vetVars, couponVars, redemptionVars, codeVars, offerVars>>
  BY <1>2
<1>3. CASE part = "coupons" /\ CouponNext
             /\ UNCHANGED <<vetVars, ratingVars, redemptionVars, codeVars, offerVars>>
  BY <1>3
<1>4. CASE part = "redemptions" /\ RedemptionNext
             /\ UNCHANGED <<vetVars, ratingVars, couponVars, codeVars, offerVars>>
  BY <1>4
<1>5. CASE part = "code" /\ CodeNext
             /\ UNCHANGED <<vetVars, ratingVars, couponVars, redemptionVars, offerVars>>
  BY <1>5
<1>6. CASE part = "offers" /\ OfferNext
             /\ UNCHANGED <<vetVars, ratingVars, couponVars, redemptionVars, codeVars>>
  BY <1>6
<1>7. CASE UNCHANGED allVars
  BY <1>7 DEF allVars
<1>8. QED
  BY <1>1, <1>2, <1>3, <1>4, <1>5, <1>6, <1>7

\* A behaviour of the six is one of each of them.
THEOREM ServicesCompose ==
  MCSpec => /\ VettingSpec /\ RatingSpec /\ CouponSpec
            /\ RedemptionSpec /\ CodeSpec /\ OfferSpec
  BY ServicesStart, ServicesStep, PTL
     DEF MCSpec, VettingSpec, RatingSpec, CouponSpec, RedemptionSpec, CodeSpec, OfferSpec

\* Whatever the six services keep, their rows, sets, counters and requests in
\* flight, stays of its type.
THEOREM ServicesTyped == MCSpec => []ServicesTypeOK
<1>1. VettingInv => VettingTypeOK
  BY DEF VettingInv
<1>2. RatingInv => RatingTypeOK
  BY DEF RatingInv
<1>3. RedemptionInv => RedemptionTypeOK
  BY DEF RedemptionInv
<1>4. OfferInv => OfferTypeOK
  BY DEF OfferInv
<1>5. VettingTypeOK /\ RatingTypeOK /\ CouponTypeOK /\ RedemptionTypeOK /\ CodeTypeOK /\ OfferTypeOK
         => ServicesTypeOK
  BY DEF ServicesTypeOK
<1>6. QED
  BY <1>1, <1>2, <1>3, <1>4, <1>5, ServicesCompose, VettingInvariance, RatingInvariance,
     CouponTypes, RedemptionInvariance, CodeTypes, OfferInvariance, PTL
===============================================================================
