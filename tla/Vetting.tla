-------------------------------- MODULE Vetting --------------------------------
(***************************************************************************)
(* Who may drive what: becomeDriver (user.service.js), the vehicles and    *)
(* documents of a driver (vehicle.service.js) and what an administrator    *)
(* decides about the three (verification.service.js).                      *)
(*                                                                         *)
(* An edit of a vehicle, a removal and a review each check one query's     *)
(* answer and write by another; the file of a document is kept outside of  *)
(* the database.  A request is its record in "vetting" and may end before  *)
(* any step, with the process or by an error of the database.              *)
(*                                                                         *)
(* An identity stands for make, model, year and plate; the plate is        *)
(* unique.  Left out: the sessions that reviewDriver ends (Sessions), its  *)
(* email (EmailDelivery), the audit log, and who may call what.            *)
(***************************************************************************)
CONSTANTS
    People,        \* users that may become drivers
    Vehicles,
    Identities,
    Documents,     \* rows of vehicle_documents, and their files
    Requests,      \* requests that may be in flight at one time
    Nothing        \* null

ASSUME NothingAssumption ==
    Nothing \notin People \cup Vehicles \cup Identities \cup Documents

VARIABLES
    role,          \* User.role
    profile,       \* Driver.verificationStatus
    vehicle,       \* the Vehicle table
    document,      \* VehicleDocument.status
    files,         \* documents whose file is on the disk
    vetting,       \* the requests in flight
    reviewed,      \* the identity a vehicle had when it was last verified
    raced          \* vehicles verified while an edit of theirs was in flight

vetVars == <<role, profile, vehicle, document, files, vetting, reviewed, raced>>

Decisions == {"APPROVED", "REJECTED", "SUSPENDED"}
NoVehicle == [driver |-> Nothing, identity |-> Nothing, isVerified |-> FALSE, isActive |-> FALSE]
NoRequest == [pc |-> "done", on |-> Nothing, sawVerified |-> FALSE, value |-> Nothing]

VettingInit ==
    /\ role = [p \in People |-> "PASSENGER"]
    /\ profile = [p \in People |-> "none"]
    /\ vehicle = [v \in Vehicles |-> NoVehicle]
    /\ document = [k \in Documents |-> "none"]
    /\ files = {}
    /\ vetting = [q \in Requests |-> NoRequest]
    /\ reviewed = [v \in Vehicles |-> Nothing]
    /\ raced = {}

-----------------------------------------------------------------------------

Enter(q, pc, on, saw, value) ==
    /\ vetting[q] = NoRequest
    /\ vetting' = [vetting EXCEPT ![q] = [pc |-> pc, on |-> on, sawVerified |-> saw, value |-> value]]

On(q, pc) == vetting[q].pc = pc
Pass(q, pc) == vetting' = [vetting EXCEPT ![q].pc = pc]
Leave(q) == vetting' = [vetting EXCEPT ![q] = NoRequest]

\* The instance dies, the database refuses, a validator objects.
drop(q) ==
    /\ vetting[q] # NoRequest
    /\ Leave(q)
    /\ UNCHANGED <<role, profile, vehicle, document, files, reviewed, raced>>

-----------------------------------------------------------------------------
(* Drivers.                                                                *)

becomeDriver(q, p) ==
    /\ role[p] = "PASSENGER" /\ profile[p] = "none"
    /\ Enter(q, "promote", p, FALSE, Nothing)
    /\ UNCHANGED <<role, profile, vehicle, document, files, reviewed, raced>>

\* One nested write; userId is unique, so that a second profile is a 409.
profileApart(p) == profile[p]
profileOf(p) == IF profile[p] = "none" THEN "PENDING" ELSE profile[p]

promoteToDriver(q) ==
    LET p == vetting[q].on IN
    /\ On(q, "promote")
    /\ role' = [role EXCEPT ![p] = "DRIVER"]
    /\ profile' = [profile EXCEPT ![p] = profileOf(p)]
    /\ Leave(q)
    /\ UNCHANGED <<vehicle, document, files, reviewed, raced>>

reviewDriver(q, p, status) ==
    /\ profile[p] # "none"
    /\ Enter(q, "record", p, FALSE, status)
    /\ profile' = [profile EXCEPT ![p] = status]
    /\ UNCHANGED <<role, vehicle, document, files, reviewed, raced>>

\* auditLogRepository.record, of which nothing is kept here.
record(q) ==
    /\ On(q, "record")
    /\ Leave(q)
    /\ UNCHANGED <<role, profile, vehicle, document, files, reviewed, raced>>

-----------------------------------------------------------------------------
(* Vehicles.                                                               *)

Free(i) == \A v \in Vehicles : vehicle[v].identity # i

createVehicle(p, v, i) ==
    /\ profile[p] # "none" /\ vehicle[v] = NoVehicle /\ Free(i)
    /\ vehicle' = [vehicle EXCEPT ![v] =
          [driver |-> p, identity |-> i, isVerified |-> FALSE, isActive |-> TRUE]]
    /\ UNCHANGED <<role, profile, document, files, vetting, reviewed, raced>>

\* i is the identity the edit writes, or Nothing if it touches other fields only.
updateVehicle(q, v, i) ==
    /\ vehicle[v] # NoVehicle
    /\ Enter(q, "writeVehicle", v, vehicle[v].isVerified, i)
    /\ UNCHANGED <<role, profile, vehicle, document, files, reviewed, raced>>

payloadKept(v, q) == vehicle[v].isVerified
payload(v, q) ==
    IF vetting[q].value # Nothing /\ vetting[q].sawVerified THEN FALSE ELSE vehicle[v].isVerified

writeVehicle(q) ==
    LET v == vetting[q].on  i == vetting[q].value IN
    /\ On(q, "writeVehicle")
    /\ IF i = Nothing \/ i = vehicle[v].identity \/ Free(i)
       THEN vehicle' = [vehicle EXCEPT ![v].identity = IF i = Nothing THEN @ ELSE i,
                                       ![v].isVerified = payload(v, q)]
       ELSE UNCHANGED vehicle
    /\ Leave(q)
    /\ UNCHANGED <<role, profile, document, files, reviewed, raced>>

\* Nothing makes a vehicle active again.
deactivateVehicle(v) ==
    /\ vehicle[v].isActive
    /\ vehicle' = [vehicle EXCEPT ![v].isActive = FALSE]
    /\ UNCHANGED <<role, profile, document, files, vetting, reviewed, raced>>

reviewVehicle(q, v, isVerified) ==
    /\ vehicle[v] # NoVehicle
    /\ Enter(q, "record", v, FALSE, IF isVerified THEN "VERIFIED" ELSE "UNVERIFIED")
    /\ vehicle' = [vehicle EXCEPT ![v].isVerified = isVerified]
    /\ reviewed' = [reviewed EXCEPT ![v] = IF isVerified THEN vehicle[v].identity ELSE @]
    /\ raced' = IF \E r \in Requests : On(r, "writeVehicle") /\ vetting[r].on = v
                THEN raced \cup {v} ELSE raced
    /\ UNCHANGED <<role, profile, document, files>>

-----------------------------------------------------------------------------
(* Documents.                                                              *)

\* Multer writes the file after the check of the owner and before the body is
\* validated.
uploadDocument(q, k, v) ==
    /\ vehicle[v] # NoVehicle /\ document[k] = "none" /\ k \notin files
    /\ Enter(q, "createDocument", k, FALSE, Nothing)
    /\ files' = files \cup {k}
    /\ UNCHANGED <<role, profile, vehicle, document, reviewed, raced>>

addDocument(q) ==
    /\ On(q, "createDocument")
    /\ document' = [document EXCEPT ![vetting[q].on] = "PENDING"]
    /\ Leave(q)
    /\ UNCHANGED <<role, profile, vehicle, files, reviewed, raced>>

removeDocument(q, k) ==
    /\ document[k] \in {"PENDING", "REJECTED"}
    /\ Enter(q, "delete", k, FALSE, Nothing)
    /\ UNCHANGED <<role, profile, vehicle, document, files, reviewed, raced>>

\* The second of two deletes finds no row and is a 404.
deleteRow(q) ==
    LET k == vetting[q].on IN
    /\ On(q, "delete")
    /\ document' = [document EXCEPT ![k] = "removed"]
    /\ IF document[k] = "removed" THEN Leave(q) ELSE Pass(q, "deleteFile")
    /\ UNCHANGED <<role, profile, vehicle, files, reviewed, raced>>

deleteFile(q) ==
    /\ On(q, "deleteFile")
    /\ files' = files \ {vetting[q].on}
    /\ Leave(q)
    /\ UNCHANGED <<role, profile, vehicle, document, reviewed, raced>>

reviewDocument(q, k, status) ==
    /\ document[k] \notin {"none", "removed"}
    /\ Enter(q, "writeReview", k, FALSE, status)
    /\ UNCHANGED <<role, profile, vehicle, document, files, reviewed, raced>>

\* An update by id, which fails when the row is gone.
standingAgain(k, status) == status
standing(k, status) == IF document[k] = "removed" THEN "removed" ELSE status

writeReview(q) ==
    LET k == vetting[q].on IN
    /\ On(q, "writeReview")
    /\ document' = [document EXCEPT ![k] = standing(k, vetting[q].value)]
    /\ IF document[k] = "removed" THEN Leave(q) ELSE Pass(q, "record")
    /\ UNCHANGED <<role, profile, vehicle, files, reviewed, raced>>

-----------------------------------------------------------------------------

VettingNext ==
    \/ \E q \in Requests, p \in People :
          becomeDriver(q, p) \/ \E s \in Decisions : reviewDriver(q, p, s)
    \/ \E p \in People, v \in Vehicles, i \in Identities : createVehicle(p, v, i)
    \/ \E q \in Requests, v \in Vehicles :
          \/ \E i \in Identities \cup {Nothing} : updateVehicle(q, v, i)
          \/ \E b \in BOOLEAN : reviewVehicle(q, v, b)
          \/ \E k \in Documents : uploadDocument(q, k, v)
    \/ \E v \in Vehicles : deactivateVehicle(v)
    \/ \E q \in Requests, k \in Documents :
          removeDocument(q, k) \/ \E s \in {"APPROVED", "REJECTED"} : reviewDocument(q, k, s)
    \/ \E q \in Requests :
          \/ promoteToDriver(q) \/ record(q) \/ writeVehicle(q) \/ addDocument(q)
          \/ deleteRow(q) \/ deleteFile(q) \/ writeReview(q) \/ drop(q)

VettingSpec == VettingInit /\ [][VettingNext]_vetVars

-----------------------------------------------------------------------------
(* Properties.                                                             *)

\* The types, and what is created together: a driver has a profile.
VettingTypeOK ==
    /\ \A p \in People : role[p] = "DRIVER" <=> profile[p] # "none"
    /\ role \in [People -> {"PASSENGER", "DRIVER"}]
    /\ profile \in [People -> Decisions \cup {"none", "PENDING"}]
    /\ vehicle \in [Vehicles -> [driver : People \cup {Nothing},
                                 identity : Identities \cup {Nothing},
                                 isVerified : BOOLEAN, isActive : BOOLEAN]]
    /\ document \in [Documents -> {"none", "PENDING", "APPROVED", "REJECTED", "removed"}]
    /\ files \subseteq Documents
    /\ reviewed \in [Vehicles -> Identities \cup {Nothing}]
    /\ raced \subseteq Vehicles

\* "Editing a verified vehicle's identity means what an admin actually verified
\* no longer matches what's on file - the verification has to be re-earned"
\* (vehicle.service.js:40-44): a verified vehicle is what it was when it was
\* verified, unless an edit was in flight at that moment.
VerifiedAsReviewed ==
    \A v \in Vehicles \ raced : vehicle[v].isVerified => vehicle[v].identity = reviewed[v]

\* Whatever uploads, removals and reviews meet in one document, and whichever of
\* them dies half way: a row that can be downloaded has its file.
DocumentsHaveFiles ==
    \A k \in Documents : document[k] \in {"PENDING", "APPROVED", "REJECTED"} => k \in files
===============================================================================
