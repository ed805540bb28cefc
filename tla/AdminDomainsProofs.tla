------------------------- MODULE AdminDomainsProofs -------------------------
(***************************************************************************)
(* Theorems about AdminDomains: composed with the domain list, logins and   *)
(* sessions keep what they promise, and the list keeps its own promises.    *)
(***************************************************************************)
EXTENDS AdminDomains, LoginSessionsProofs

(* What is done to the list is a step of the login system, or none: the request
   goes on, is answered, or the process is restarted. *)
THEOREM RefinesLogins == AdminSpec => LoginSpec
  <1>1. AdminInit => LoginInit
    BY DEF AdminInit
  <1>2. [AdminNext]_adminVars => [LoginNext]_loginVars
    <2> SUFFICES ASSUME [AdminNext]_adminVars PROVE LoginNext \/ UNCHANGED loginVars
      OBVIOUS
    <2>1. CASE UNCHANGED adminVars
      BY <2>1 DEF adminVars
    <2>2. CASE LoginStep /\ UNCHANGED domainVars
      BY <2>2 DEF LoginNext
    <2>3. ASSUME NEW q \in Requests, Save(q) PROVE LoginNext \/ UNCHANGED loginVars
      BY <2>3 DEF Save, LoginNext
    <2>4. ASSUME NEW q \in Requests, NEW d \in Domains, ChangeDomain(q, d)
          PROVE  LoginNext \/ UNCHANGED loginVars
      BY <2>4 DEF ChangeDomain, LoginNext
    <2>5. CASE Restart
      BY <2>5 DEF Restart, LoginNext
    <2>6. QED
      BY <2>1, <2>2, <2>3, <2>4, <2>5 DEF AdminNext
  <1>3. QED
    BY <1>1, <1>2, PTL DEF AdminSpec, LoginSpec

(* The theorems of LoginSessionsProofs hold here. *)
THEOREM LoginsHold ==
    AdminSpec => /\ []LoginTypeOK /\ []LoginOnce /\ []SessionOfSubject
                 /\ OverStaysOver /\ DemotionSettles /\ KeepsBook
  BY RefinesLogins, LoginTypeCorrect, LoginsAreUsedOnce, SessionsOfTheirSubjects, OverIsOver,
     DemotionsSettle, LoginsKeepBook, PTL

-----------------------------------------------------------------------------
(* The list and its file.                                                  *)

DomainInv == DomainTypeOK /\ FileHoldsList

LEMMA InitDomains == AdminInit => DomainInv
  <1> SUFFICES ASSUME DomainInit PROVE DomainInv
    BY DEF AdminInit
  <1>1. file = [is |-> "absent", list |-> {}] /\ file \in File /\ Loaded(file) = {}
    BY DEF DomainInit, File, Loaded
  <1>2. domains = {} /\ holder = Idle /\ saving = "no" /\ failed = FALSE
    BY DEF DomainInit
  <1>3. DomainTypeOK
    BY <1>1, <1>2 DEF DomainTypeOK
  <1>4. FileHoldsList
    BY <1>1, <1>2 DEF FileHoldsList
  <1>5. QED
    BY <1>3, <1>4 DEF DomainInv

LEMMA NextDomains == DomainInv /\ [AdminNext]_adminVars => DomainInv'
  <1> SUFFICES ASSUME DomainInv, [AdminNext]_adminVars PROVE DomainInv'
    OBVIOUS
  <1> USE DomainAssumption, AdminAssumption
  <1>1. DomainTypeOK /\ FileHoldsList
    BY DEF DomainInv
  <1>2. ASSUME UNCHANGED domainVars PROVE DomainInv'
    BY <1>1, <1>2 DEF domainVars, DomainInv, DomainTypeOK, FileHoldsList, Loaded
  <1>3. ASSUME NEW q \in Requests, NEW new \in SUBSET Domains, Change(q, new) PROVE DomainInv'
    BY <1>1, <1>3 DEF Change, DomainInv, DomainTypeOK, FileHoldsList
  <1>4. ASSUME NEW q \in Requests, NEW d \in Domains, ChangeDomain(q, d) PROVE DomainInv'
    <2>1. CASE Add(q, d)
      BY <1>1, <1>3, <2>1 DEF Add, DomainTypeOK
    <2>2. CASE Remove(q, d)
      BY <1>1, <1>3, <2>2 DEF Remove, DomainTypeOK
    <2>3. CASE NoChange(q, d)
      BY <1>2, <2>3 DEF NoChange
    <2>4. QED
      BY <1>4, <2>1, <2>2, <2>3 DEF ChangeDomain
  <1>5. ASSUME NEW q \in Requests, Truncate(q) PROVE DomainInv'
    BY <1>1, <1>5 DEF Truncate, DomainInv, DomainTypeOK, FileHoldsList, File
  <1>6. ASSUME NEW q \in Requests, WriteList(q) PROVE DomainInv'
    BY <1>1, <1>6 DEF WriteList, DomainInv, DomainTypeOK, FileHoldsList, File, Loaded
  <1>7. ASSUME NEW q \in Requests, SaveFails(q) PROVE DomainInv'
    BY <1>1, <1>7 DEF SaveFails, DomainInv, DomainTypeOK, FileHoldsList
  <1>8. CASE Reload
    <2>1. Loaded(file) \subseteq Domains
      BY <1>1 DEF DomainTypeOK, File, Loaded
    <2>2. /\ holder' = Idle /\ saving' = "no" /\ UNCHANGED file
          /\ LoadSucceeds \/ LoadFails
      BY <1>8 DEF Reload
    <2>3. DomainTypeOK'
      BY <1>1, <2>1, <2>2 DEF LoadSucceeds, LoadFails, DomainTypeOK
    <2>4. FileHoldsList'
      <3>1. CASE LoadSucceeds
        BY <2>2, <3>1 DEF LoadSucceeds, FileHoldsList, Loaded
      <3>2. CASE LoadFails
        BY <3>2 DEF LoadFails, FileHoldsList
      <3>3. QED
        BY <2>2, <3>1, <3>2
    <2>5. QED
      BY <2>3, <2>4 DEF DomainInv
  <1>9. QED
    BY <1>2, <1>4, <1>5, <1>6, <1>7, <1>8 DEF AdminNext, Save, Restart, adminVars

(* Types, those of the composition included: the mutex is held exactly while a
   save is under way. *)
THEOREM AdminTypeCorrect == AdminSpec => []AdminTypeOK
  <1>1. DomainInv => DomainTypeOK
    BY DEF DomainInv
  <1>2. AdminSpec => []DomainTypeOK
    BY <1>1, InitDomains, NextDomains, PTL DEF AdminSpec
  <1>3. LoginTypeOK /\ DomainTypeOK => AdminTypeOK
    BY DEF AdminTypeOK
  <1>4. QED
    BY <1>2, <1>3, LoginsHold, PTL

(* List and file differ only during a save, or from a failed save or a failed read
   at the start until the next save that succeeds. *)
THEOREM FileIsTheList == AdminSpec => []FileHoldsList
  <1>1. DomainInv => FileHoldsList
    BY DEF DomainInv
  <1>2. QED
    BY <1>1, InitDomains, NextDomains, PTL DEF AdminSpec

(* The list is changed only for a token issued to a subject whose claims had
   made an administrator. *)
THEOREM AdminsAloneChange == AdminSpec => OnlyAdminsChange
  <1> DEFINE ActInv == \A q \in Requests : At(q, "act") => issued[req[q].token].subject \in granted
  <1>1. AdminSpec => []ActInv
    BY RefinesLogins, AdminsWereGranted, PTL
  <1>2. ActInv => [\A q \in Requests, d \in Domains :
                      At(q, "act") /\ (Add(q, d) \/ Remove(q, d))
                        => issued[req[q].token].subject \in granted]_adminVars
    OBVIOUS
  <1> HIDE DEF ActInv
  <1>3. QED
    BY <1>1, <1>2, PTL DEF OnlyAdminsChange, AdminSpec
=============================================================================
