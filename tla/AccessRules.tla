---------------------------- MODULE AccessRules ----------------------------
(***************************************************************************)
(* The access rule of the tunnel at one hostname (internal/server/store.go, *)
(* tables tunnels and tunnel_access_rules): the rule created with the       *)
(* tunnel, deleted with it, and updated by the administrators' requests,    *)
(* each of which reads the old rule, merges it with its input and writes    *)
(* the result.                                                              *)
(*                                                                          *)
(* A step is one SQL statement or one transaction.  A secret stands for its *)
(* hash, an address range for its CIDR text; Blank is the empty string.     *)
(***************************************************************************)
EXTENDS Naturals

CONSTANTS Editors,      \* requests that update the rule at the same time
          Inputs,       \* what they may send
          Users, Passwords, Headers, Secrets, Prefixes,
          Malformed,    \* an address range that does not parse
          Blank,        \* an empty field
          None,         \* no row, no rule, no request in progress
          MaxTunnels    \* bound on the tunnels created at the hostname

Modes == {"public", "basic_auth", "shared_secret_header"}

Ids == 1 .. MaxTunnels

Fields == [user : Users \cup {Blank}, pass : Passwords \cup {Blank},
           header : Headers \cup {Blank}, secret : Secrets \cup {Blank}]

Input == [mode : Modes \cup {"invalid", Blank}, fields : Fields,
          ips : SUBSET (Prefixes \cup {Malformed})]

Rule == [mode : Modes, fields : Fields, ips : SUBSET Prefixes]

ASSUME ConstantsAssumption ==
    /\ MaxTunnels \in Nat
    /\ Inputs \subseteq Input
    /\ Malformed \notin Prefixes
    /\ Blank \notin Users \cup Passwords \cup Headers \cup Secrets \cup Modes \cup {"invalid"}
    /\ None \notin Ids \cup Rule

VARIABLES row,     \* the id of the tunnel at the hostname
          nextId,  \* the id AUTOINCREMENT gives next
          rules,   \* tunnel_access_rules by tunnel_id
          edit     \* the update an editor has in progress

vars == <<row, nextId, rules, edit>>

Init == /\ row = None
        /\ nextId = 1
        /\ rules = [i \in Ids |-> None]
        /\ edit = [e \in Editors |-> None]

-----------------------------------------------------------------------------
(* validateAccessRuleInput.                                                *)

(* The fields a mode uses. *)
Used(mode) == CASE mode = "basic_auth" -> {"user", "pass"}
                [] mode = "shared_secret_header" -> {"header", "secret"}
                [] OTHER -> {}

NoFields == [user |-> Blank, pass |-> Blank, header |-> Blank, secret |-> Blank]

(* The input's field, or the old one where it is blank. *)
Merge(input, existing) ==
    [f \in DOMAIN input.fields |->
        IF input.fields[f] = Blank /\ existing # None THEN existing.fields[f] ELSE input.fields[f]]

ModeOf(input, existing) ==
    IF input.mode # Blank THEN input.mode
    ELSE IF existing # None THEN existing.mode ELSE "public"

(* A validation that requires one of the two fields a mode uses. *)
AcceptableEither(input, existing) ==
    /\ ModeOf(input, existing) \in Modes
    /\ Malformed \notin input.ips
    /\ Used(ModeOf(input, existing)) # {} =>
         \E f \in Used(ModeOf(input, existing)) : Merge(input, existing)[f] # Blank

Acceptable(input, existing) ==
    /\ ModeOf(input, existing) \in Modes
    /\ Malformed \notin input.ips
    /\ \A f \in Used(ModeOf(input, existing)) : Merge(input, existing)[f] # Blank

(* A result with the input's fields where the merged ones belong. *)
ValidatedInput(input, existing) ==
    [mode |-> ModeOf(input, existing),
     fields |-> [f \in DOMAIN NoFields |->
                   IF f \in Used(ModeOf(input, existing)) THEN input.fields[f] ELSE Blank],
     ips |-> input.ips]

(* The rule to write; the fields the mode does not use are cleared. *)
Validated(input, existing) ==
    [mode |-> ModeOf(input, existing),
     fields |-> [f \in DOMAIN NoFields |->
                   IF f \in Used(ModeOf(input, existing)) THEN Merge(input, existing)[f] ELSE Blank],
     ips |-> input.ips]

-----------------------------------------------------------------------------

PublicInput == [mode |-> "public", fields |-> NoFields, ips |-> {}]

(* The tunnel and its rule created by two statements outside a transaction,
   the second of which has failed. *)
CreateBare ==
    /\ row = None /\ nextId \in Ids
    /\ row' = nextId
    /\ nextId' = nextId + 1
    /\ UNCHANGED <<rules, edit>>

(* CreateTunnel: row and rule in one transaction. *)
CreateTunnel ==
    /\ row = None /\ nextId \in Ids
    /\ row' = nextId
    /\ nextId' = nextId + 1
    /\ rules' = [rules EXCEPT ![nextId] = Validated(PublicInput, None)]
    /\ UNCHANGED edit

(* DeleteTunnelByName; the rule goes by ON DELETE CASCADE. *)
DeleteTunnel ==
    /\ row # None
    /\ row' = None
    /\ rules' = [rules EXCEPT ![row] = None]
    /\ UNCHANGED <<nextId, edit>>

(* A PATCH of the rule, or the form of the admin page, reads the tunnel. *)
BeginUpdate(e, input) ==
    /\ edit[e] = None /\ row # None
    /\ edit' = [edit EXCEPT ![e] = [id |-> row, input |-> input, existing |-> None, ready |-> FALSE]]
    /\ UNCHANGED <<row, nextId, rules>>

(* UpsertTunnelAccessRule first reads the old rule; none if it is gone. *)
ReadRule(e) ==
    /\ edit[e] # None /\ ~edit[e].ready
    /\ edit' = [edit EXCEPT ![e] = [@ EXCEPT !.existing = rules[edit[e].id], !.ready = TRUE]]
    /\ UNCHANGED <<row, nextId, rules>>

(* An upsert without the foreign key. *)
WriteUnchecked(e) ==
    /\ edit[e] # None /\ edit[e].ready
    /\ rules' = IF Acceptable(edit[e].input, edit[e].existing)
                THEN [rules EXCEPT ![edit[e].id] = Validated(edit[e].input, edit[e].existing)]
                ELSE rules
    /\ edit' = [edit EXCEPT ![e] = None]
    /\ UNCHANGED <<row, nextId>>

(* Then it writes the merged one, or fails: the input is refused, or the foreign
   key is because the tunnel was deleted. *)
WriteRule(e) ==
    /\ edit[e] # None /\ edit[e].ready
    /\ rules' = IF Acceptable(edit[e].input, edit[e].existing) /\ row = edit[e].id
                THEN [rules EXCEPT ![row] = Validated(edit[e].input, edit[e].existing)]
                ELSE rules
    /\ edit' = [edit EXCEPT ![e] = None]
    /\ UNCHANGED <<row, nextId>>

(* The request is cancelled. *)
Cancel(e) ==
    /\ edit[e] # None
    /\ edit' = [edit EXCEPT ![e] = None]
    /\ UNCHANGED <<row, nextId, rules>>

(* The process is restarted; the tables stay. *)
CancelAll ==
    /\ edit' = [e \in Editors |-> None]
    /\ UNCHANGED <<row, nextId, rules>>

Update(e) == (\E input \in Inputs : BeginUpdate(e, input)) \/ ReadRule(e) \/ WriteRule(e) \/ Cancel(e)

Next == CreateTunnel \/ DeleteTunnel \/ CancelAll \/ \E e \in Editors : Update(e)

Spec == Init /\ [][Next]_vars

-----------------------------------------------------------------------------
(* Properties.                                                             *)

TypeOK ==
    /\ row \in Ids \cup {None}
    /\ nextId \in 1 .. MaxTunnels + 1
    /\ rules \in [Ids -> Rule \cup {None}]
    /\ edit \in [Editors -> [id : Ids, input : Inputs, existing : Rule \cup {None},
                             ready : BOOLEAN] \cup {None}]

(* The tunnel has a rule and a deleted one has none, although an update may
   finish after the delete or after the creation of another tunnel. *)
RowsHaveRules == \A i \in Ids : rules[i] # None <=> row = i

(* A stored rule can be satisfied and says nothing its mode does not use: a
   password is never matched against an empty hash, whatever sequence of modes
   and of blank fields led to it. *)
RuleComplete ==
    \A i \in Ids : rules[i] # None =>
        \A f \in DOMAIN NoFields : rules[i].fields[f] # Blank <=> f \in Used(rules[i].mode)

(* "configured - leave blank to keep": an update that leaves a field blank
   leaves the stored one as it is.  It holds for one update at a time. *)
BlankKeeps ==
    [][\A e \in Editors : WriteRule(e) /\ rules' # rules =>
          \A f \in Used(rules'[row].mode) :
              edit[e].input.fields[f] = Blank => rules'[row].fields[f] = rules[row].fields[f]]_vars
=============================================================================
