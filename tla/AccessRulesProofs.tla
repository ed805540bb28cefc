------------------------- MODULE AccessRulesProofs -------------------------
(***************************************************************************)
(* AccessRules for any number of concurrent updates, inputs and tunnels.    *)
(***************************************************************************)
EXTENDS AccessRules, TLAPS

USE ConstantsAssumption DEF Ids

-----------------------------------------------------------------------------
(* The validation. *)

FieldNames == {"user", "pass", "header", "secret"}

(* A function on the four names with values of the right kinds is a Fields. *)
LEMMA FieldsAreFunctions ==
    ASSUME NEW g, g = [f \in FieldNames |-> g[f]],
           g["user"] \in Users \cup {Blank}, g["pass"] \in Passwords \cup {Blank},
           g["header"] \in Headers \cup {Blank}, g["secret"] \in Secrets \cup {Blank}
    PROVE  g \in Fields
BY DEF FieldNames, Fields

LEMMA DomainOfNoFields == DOMAIN NoFields = FieldNames
BY DEF NoFields, FieldNames

(* The merge of the input with the old rule has fields of the right kinds. *)
LEMMA MergeType ==
    ASSUME NEW input \in Input, NEW existing \in Rule \cup {None}
    PROVE  Merge(input, existing) \in Fields
<1>1. DOMAIN input.fields = FieldNames
  BY DEF Input, Fields, FieldNames
<1>2. input.fields \in Fields
  BY DEF Input
<1>3. existing # None => existing.fields \in Fields
  BY DEF Rule
<1>. QED
  BY <1>1, <1>2, <1>3, FieldsAreFunctions DEF Merge, FieldNames, Fields

(* A validated input is a rule. *)
LEMMA ValidatedType ==
    ASSUME NEW input \in Input, NEW existing \in Rule \cup {None}, Acceptable(input, existing)
    PROVE  Validated(input, existing) \in Rule
<1>. DEFINE m == Merge(input, existing)
            v == Validated(input, existing).fields
<1>1. m \in Fields
  BY MergeType
<1>2. v = [f \in FieldNames |-> IF f \in Used(ModeOf(input, existing)) THEN m[f] ELSE Blank]
  BY DomainOfNoFields DEF Validated
<1>. HIDE DEF m, v
<1>3. v \in Fields
  BY <1>1, <1>2, FieldsAreFunctions DEF FieldNames, Fields
<1>4. input.ips \in SUBSET Prefixes
  BY DEF Acceptable, Input
<1>5. ModeOf(input, existing) \in Modes
  BY DEF Acceptable
<1>. QED
  BY <1>3, <1>4, <1>5 DEF v, Validated, Rule

(* A rule that says exactly what its mode uses. *)
Complete(rule) == \A f \in DOMAIN NoFields : rule.fields[f] # Blank <=> f \in Used(rule.mode)

LEMMA ValidatedComplete ==
    ASSUME NEW input, NEW existing, Acceptable(input, existing)
    PROVE  Complete(Validated(input, existing))
BY DEF Complete, Acceptable, Validated

(* The rule every tunnel is created with. *)
LEMMA PublicAcceptable ==
    PublicInput \in Input /\ Acceptable(PublicInput, None)
<1>1. NoFields \in Fields
  BY DEF NoFields, Fields
<1>2. PublicInput \in Input
  BY <1>1 DEF PublicInput, Input, Modes
<1>3. ModeOf(PublicInput, None) = "public"
  BY DEF ModeOf, PublicInput, Modes
<1>4. Used("public") = {}
  BY DEF Used
<1>. QED
  BY <1>2, <1>3, <1>4 DEF Acceptable, PublicInput, Modes

-----------------------------------------------------------------------------
(* The invariants. *)

(* The row and the rules, with the ids not given yet. *)
RowInv ==
    /\ RowsHaveRules
    /\ row # None => row < nextId

LEMMA InitOK == Init => TypeOK /\ RowInv
BY DEF Init, TypeOK, RowInv, RowsHaveRules

LEMMA TypeStep == TypeOK /\ [Next]_vars => TypeOK'
<1>. SUFFICES ASSUME TypeOK, [Next]_vars PROVE TypeOK'
  OBVIOUS
<1>. USE DEF TypeOK
<1>1. CASE CreateTunnel
  <2>1. Validated(PublicInput, None) \in Rule
    BY PublicAcceptable, ValidatedType
  <2>. QED
    BY <1>1, <2>1 DEF CreateTunnel
<1>2. CASE DeleteTunnel
  BY <1>2 DEF DeleteTunnel
<1>3. ASSUME NEW e \in Editors, NEW input \in Inputs, BeginUpdate(e, input) PROVE TypeOK'
  BY <1>3 DEF BeginUpdate
<1>4. ASSUME NEW e \in Editors, ReadRule(e) PROVE TypeOK'
  BY <1>4 DEF ReadRule
<1>5. ASSUME NEW e \in Editors, WriteRule(e) PROVE TypeOK'
  <2>1. edit[e].input \in Input /\ edit[e].existing \in Rule \cup {None}
    BY <1>5 DEF WriteRule
  <2>2. Acceptable(edit[e].input, edit[e].existing) =>
          Validated(edit[e].input, edit[e].existing) \in Rule
    BY <2>1, ValidatedType
  <2>. QED
    BY <1>5, <2>2 DEF WriteRule
<1>6. ASSUME NEW e \in Editors, Cancel(e) PROVE TypeOK'
  BY <1>6 DEF Cancel
<1>7. CASE CancelAll
  BY <1>7 DEF CancelAll
<1>8. CASE UNCHANGED vars
  BY <1>8 DEF vars
<1>. QED
  BY <1>1, <1>2, <1>3, <1>4, <1>5, <1>6, <1>7, <1>8 DEF Next, Update

(* Type correctness of the store's tunnels and rules, and of the updates in
   progress: what is stored is a rule (upsertTunnelAccessRuleTx). *)
THEOREM TypeCorrect == Spec => []TypeOK
<1>. QED
  BY InitOK, TypeStep, PTL DEF Spec

LEMMA RowStep == TypeOK /\ RowInv /\ [Next]_vars => RowInv'
<1>. SUFFICES ASSUME TypeOK, RowInv, [Next]_vars PROVE RowInv'
  OBVIOUS
<1>. USE DEF TypeOK, RowInv, RowsHaveRules
<1>1. CASE CreateTunnel
  <2>1. Validated(PublicInput, None) # None
    BY PublicAcceptable, ValidatedType
  <2>. QED
    BY <1>1, <2>1 DEF CreateTunnel
<1>2. CASE DeleteTunnel
  BY <1>2 DEF DeleteTunnel
<1>3. ASSUME NEW e \in Editors, WriteRule(e) PROVE RowInv'
  <2>1. Acceptable(edit[e].input, edit[e].existing) =>
          Validated(edit[e].input, edit[e].existing) # None
    BY <1>3, ValidatedType DEF WriteRule
  <2>. QED
    BY <1>3, <2>1 DEF WriteRule
<1>4. CASE UNCHANGED <<row, nextId, rules>>
  BY <1>4
<1>. QED
  BY <1>1, <1>2, <1>3, <1>4 DEF Next, Update, BeginUpdate, ReadRule, Cancel, CancelAll, vars

(* A tunnel has a rule and a deleted one has none, whatever updates are in
   progress (DeleteTunnelByName, UpsertTunnelAccessRule). *)
THEOREM RulesGoWithRows == Spec => []RowsHaveRules
<1>1. RowInv => RowsHaveRules
  BY DEF RowInv
<1>. QED
  BY <1>1, InitOK, RowStep, TypeCorrect, PTL DEF Spec

(* Every stored rule can be satisfied and says nothing its mode does not use
   (validateAccessRuleInput). *)
THEOREM RulesAreComplete == Spec => []RuleComplete
<1>. USE DEF RuleComplete, TypeOK
<1>1. Init => RuleComplete
  BY DEF Init
<1>2. TypeOK /\ RuleComplete /\ [Next]_vars => RuleComplete'
  <2>. SUFFICES ASSUME TypeOK, RuleComplete, [Next]_vars PROVE RuleComplete'
    OBVIOUS
  <2>1. CASE CreateTunnel
    BY <2>1, PublicAcceptable, ValidatedComplete DEF CreateTunnel, Complete
  <2>2. CASE DeleteTunnel
    BY <2>2 DEF DeleteTunnel
  <2>3. ASSUME NEW e \in Editors, WriteRule(e) PROVE RuleComplete'
    BY <2>3, ValidatedComplete DEF WriteRule, Complete
  <2>4. CASE UNCHANGED rules
    BY <2>4
  <2>. QED
    BY <2>1, <2>2, <2>3, <2>4 DEF Next, Update, BeginUpdate, ReadRule, Cancel, CancelAll, vars
<1>. QED
  BY <1>1, <1>2, TypeCorrect, PTL DEF Spec
-----------------------------------------------------------------------------
(* One update at a time. *)

(* With one editor, what an update has read is what is stored, as long as the
   tunnel it is for is there; and ids are not given again. *)
ReadIsStored ==
    \A e \in Editors : edit[e] # None =>
        /\ edit[e].id < nextId
        /\ edit[e].ready /\ edit[e].id = row => edit[e].existing = rules[row]

LEMMA ReadIsStoredStep ==
    ASSUME \A e, f \in Editors : e = f
    PROVE  TypeOK /\ RowInv /\ ReadIsStored /\ [Next]_vars => ReadIsStored'
<1>. SUFFICES ASSUME TypeOK, RowInv, ReadIsStored, [Next]_vars PROVE ReadIsStored'
  OBVIOUS
<1>. USE DEF TypeOK, ReadIsStored
<1>1. row # None => row \in Nat /\ row < nextId
  BY DEF RowInv
<1>2. CASE CreateTunnel
  BY <1>2 DEF CreateTunnel
<1>3. CASE DeleteTunnel
  BY <1>3 DEF DeleteTunnel
<1>4. ASSUME NEW e \in Editors, NEW input \in Inputs, BeginUpdate(e, input) PROVE ReadIsStored'
  <2>1. edit' = [edit EXCEPT ![e] = [id |-> row, input |-> input, existing |-> None, ready |-> FALSE]]
    BY <1>4 DEF BeginUpdate
  <2>. QED
    BY <1>1, <1>4, <2>1 DEF BeginUpdate
<1>5. ASSUME NEW e \in Editors, ReadRule(e) PROVE ReadIsStored'
  BY <1>5 DEF ReadRule
<1>6. ASSUME NEW e \in Editors, WriteRule(e) \/ Cancel(e) PROVE ReadIsStored'
  BY <1>6 DEF WriteRule, Cancel
<1>7. CASE CancelAll
  BY <1>7 DEF CancelAll
<1>8. CASE UNCHANGED vars
  BY <1>8 DEF vars
<1>. QED
  BY <1>2, <1>3, <1>4, <1>5, <1>6, <1>7, <1>8 DEF Next, Update

(* "configured - leave blank to keep" holds for every input and every sequence
   of modes, deletes and creations when updates come one at a time
   (validateAccessRuleInput, UpsertTunnelAccessRule). *)
THEOREM BlankKeepsAlone ==
    ASSUME \A e, f \in Editors : e = f
    PROVE  Spec => BlankKeeps
<1>1. Init => ReadIsStored
  BY DEF Init, ReadIsStored
<1>2. TypeOK /\ RowInv /\ ReadIsStored /\ [Next]_vars => ReadIsStored'
  BY ReadIsStoredStep
<1>3. TypeOK /\ RowInv /\ ReadIsStored =>
        [\A e \in Editors : WriteRule(e) /\ rules' # rules =>
            \A f \in Used(rules'[row].mode) :
                edit[e].input.fields[f] = Blank => rules'[row].fields[f] = rules[row].fields[f]]_vars
  <2>. SUFFICES ASSUME TypeOK, RowInv, ReadIsStored,
                       NEW e \in Editors, WriteRule(e), rules' # rules,
                       NEW f \in Used(rules'[row].mode), edit[e].input.fields[f] = Blank
                PROVE  rules'[row].fields[f] = rules[row].fields[f]
    OBVIOUS
  <2>. DEFINE input == edit[e].input
              old == edit[e].existing
  <2>1. edit[e] # None /\ edit[e].ready /\ row = edit[e].id /\ row \in Ids
    BY DEF WriteRule, TypeOK
  <2>2. rules' = [rules EXCEPT ![row] = Validated(input, old)]
    BY DEF WriteRule
  <2>3. old = rules[row] /\ old # None
    BY <2>1 DEF ReadIsStored, RowInv, RowsHaveRules
  <2>4. rules'[row] = Validated(input, old)
    BY <2>1, <2>2 DEF TypeOK
  <2>5. Used(rules'[row].mode) \subseteq FieldNames
    BY DEF Used, FieldNames
  <2>6. f \in FieldNames /\ f \in Used(ModeOf(input, old))
    BY <2>4, <2>5 DEF Validated
  <2>7. rules'[row].fields[f] = Merge(input, old)[f]
    BY <2>4, <2>6, DomainOfNoFields DEF Validated
  <2>8. DOMAIN input.fields = FieldNames
    BY <2>1 DEF TypeOK, Input, Fields, FieldNames
  <2>. QED
    BY <2>3, <2>6, <2>7, <2>8 DEF Merge
<1>. QED
  BY <1>1, <1>2, <1>3, InitOK, RowStep, TypeCorrect, PTL DEF Spec, BlankKeeps
=============================================================================
