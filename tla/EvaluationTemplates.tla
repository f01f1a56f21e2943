------------------------ MODULE EvaluationTemplates ------------------------
(***************************************************************************)
(* The forms of performance evaluations.  Whoever lists the templates or   *)
(* opens a cycle first makes sure that the standard form exists, is the    *)
(* default and has replaced the retired ones, statement by statement.      *)
(***************************************************************************)
EXTENDS ApiProcess

CONSTANTS
  Templates,   \* identities of templates
  Legacy,      \* the retired forms among them
  Assignees    \* employees with a template of their own

NoTemplate == "none"

ASSUME TemplateAssumption == Legacy \subseteq Templates /\ NoTemplate \notin Templates

VARIABLES
  template,  \* the table EvaluationTemplate
  assigned   \* Employee.evaluationTemplateId

templateVars == <<template, assigned, apiVars>>

NotMade == [kind |-> "none", default |-> FALSE, active |-> FALSE]

Made == {t \in Templates : template[t].kind # "none"}

Standard == {t \in Templates : template[t].kind = "standard"}

Defaults == {t \in Templates : template[t].default}

Cleared(keep) == [t \in Templates |-> [template[t] EXCEPT !.default = @ /\ t \in keep]]

Step(h, op, t, flags) == Continue(h, [op |-> op, t |-> t, flags |-> flags])

Flags == [default : BOOLEAN, active : BOOLEAN]

NewDefault == [default |-> TRUE, active |-> TRUE]

-----------------------------------------------------------------------------
\* ensureDefaultTemplate reads the standard form, any one if there are two.
ReadStandard(h) ==
  /\ \/ Standard = {} /\ Hold(h, [op |-> "clear", t |-> NoTemplate, flags |-> NewDefault])
     \/ \E t \in Standard :
          Hold(h, [op |-> IF template[t].default /\ template[t].active THEN "retire" ELSE "clear",
                   t |-> t, flags |-> NewDefault])
  /\ UNCHANGED <<template, assigned>>

\* Fault: the other defaults are left as they are.
KeptDefaults(r) == template

\* All defaults but the one to be made or kept lose the mark.
ClearedDefaults(r) == Cleared({r.t})

ClearDefaults(h) ==
  LET r == request[h]
  IN /\ r.op \in {"clear", "clearForAdmin"}
     /\ template' = ClearedDefaults(r)
     /\ Continue(h, [r EXCEPT !.op = IF @ = "clear" THEN "ensure" ELSE "write"])
     /\ UNCHANGED assigned

EnsureStandard(h, t) ==
  LET r == request[h]
  IN /\ r.op = "ensure"
     /\ IF r.t = NoTemplate THEN template[t].kind = "none" /\ t \notin Legacy ELSE t = r.t
     /\ template' = [template EXCEPT ![t] = [kind |-> "standard", default |-> TRUE, active |-> TRUE]]
     /\ Step(h, "retire", t, NewDefault)
     /\ UNCHANGED assigned

Retired(row) == [row EXCEPT !.default = FALSE, !.active = FALSE]

\* Two statements: the retired forms are switched off, then whoever had one
\* gets the standard form.
RetireLegacy(h) ==
  LET r == request[h]
  IN /\ r.op = "retire"
     /\ template' = [t \in Templates |->
                       IF t \in Legacy \cap Made THEN Retired(template[t]) ELSE template[t]]
     /\ Step(h, "reassign", r.t, r.flags)
     /\ UNCHANGED assigned

Reassign(h) ==
  /\ request[h].op = "reassign"
  /\ assigned' = [e \in Assignees |-> IF assigned[e] \in Legacy THEN request[h].t ELSE assigned[e]]
  /\ Answer(h)
  /\ UNCHANGED template

\* createTemplate and updateTemplate: a template that is to be the default
\* takes the mark from the others first.
SaveTemplate(h, t, flags) ==
  /\ t \notin Legacy \/ t \in Made
  /\ Hold(h, [op |-> IF flags.default THEN "clearForAdmin" ELSE "write", t |-> t, flags |-> flags])
  /\ UNCHANGED <<template, assigned>>

WriteTemplate(h) ==
  LET r == request[h]
  IN /\ r.op = "write"
     /\ template' = [template EXCEPT ![r.t] =
                      [kind |-> IF @.kind = "none" THEN "custom" ELSE @.kind,
                       default |-> r.flags.default, active |-> r.flags.active]]
     /\ Answer(h)
     /\ UNCHANGED assigned

\* An employee is given a template that is active.
AssignTemplate(e, t) ==
  /\ t \in Made /\ template[t].active
  /\ assigned' = [assigned EXCEPT ![e] = t]
  /\ AtOnce
  /\ UNCHANGED template

\* pickTemplate, once the standard form is ensured: the employee's own form if
\* it can still be used, else the default, else any that is active.
Usable(t) == t \in Made /\ template[t].active /\ t \notin Legacy

Picked(e, standard) ==
  LET own == assigned[e]
      usable == {t \in Templates : Usable(t)}
  IN IF own # NoTemplate THEN {IF Usable(own) THEN own ELSE standard}
     ELSE IF usable \cap Defaults # {} THEN usable \cap Defaults
     ELSE IF usable # {} THEN usable ELSE {standard}

-----------------------------------------------------------------------------
\* A database from before the retired forms were retired, of which one may be
\* the default.
TemplateInit ==
  /\ \E first \in Legacy \cup {NoTemplate} :
       template = [t \in Templates |->
         IF t \in Legacy THEN [kind |-> "custom", default |-> t = first, active |-> TRUE]
         ELSE NotMade]
  /\ assigned = [e \in Assignees |-> NoTemplate]
  /\ ApiInit

TemplateNext ==
  \/ \E h \in Handlers :
       \/ ReadStandard(h) \/ ClearDefaults(h) \/ RetireLegacy(h) \/ Reassign(h)
       \/ \E t \in Templates : EnsureStandard(h, t)
       \/ \E t \in Templates, flags \in Flags : SaveTemplate(h, t, flags)
       \/ WriteTemplate(h)
       \/ BreakOff(h) /\ UNCHANGED <<template, assigned>>
  \/ \E e \in Assignees, t \in Templates : AssignTemplate(e, t)

TemplateSpec == TemplateInit /\ [][TemplateNext]_templateVars

-----------------------------------------------------------------------------
TemplateRows == [kind : {"none", "standard", "custom"}, default : BOOLEAN, active : BOOLEAN]

\* The tables hold values the code can give them.
TemplateTypeOK ==
  /\ template \in [Templates -> TemplateRows]
  /\ assigned \in [Assignees -> Templates \cup {NoTemplate}]

\* While requests come one after the other an organization has one default
\* form at most and one standard form at most, also when a request broke off
\* between clearing the mark and setting it; no unique key says so.
OneDefaultForm ==
  ~overlapped => Cardinality(Defaults) <= 1 /\ Cardinality(Standard) <= 1

\* A form that was retired is not the default, and is picked for nobody, once
\* the standard form was ensured, whoever still has it assigned.
RetiredIsNotPicked ==
  ~overlapped =>
    \A h \in Handlers, e \in Assignees :
      request[h].op = "reassign" =>
        \A t \in Picked(e, request[h].t) : t \notin Legacy /\ template[t].active

\* One request after the other, whole or broken off between its statements, one
\* template at most is the default and one the standard, and no retired one is
\* picked for anybody (ensureDefaultTemplate, pickTemplate).
FormsInOrder == TemplateTypeOK /\ OneDefaultForm /\ RetiredIsNotPicked
=============================================================================
