-------------------------- MODULE TemplatesProofs --------------------------
(***************************************************************************)
(* Theorems about Templates, for any number of handlers, templates and     *)
(* texts.                                                                  *)
(***************************************************************************)
EXTENDS Templates, TLAPS

Pcs == {"idle", "next", "insert", "version", "write", "rule", "drop"}

Version(t, c) == [template |-> t, content |-> c]

-----------------------------------------------------------------------------
\* The inductive invariant.

\* A request that is about to write a template or a version has what it takes.
RequestOK(h) ==
    /\ pc[h] \in {"insert", "version", "write", "rule"} => req[h].template \in TemplateIds
    /\ pc[h] = "insert" => req[h].kind \in {"seed", "create"}
    /\ pc[h] = "version" => req[h].kind \in {"seed", "create", "update", "restore"}
    /\ pc[h] = "write" => req[h].kind \in {"update", "restore", "delete"}
    /\ pc[h] \in {"insert", "version"} => req[h].content \in Contents
    /\ pc[h] = "write" /\ req[h].kind # "delete" => req[h].content \in Contents

\* The id that a request is about to insert is unused; only a new rule may name it.
InsertOK(h) ==
    pc[h] = "insert" =>
        /\ ~Stored(req[h].template)
        /\ \A k \in Handlers : k # h /\ req[k].template = req[h].template => req[k].kind = "rule"

\* What a request is about to write into a row is in the history of the row.
WriteOK(h) ==
    pc[h] = "write" /\ req[h].kind # "delete" /\ Stored(req[h].template) =>
        Version(req[h].template, req[h].content) \in versions

HandlersOK == \A h \in Handlers : RequestOK(h) /\ InsertOK(h) /\ WriteOK(h)

Inv == TypeOK /\ HandlersOK /\ RulesResolve

\* The initial state satisfies it.
LEMMA InitInv == Init => Inv
BY TemplatesAssumption
   DEF Init, Inv, TypeOK, HandlersOK, RequestOK, InsertOK, WriteOK, RulesResolve, NoRequest, Request,
       RequestType, Kinds

-----------------------------------------------------------------------------
\* What a step of the request of h does to the tables and to the request.
TablesStep(h) ==
    /\ templates' \in [TemplateIds -> Contents \cup {None}]
    /\ versions' \in SUBSET VersionType
    /\ rules' \in SUBSET TemplateIds
    /\ event' \in {"none", "stored", "deleted"}
    \* only an insert makes a row
    /\ \A t \in TemplateIds : Stored(t)' /\ ~Stored(t) => pc[h] = "insert" /\ t = req[h].template
    \* the history of a row that stays, stays
    /\ \A v \in versions : v.template \in TemplateIds /\ Stored(v.template)' => v \in versions'
    \* a row that changes has its new text in the history
    /\ \A t \in TemplateIds : Stored(t) /\ Stored(t)' /\ templates'[t] # templates[t] =>
          Version(t, templates'[t]) \in versions'
    /\ \A t \in rules' : event' = "stored" /\ Stored(t)'

RequestStep(h) ==
    /\ pc' \in [Handlers -> Pcs]
    /\ req' \in [Handlers -> RequestType]
    /\ todo' \in [Handlers -> SUBSET Seeds]
    /\ \A k \in Handlers : k # h => pc'[k] = pc[k] /\ req'[k] = req[k]
    /\ RequestOK(h)'
    /\ InsertOK(h)'
    /\ WriteOK(h)'
    \* the request does not take up an id that another one is about to insert
    /\ \A k \in Handlers :
          k # h /\ pc[k] = "insert" /\ req'[h].template = req[k].template => req'[h].kind = "rule"

\* Such steps keep the invariant.
LEMMA StepKeeps ==
    ASSUME Inv, NEW h \in Handlers, TablesStep(h), RequestStep(h)
    PROVE  Inv'
<1>1. TypeOK' /\ RulesResolve'
  BY DEF TablesStep, RequestStep, TypeOK, RulesResolve, Pcs
<1>2. ASSUME NEW k \in Handlers, k # h
      PROVE  RequestOK(k)' /\ InsertOK(k)' /\ WriteOK(k)'
  <2>1. pc'[k] = pc[k] /\ req'[k] = req[k]
    BY <1>2 DEF RequestStep
  <2>2. /\ RequestOK(k) /\ InsertOK(k) /\ WriteOK(k)
        /\ RequestOK(h) /\ InsertOK(h)
    BY DEF Inv, HandlersOK
  <2>3. RequestOK(k)'
    BY <2>1, <2>2 DEF RequestOK
  <2>4. InsertOK(k)'
    <3> SUFFICES ASSUME pc[k] = "insert"
                 PROVE  /\ ~Stored(req[k].template)'
                        /\ \A j \in Handlers : j # k /\ req'[j].template = req'[k].template
                              => req'[j].kind = "rule"
      BY <2>1 DEF InsertOK
    <3>1. req[k].template \in TemplateIds /\ req[k].kind \in {"seed", "create"}
      BY <2>2 DEF RequestOK
    <3>2. ~Stored(req[k].template)
      BY <2>2 DEF InsertOK
    <3>3. templates'[req[k].template] = None
      BY <1>2, <2>2, <3>1, <3>2 DEF TablesStep, InsertOK, Stored
    <3>4. ~Stored(req[k].template)'
      BY <2>1, <3>3 DEF Stored
    <3>5. ASSUME NEW j \in Handlers, j # k, req'[j].template = req'[k].template
          PROVE  req'[j].kind = "rule"
      <4>1. CASE j = h
        BY <2>1, <3>5, <4>1 DEF RequestStep
      <4>2. CASE j # h
        BY <2>1, <2>2, <3>5, <4>2 DEF RequestStep, InsertOK
      <4> QED
        BY <4>1, <4>2
    <3> QED
      BY <3>4, <3>5
  <2>5. WriteOK(k)'
    <3> SUFFICES ASSUME pc[k] = "write", req[k].kind # "delete", templates'[req[k].template] # None
                 PROVE  Version(req[k].template, req[k].content) \in versions'
      BY <2>1 DEF WriteOK, Stored, Version
    <3>1. req[k].template \in TemplateIds /\ req[k].kind \in {"update", "restore", "delete"}
      BY <2>2 DEF RequestOK
    <3>2. Stored(req[k].template)
      BY <1>2, <2>2, <3>1 DEF TablesStep, InsertOK, Stored
    <3>3. Version(req[k].template, req[k].content) \in versions
      BY <2>2, <3>2 DEF WriteOK
    <3>4. Version(req[k].template, req[k].content).template = req[k].template
      BY DEF Version
    <3> QED
      BY <3>1, <3>3, <3>4 DEF TablesStep, Stored
  <2> QED
    BY <2>3, <2>4, <2>5
<1>3. RequestOK(h)' /\ InsertOK(h)' /\ WriteOK(h)'
  BY DEF RequestStep
<1> QED
  BY <1>1, <1>2, <1>3 DEF Inv, HandlersOK

-----------------------------------------------------------------------------
\* The request of h goes to "at" and is then r; only its own entries change.
Moves(h, at, r, s) ==
    /\ pc' = [pc EXCEPT ![h] = at]
    /\ req' = [req EXCEPT ![h] = r]
    /\ todo' = [todo EXCEPT ![h] = s]

\* What RequestOK asks of a request r at "at".
Fits(at, r) ==
    /\ at \in {"insert", "version", "write", "rule"} => r.template \in TemplateIds
    /\ at = "insert" => r.kind \in {"seed", "create"}
    /\ at = "version" => r.kind \in {"seed", "create", "update", "restore"}
    /\ at = "write" => r.kind \in {"update", "restore", "delete"}
    /\ at \in {"insert", "version"} => r.content \in Contents
    /\ at = "write" /\ r.kind # "delete" => r.content \in Contents

\* A step that moves the request of h along is a RequestStep.
LEMMA MoveStep ==
    ASSUME Inv, NEW h \in Handlers, NEW at \in Pcs, NEW r \in RequestType, NEW s \in SUBSET Seeds,
           Moves(h, at, r, s), Fits(at, r),
           at = "insert" => /\ templates'[r.template] = None
                            /\ \A k \in Handlers : req[k].template # r.template,
           at = "write" /\ r.kind # "delete" /\ templates'[r.template] # None =>
               Version(r.template, r.content) \in versions',
           \A k \in Handlers :
               k # h /\ pc[k] = "insert" /\ r.template = req[k].template => r.kind = "rule"
    PROVE  RequestStep(h)
<1>1. /\ pc' \in [Handlers -> Pcs]
      /\ req' \in [Handlers -> RequestType]
      /\ todo' \in [Handlers -> SUBSET Seeds]
  BY DEF Inv, TypeOK, Moves, Pcs
<1>2. pc'[h] = at /\ req'[h] = r
  BY DEF Inv, TypeOK, Moves
<1>3. \A k \in Handlers : k # h => pc'[k] = pc[k] /\ req'[k] = req[k]
  BY DEF Inv, TypeOK, Moves
<1>4. RequestOK(h)'
  BY <1>2 DEF RequestOK, Fits
<1>5. InsertOK(h)'
  BY <1>2, <1>3 DEF InsertOK, Stored
<1>6. WriteOK(h)'
  BY <1>2 DEF WriteOK, Stored, Version
<1> QED
  BY <1>1, <1>2, <1>3, <1>4, <1>5, <1>6 DEF RequestStep

\* A request that ends.
LEMMA ReturnStep ==
    ASSUME Inv, NEW h \in Handlers, Return(h)
    PROVE  RequestStep(h)
<1>1. Moves(h, "idle", NoRequest, {})
  BY DEF Return, Moves
<1>2. NoRequest \in RequestType /\ NoRequest.template = None
  BY DEF NoRequest, Request, RequestType
<1>3. \A k \in Handlers : pc[k] = "insert" => req[k].template # None
  BY TemplatesAssumption DEF Inv, HandlersOK, RequestOK
<1>4. Fits("idle", NoRequest) /\ "idle" \in Pcs
  BY DEF Fits, Pcs
<1> QED
  BY <1>1, <1>2, <1>3, <1>4, MoveStep

\* A request that goes on.
LEMMA GotoStep ==
    ASSUME Inv, NEW h \in Handlers, NEW at \in Pcs, Goto(h, at),
           at # "insert", Fits(at, req[h]),
           at = "write" => Version(req[h].template, req[h].content) \in versions'
    PROVE  RequestStep(h)
<1>1. PICK r \in RequestType : r = req[h]
  BY DEF Inv, TypeOK
<1>2. PICK s \in SUBSET Seeds : s = todo[h]
  BY DEF Inv, TypeOK
<1>3. Moves(h, at, r, s)
  BY <1>1, <1>2 DEF Inv, TypeOK, Moves, Goto
<1>4. \A k \in Handlers : k # h /\ pc[k] = "insert" /\ r.template = req[k].template => r.kind = "rule"
  BY <1>1 DEF Inv, HandlersOK, InsertOK
<1>5. Fits(at, r)
  BY <1>1
<1>6. at = "write" => Version(r.template, r.content) \in versions'
  BY <1>1
<1> QED
  BY <1>3, <1>4, <1>5, <1>6, MoveStep

\* A request that is taken up.
LEMMA AcceptStep ==
    ASSUME Inv, NEW h \in Handlers, NEW at \in Pcs, NEW r \in RequestType, NEW s \in SUBSET Seeds,
           Accept(h, at, r, s), Fits(at, r), UNCHANGED <<templates, versions>>,
           at = "insert" => Fresh(r.template),
           at = "write" /\ r.kind # "delete" => Version(r.template, r.content) \in versions,
           r.kind = "rule" \/ r.template = None \/ Stored(r.template) \/ Fresh(r.template)
    PROVE  RequestStep(h)
<1>1. Moves(h, at, r, s)
  BY DEF Accept, Moves
<1>2. templates' = templates /\ versions' = versions
  OBVIOUS
<1>3. at = "insert" => /\ templates'[r.template] = None
                       /\ \A k \in Handlers : req[k].template # r.template
  BY <1>2 DEF Fresh, Stored
<1>4. ASSUME NEW k \in Handlers, k # h, pc[k] = "insert", r.template = req[k].template
      PROVE  r.kind = "rule"
  BY <1>4, TemplatesAssumption DEF Inv, HandlersOK, InsertOK, RequestOK, Fresh
<1> QED
  BY <1>1, <1>2, <1>3, <1>4, MoveStep

\* Steps that leave the tables alone.
LEMMA SameTables ==
    ASSUME Inv, NEW h \in Handlers, UNCHANGED tables
    PROVE  TablesStep(h)
BY DEF Inv, TypeOK, RulesResolve, tables, TablesStep, Stored

-----------------------------------------------------------------------------
\* The first statement of a request.
LEMMA BeginStep ==
    ASSUME Inv, NEW h \in Handlers, Begin(h)
    PROVE  TablesStep(h) /\ RequestStep(h)
<1> USE DEF Request, RequestType, Kinds, Pcs, Fits
<1>1. CASE CreateEvent(h)
  <2>1. TablesStep(h)
    BY <1>1 DEF CreateEvent, Inv, TypeOK, RulesResolve, TablesStep, Stored
  <2>2. RequestStep(h)
    BY <1>1, AcceptStep DEF CreateEvent
  <2> QED
    BY <2>1, <2>2
<1>2. CASE \E t \in Others, c \in Contents : CreateTemplate(h, t, c)
  <2>1. PICK t \in Others, c \in Contents : CreateTemplate(h, t, c)
    BY <1>2
  <2>2. UNCHANGED tables
    BY <2>1 DEF CreateTemplate
  <2>3. t \in TemplateIds
    BY DEF TemplateIds
  <2>4. RequestStep(h)
    BY <2>1, <2>2, <2>3, AcceptStep DEF CreateTemplate, tables
  <2> QED
    BY <2>2, <2>4, SameTables
<1>3. CASE \E t \in TemplateIds, c \in Contents : UpdateTemplate(h, t, c)
  <2>1. PICK t \in TemplateIds, c \in Contents : UpdateTemplate(h, t, c)
    BY <1>3
  <2>2. UNCHANGED tables
    BY <2>1 DEF UpdateTemplate
  <2>3. RequestStep(h)
    BY <2>1, <2>2, AcceptStep DEF UpdateTemplate, tables
  <2> QED
    BY <2>2, <2>3, SameTables
<1>4. CASE \E v \in versions : RestoreVersion(h, v)
  <2>1. PICK v \in versions : RestoreVersion(h, v)
    BY <1>4
  <2>2. UNCHANGED tables
    BY <2>1 DEF RestoreVersion
  <2>3. /\ v.template \in TemplateIds /\ v.content \in Contents
        /\ v = Version(v.template, v.content)
    BY DEF Inv, TypeOK, VersionType, Version
  <2>4. RequestStep(h)
    BY <2>1, <2>2, <2>3, AcceptStep DEF RestoreVersion, tables
  <2> QED
    BY <2>2, <2>4, SameTables
<1>5. CASE \E t \in TemplateIds : DeleteTemplate(h, t)
  <2>1. PICK t \in TemplateIds : DeleteTemplate(h, t)
    BY <1>5
  <2>2. UNCHANGED tables
    BY <2>1 DEF DeleteTemplate
  <2>3. RequestStep(h)
    BY <2>1, <2>2, AcceptStep DEF DeleteTemplate, tables
  <2> QED
    BY <2>2, <2>3, SameTables
<1>6. CASE \E t \in TemplateIds : CreateRule(h, t)
  <2>1. PICK t \in TemplateIds : CreateRule(h, t)
    BY <1>6
  <2>2. UNCHANGED tables
    BY <2>1 DEF CreateRule
  <2>3. RequestStep(h)
    BY <2>1, <2>2, AcceptStep DEF CreateRule, tables
  <2> QED
    BY <2>2, <2>3, SameTables
<1>7. CASE DeleteEvent(h)
  <2>1. UNCHANGED tables
    BY <1>7 DEF DeleteEvent
  <2>2. RequestStep(h)
    BY <1>7, <2>1, AcceptStep DEF DeleteEvent, tables
  <2> QED
    BY <2>1, <2>2, SameTables
<1> QED
  BY <1>1, <1>2, <1>3, <1>4, <1>5, <1>6, <1>7 DEF Begin

\* What follows a version, written or not.
LEMMA AfterVersionStep ==
    ASSUME Inv, NEW h \in Handlers, pc[h] = "version", AfterVersion(h),
           req[h].kind = "update" => Version(req[h].template, req[h].content) \in versions'
    PROVE  RequestStep(h)
<1>1. /\ req[h].template \in TemplateIds /\ req[h].content \in Contents
      /\ req[h].kind \in {"seed", "create", "update", "restore"}
  BY DEF Inv, HandlersOK, RequestOK
<1>2. CASE req[h].kind = "update"
  BY <1>1, <1>2, GotoStep DEF AfterVersion, Pcs, Fits
<1>3. CASE req[h].kind \notin {"update", "seed"}
  BY <1>3, ReturnStep DEF AfterVersion
<1>4. CASE req[h].kind = "seed" /\ req[h].template \in TriggerSeeds
  <2>1. Goto(h, "rule")
    BY <1>4 DEF AfterVersion
  <2> QED
    BY <1>1, <2>1, GotoStep DEF Pcs, Fits
<1>5. CASE req[h].kind = "seed" /\ req[h].template \notin TriggerSeeds
  <2>1. Goto(h, "next")
    BY <1>5 DEF AfterVersion
  <2> QED
    BY <1>1, <2>1, GotoStep DEF Pcs, Fits
<1> QED
  BY <1>2, <1>3, <1>4, <1>5

\* The statements of create_event's loop, and those that insert.
LEMMA InsertStep ==
    ASSUME Inv, NEW h \in Handlers,
           \/ \E t \in Seeds, c \in Contents : SeedNext(h, t, c)
           \/ SeedDone(h)
           \/ InsertTemplate(h)
           \/ InsertVersion(h)
           \/ InsertRule(h)
    PROVE  TablesStep(h) /\ RequestStep(h)
<1> USE DEF Pcs, Fits
<1>0. RequestOK(h) /\ InsertOK(h)
  BY DEF Inv, HandlersOK
<1>1. CASE \E t \in Seeds, c \in Contents : SeedNext(h, t, c)
  <2>1. PICK t \in Seeds, c \in Contents : SeedNext(h, t, c)
    BY <1>1
  <2>2. UNCHANGED tables
    BY <2>1 DEF SeedNext
  <2>3. PICK s \in SUBSET Seeds : s = todo[h] \ {t}
    BY DEF Inv, TypeOK
  <2>4. Moves(h, "insert", Request("seed", t, c), s)
    BY <2>1, <2>3 DEF SeedNext, Moves
  <2>5. /\ templates'[t] = None
        /\ \A k \in Handlers : req[k].template # t
    BY <2>1, <2>2 DEF SeedNext, Fresh, Stored, tables
  <2>6. Request("seed", t, c) \in RequestType
    BY DEF Request, RequestType, Kinds, TemplateIds
  <2>7. RequestStep(h)
    BY <2>4, <2>5, <2>6, MoveStep DEF Request, TemplateIds
  <2> QED
    BY <2>2, <2>7, SameTables
<1>2. CASE SeedDone(h)
  BY <1>2, ReturnStep, SameTables DEF SeedDone
<1>3. CASE InsertTemplate(h)
  <2>1. /\ pc[h] = "insert" /\ req[h].template \in TemplateIds /\ req[h].content \in Contents
        /\ ~Stored(req[h].template) /\ req[h].kind \in {"seed", "create"}
    BY <1>0, <1>3 DEF InsertTemplate, RequestOK, InsertOK
  <2>2. TablesStep(h)
    BY <1>3, <2>1, TemplatesAssumption
       DEF InsertTemplate, Inv, TypeOK, RulesResolve, TablesStep, Stored
  <2>3. RequestStep(h)
    BY <1>3, <2>1, GotoStep DEF InsertTemplate
  <2> QED
    BY <2>2, <2>3
<1>4. CASE InsertVersion(h)
  <2>1. /\ pc[h] = "version" /\ req[h].template \in TemplateIds /\ req[h].content \in Contents
    BY <1>0, <1>4 DEF InsertVersion, RequestOK
  <2>2. CASE Stored(req[h].template)
    <3>1. /\ versions' = versions \cup {Version(req[h].template, req[h].content)}
          /\ AfterVersion(h)
          /\ UNCHANGED <<templates, rules, event>>
      BY <1>4, <2>2 DEF InsertVersion, NewVersions, Version
    <3>2. Version(req[h].template, req[h].content) \in VersionType
      BY <2>1 DEF Version, VersionType
    <3>3. TablesStep(h)
      BY <3>1, <3>2 DEF Inv, TypeOK, RulesResolve, TablesStep, Stored
    <3>4. RequestStep(h)
      BY <2>1, <3>1, AfterVersionStep
    <3> QED
      BY <3>3, <3>4
  <2>3. CASE ~Stored(req[h].template)
    <3>1. UNCHANGED tables
      BY <1>4, <2>3 DEF InsertVersion, tables
    <3>2. CASE req[h].kind = "seed"
      BY <1>4, <2>1, <2>3, <3>1, <3>2, AfterVersionStep, SameTables DEF InsertVersion
    <3>3. CASE req[h].kind # "seed"
      BY <1>4, <2>3, <3>1, <3>3, ReturnStep, SameTables DEF InsertVersion
    <3> QED
      BY <3>2, <3>3
  <2> QED
    BY <2>2, <2>3
<1>5. CASE InsertRule(h)
  <2>1. req[h].template \in TemplateIds
    BY <1>0, <1>5 DEF InsertRule, RequestOK
  <2>2. TablesStep(h)
    BY <1>5, <2>1 DEF InsertRule, MayRefer, Inv, TypeOK, RulesResolve, TablesStep, Stored
  <2>3. CASE req[h].kind = "seed"
    BY <1>5, <2>2, <2>3, GotoStep DEF InsertRule
  <2>4. CASE req[h].kind # "seed"
    BY <1>5, <2>2, <2>4, ReturnStep DEF InsertRule
  <2> QED
    BY <2>3, <2>4
<1> QED
  BY <1>1, <1>2, <1>3, <1>4, <1>5

\* The statements that write over a row or delete one, and those that fail.
LEMMA WriteStep ==
    ASSUME Inv, NEW h \in Handlers,
           WriteTemplate(h) \/ RemoveTemplate(h) \/ RemoveEvent(h) \/ Fail(h)
    PROVE  TablesStep(h) /\ RequestStep(h)
<1> USE DEF Pcs, Fits
<1>0. RequestOK(h) /\ WriteOK(h)
  BY DEF Inv, HandlersOK
<1>1. CASE WriteTemplate(h)
  <2>1. /\ pc[h] = "write" /\ req[h].kind \in {"update", "restore"}
        /\ req[h].template \in TemplateIds /\ req[h].content \in Contents
        /\ UNCHANGED <<versions, rules, event>>
    BY <1>0, <1>1 DEF WriteTemplate, RequestOK
  <2>2. CASE Stored(req[h].template)
    <3>1. Version(req[h].template, req[h].content) \in versions
      BY <1>0, <2>1, <2>2 DEF WriteOK
    <3>2. templates' = [templates EXCEPT ![req[h].template] = req[h].content]
      BY <1>1, <2>2 DEF WriteTemplate
    <3>3. \A t \in TemplateIds :
             templates'[t] = IF t = req[h].template THEN req[h].content ELSE templates[t]
      BY <2>1, <3>2 DEF Inv, TypeOK
    <3>4. templates' \in [TemplateIds -> Contents \cup {None}]
      BY <2>1, <3>2 DEF Inv, TypeOK
    <3>5. TablesStep(h)
      BY <2>1, <2>2, <3>1, <3>3, <3>4, TemplatesAssumption
         DEF Inv, TypeOK, RulesResolve, TablesStep, Stored
    <3>6. CASE req[h].kind = "restore"
      BY <1>1, <2>1, <2>2, <3>5, <3>6, GotoStep DEF WriteTemplate
    <3>7. CASE req[h].kind = "update"
      BY <1>1, <2>2, <3>5, <3>7, ReturnStep DEF WriteTemplate
    <3> QED
      BY <2>1, <3>6, <3>7
  <2>3. CASE ~Stored(req[h].template)
    <3>1. UNCHANGED tables /\ Return(h)
      BY <1>1, <2>1, <2>3 DEF WriteTemplate, tables
    <3> QED
      BY <3>1, ReturnStep, SameTables
  <2> QED
    BY <2>2, <2>3
<1>2. CASE RemoveTemplate(h)
  <2>1. /\ pc[h] = "write" /\ req[h].template \in TemplateIds
        /\ UNCHANGED <<rules, event>>
        /\ Return(h)
    BY <1>0, <1>2 DEF RemoveTemplate, RequestOK
  <2>2. CASE Stored(req[h].template) /\ MayDelete(req[h].template)
    <3>1. /\ templates' = [templates EXCEPT ![req[h].template] = None]
          /\ versions' = {v \in versions : v.template # req[h].template}
          /\ req[h].template \notin rules
      BY <1>2, <2>2 DEF RemoveTemplate, MayDelete
    <3>2. \A t \in TemplateIds :
             templates'[t] = IF t = req[h].template THEN None ELSE templates[t]
      BY <2>1, <3>1 DEF Inv, TypeOK
    <3>3. templates' \in [TemplateIds -> Contents \cup {None}]
      BY <2>1, <3>1 DEF Inv, TypeOK
    <3>4. TablesStep(h)
      BY <2>1, <3>1, <3>2, <3>3 DEF Inv, TypeOK, RulesResolve, TablesStep, Stored
    <3> QED
      BY <2>1, <3>4, ReturnStep
  <2>3. CASE ~(Stored(req[h].template) /\ MayDelete(req[h].template))
    <3>1. UNCHANGED tables
      BY <1>2, <2>1, <2>3 DEF RemoveTemplate, tables
    <3> QED
      BY <2>1, <3>1, ReturnStep, SameTables
  <2> QED
    BY <2>2, <2>3
<1>3. CASE RemoveEvent(h)
  <2>1. TablesStep(h)
    BY <1>3 DEF RemoveEvent, Inv, TypeOK, TablesStep, Stored
  <2> QED
    BY <1>3, <2>1, ReturnStep DEF RemoveEvent
<1>4. CASE Fail(h)
  <2>1. UNCHANGED tables
    BY <1>4 DEF Fail
  <2>2. CASE Return(h)
    BY <2>1, <2>2, ReturnStep, SameTables
  <2>3. CASE req[h].kind = "seed" /\ pc[h] = "version" /\ AfterVersion(h)
    BY <2>1, <2>3, AfterVersionStep, SameTables
  <2>4. CASE Goto(h, "next")
    BY <2>1, <2>4, GotoStep, SameTables
  <2> QED
    BY <1>4, <2>2, <2>3, <2>4 DEF Fail
<1> QED
  BY <1>1, <1>2, <1>3, <1>4

\* delete_rule and stuttering.
LEMMA QuietKeeps ==
    ASSUME Inv, UNCHANGED <<templates, versions, event, pc, req, todo>>, rules' \subseteq rules
    PROVE  Inv'
<1>1. TypeOK' /\ RulesResolve'
  BY DEF Inv, TypeOK, RulesResolve, Stored
<1>2. HandlersOK'
  BY DEF Inv, HandlersOK, RequestOK, InsertOK, WriteOK, Stored
<1> QED
  BY <1>1, <1>2 DEF Inv

\* A step of Next is a step of one request or drops a rule.
LEMMA NextStep ==
    ASSUME Inv, [Next]_vars
    PROVE  \/ \E h \in Handlers : TablesStep(h) /\ RequestStep(h)
           \/ /\ UNCHANGED <<templates, versions, event, pc, req, todo>>
              /\ rules' \subseteq rules
<1>1. CASE \E h \in Handlers : Begin(h) \/ Continue(h) \/ Fail(h)
  <2>1. PICK h \in Handlers : Begin(h) \/ Continue(h) \/ Fail(h)
    BY <1>1
  <2>2. CASE Begin(h)
    BY <2>2, BeginStep
  <2>3. CASE Continue(h) \/ Fail(h)
    BY <2>3, InsertStep, WriteStep DEF Continue
  <2> QED
    BY <2>1, <2>2, <2>3
<1>2. CASE \E t \in TemplateIds : DeleteRule(t)
  BY <1>2 DEF DeleteRule
<1>3. CASE UNCHANGED vars
  BY <1>3 DEF vars, tables
<1> QED
  BY <1>1, <1>2, <1>3 DEF Next

\* Every step keeps the invariant.
LEMMA NextKeeps == Inv /\ [Next]_vars => Inv'
BY NextStep, StepKeeps, QuietKeeps

\* The invariant holds in every reachable state.
LEMMA Invariance == Spec => []Inv
BY InitInv, NextKeeps, PTL DEF Spec

-----------------------------------------------------------------------------
\* The tables and what requests keep across awaits have their types.
THEOREM TemplatesTypeCorrect == Spec => []TypeOK
<1>1. Inv => TypeOK
  BY DEF Inv
<1> QED
  BY <1>1, Invariance, PTL

\* Every rule has its event and its template: the foreign keys that create_event,
\* create_event_rule, delete_template and delete_event rely on are enough, however
\* many of them run at once and wherever they fail.
THEOREM RulesAlwaysResolve == Spec => []RulesResolve
<1>1. Inv => RulesResolve
  BY DEF Inv
<1> QED
  BY <1>1, Invariance, PTL

\* A text in the history is only ever replaced by one that is in it too, by
\* update_template and restore_version alike, whatever runs beside them.
THEOREM TextsStayVersioned == Spec => TextStaysVersioned
<1>1. ASSUME Inv, [Next]_vars, NEW t \in TemplateIds, Stored(t), Versioned(t), Stored(t)'
      PROVE  Versioned(t)'
  <2>1. CASE UNCHANGED <<templates, versions>>
    BY <1>1, <2>1 DEF Versioned
  <2>2. CASE \E h \in Handlers : TablesStep(h)
    <3>1. PICK h \in Handlers : TablesStep(h)
      BY <2>2
    <3>2. CASE templates'[t] = templates[t]
      <4>1. Version(t, templates[t]) \in versions /\ Version(t, templates[t]).template = t
        BY <1>1 DEF Versioned, Version
      <4>2. Version(t, templates[t]) \in versions'
        BY <1>1, <3>1, <4>1 DEF TablesStep
      <4> QED
        BY <3>2, <4>2 DEF Versioned, Version
    <3>3. CASE templates'[t] # templates[t]
      <4>1. Version(t, templates'[t]) \in versions'
        BY <1>1, <3>1, <3>3 DEF TablesStep
      <4> QED
        BY <4>1 DEF Versioned, Version
    <3> QED
      BY <3>2, <3>3
  <2> QED
    BY <1>1, <2>1, <2>2, NextStep
<1>2. Inv /\ [Next]_vars =>
         [\A t \in TemplateIds : Stored(t) /\ Versioned(t) /\ Stored(t)' => Versioned(t)']_vars
  BY <1>1
<1> QED
  BY <1>2, Invariance, PTL DEF Spec, TextStaysVersioned
=============================================================================
