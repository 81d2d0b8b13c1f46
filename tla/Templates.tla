------------------------------ MODULE Templates ------------------------------
(***************************************************************************)
(* Mail templates, their version history and the notification rules that   *)
(* use them (api/handlers/communication.rs), and the event they belong to: *)
(* create_event sets up templates and rules for it, delete_event takes the *)
(* rules with it (api/handlers/event.rs).                                  *)
(*                                                                         *)
(* Every statement is an await of its own; none of these handlers uses a   *)
(* transaction.  A free element of Handlers takes the next request.        *)
(***************************************************************************)
EXTENDS FiniteSets

CONSTANTS
    Handlers,      \* request tasks
    Seeds,         \* the templates create_event sets up, in the code five
    TriggerSeeds,  \* those that get a rule: all but the invitation
    Others,        \* templates that create_template may make
    Contents,      \* subject and body of a template
    None,          \* no row, no template, no content
    Faults         \* kinds of request whose statements may fail

TemplateIds == Seeds \cup Others
Kinds == {"seed", "create", "update", "restore", "delete", "rule", "drop"}

ASSUME TemplatesAssumption ==
    /\ IsFiniteSet(Seeds) /\ TriggerSeeds \subseteq Seeds
    /\ None \notin TemplateIds /\ None \notin Contents
    /\ Contents # {}
    /\ Faults \subseteq Kinds

VARIABLES
    templates,   \* email_templates: the content of each row, None without a row
    versions,    \* email_template_versions: equal versions of a template count once
    rules,       \* notification_rules of the event: the templates that some rule uses
    event,       \* the row of the event
    pc,          \* what each handler does next
    req,         \* the request it works on: kind, template, content
    todo         \* default templates create_event has still to set up

tables == <<templates, versions, rules, event>>
vars == <<tables, pc, req, todo>>

VersionType == [template : TemplateIds, content : Contents]
RequestType == [kind : Kinds \cup {"none"}, template : TemplateIds \cup {None},
                content : Contents \cup {None}]

\* The type of the tables and of what requests keep across awaits.
TypeOK ==
    /\ templates \in [TemplateIds -> Contents \cup {None}]
    /\ versions \in SUBSET VersionType
    /\ rules \in SUBSET TemplateIds
    /\ event \in {"none", "stored", "deleted"}
    /\ pc \in [Handlers -> {"idle", "next", "insert", "version", "write", "rule", "drop"}]
    /\ req \in [Handlers -> RequestType]
    /\ todo \in [Handlers -> SUBSET Seeds]

Request(kind, t, c) == [kind |-> kind, template |-> t, content |-> c]
NoRequest == Request("none", None, None)

Init ==
    /\ templates = [t \in TemplateIds |-> None]
    /\ versions = {}
    /\ rules = {}
    /\ event = "none"
    /\ pc = [h \in Handlers |-> "idle"]
    /\ req = [h \in Handlers |-> NoRequest]
    /\ todo = [h \in Handlers |-> {}]

-----------------------------------------------------------------------------
Idle(h) == pc[h] = "idle"
Stored(t) == templates[t] # None

\* The ids EmailTemplate::new draws are new: no row, no history, no request.
Fresh(t) ==
    /\ ~Stored(t)
    /\ \A v \in versions : v.template # t
    /\ \A h \in Handlers : req[h].template # t

Accept(h, at, request, seeds) ==
    /\ Idle(h)
    /\ pc' = [pc EXCEPT ![h] = at]
    /\ req' = [req EXCEPT ![h] = request]
    /\ todo' = [todo EXCEPT ![h] = seeds]

Goto(h, at) ==
    /\ pc' = [pc EXCEPT ![h] = at]
    /\ UNCHANGED <<req, todo>>

Return(h) ==
    /\ pc' = [pc EXCEPT ![h] = "idle"]
    /\ req' = [req EXCEPT ![h] = NoRequest]
    /\ todo' = [todo EXCEPT ![h] = {}]

-----------------------------------------------------------------------------
\* First statement of each request.

\* create_event: the event row; a second one with the slug is refused.
CreateEvent(h) ==
    /\ event = "none"
    /\ event' = "stored"
    /\ Accept(h, "next", Request("seed", None, None), Seeds)
    /\ UNCHANGED <<templates, versions, rules>>

CreateTemplate(h, t, c) ==
    /\ Fresh(t)
    /\ Accept(h, "insert", Request("create", t, c), {})
    /\ UNCHANGED tables

\* mutant: the row is written first, as in restore_version
UpdateTemplateRowFirst(h, t, c) ==
    /\ Stored(t)
    /\ Accept(h, "write", Request("update", t, c), {})
    /\ UNCHANGED tables

\* update_template: the new version first, then the row.
UpdateTemplate(h, t, c) ==
    /\ Stored(t)
    /\ Accept(h, "version", Request("update", t, c), {})
    /\ UNCHANGED tables

\* restore_version: the row first, then a new version with the old content.
RestoreVersion(h, v) ==
    /\ Stored(v.template)
    /\ Accept(h, "write", Request("restore", v.template, v.content), {})
    /\ UNCHANGED tables

\* mutant: the deletion is recorded as a version
DeleteTemplateVersioned(h, t) ==
    /\ Stored(t)
    /\ Accept(h, "version", Request("delete", t, None), {})
    /\ UNCHANGED tables

DeleteTemplate(h, t) ==
    /\ Stored(t)
    /\ Accept(h, "write", Request("delete", t, None), {})
    /\ UNCHANGED tables

\* create_event_rule: whatever template the client names
CreateRule(h, t) ==
    /\ event = "stored"
    /\ Accept(h, "rule", Request("rule", t, None), {})
    /\ UNCHANGED tables

\* delete_event, up to find_by_slug
DeleteEvent(h) ==
    /\ event = "stored"
    /\ Accept(h, "drop", Request("drop", None, None), {})
    /\ UNCHANGED tables

-----------------------------------------------------------------------------
\* The loop of create_event over the default templates (in any order).
SeedNext(h, t, c) ==
    /\ pc[h] = "next" /\ t \in todo[h] /\ Fresh(t)
    /\ pc' = [pc EXCEPT ![h] = "insert"]
    /\ req' = [req EXCEPT ![h] = Request("seed", t, c)]
    /\ todo' = [todo EXCEPT ![h] = todo[h] \ {t}]
    /\ UNCHANGED tables

SeedDone(h) ==
    /\ pc[h] = "next" /\ todo[h] = {}
    /\ Return(h)
    /\ UNCHANGED tables

InsertTemplate(h) ==
    /\ pc[h] = "insert"
    /\ templates' = [templates EXCEPT ![req[h].template] = req[h].content]
    /\ Goto(h, "version")
    /\ UNCHANGED <<versions, rules, event>>

\* What follows the insert of a version.
AfterVersion(h) ==
    IF req[h].kind = "update" THEN Goto(h, "write")
    ELSE IF req[h].kind # "seed" THEN Return(h)
    ELSE Goto(h, IF req[h].template \in TriggerSeeds THEN "rule" ELSE "next")

NewVersions(h) ==
    versions \cup {[template |-> req[h].template, content |-> req[h].content]}

\* The foreign key refuses a version of a template that is gone; create_event
\* ignores the error.
InsertVersion(h) ==
    /\ pc[h] = "version"
    /\ \/ /\ Stored(req[h].template)
          /\ versions' = NewVersions(h)
          /\ AfterVersion(h)
       \/ /\ ~Stored(req[h].template)
          /\ IF req[h].kind = "seed" THEN AfterVersion(h) ELSE Return(h)
          /\ UNCHANGED versions
    /\ UNCHANGED <<templates, rules, event>>

\* UPDATE .. RETURNING: an error if the row is gone.
WriteTemplate(h) ==
    LET r == req[h]
    IN  /\ pc[h] = "write" /\ r.kind \in {"update", "restore"}
        /\ templates' = IF Stored(r.template)
                        THEN [templates EXCEPT ![r.template] = r.content] ELSE templates
        /\ IF Stored(r.template) /\ r.kind = "restore" THEN Goto(h, "version") ELSE Return(h)
        /\ UNCHANGED <<versions, rules, event>>

\* notification_rules.template_id refers to the row.
MayDelete(t) == t \notin rules

\* The versions of a deleted row go with it.
RemoveTemplate(h) ==
    LET t == req[h].template
    IN  /\ pc[h] = "write" /\ req[h].kind = "delete"
        /\ IF Stored(t) /\ MayDelete(t)
           THEN /\ templates' = [templates EXCEPT ![t] = None]
                /\ versions' = {v \in versions : v.template # t}
           ELSE UNCHANGED <<templates, versions>>
        /\ Return(h)
        /\ UNCHANGED <<rules, event>>

\* mutant: only the template has to exist
TemplateExists(t) == Stored(t)

\* notification_rules.event_id and template_id refer to rows.
MayRefer(t) == event = "stored" /\ Stored(t)

\* The foreign keys refuse a rule without its event or its template; create_event
\* ignores that.
InsertRule(h) ==
    LET t == req[h].template
    IN  /\ pc[h] = "rule"
        /\ rules' = IF MayRefer(t) THEN rules \cup {t} ELSE rules
        /\ IF req[h].kind = "seed" THEN Goto(h, "next") ELSE Return(h)
        /\ UNCHANGED <<templates, versions, event>>

\* delete_rule, of the last rule that uses the template
DeleteRule(t) ==
    /\ t \in rules /\ \E h \in Handlers : Idle(h)
    /\ rules' = rules \ {t}
    /\ UNCHANGED <<templates, versions, event, pc, req, todo>>

\* event_repo.delete: the rules of the event go with it, its templates stay.  (It
\* fails while bookings, invitees or overrides refer to the event.)
RemoveEvent(h) ==
    /\ pc[h] = "drop"
    /\ event' = "deleted"
    /\ rules' = {}
    /\ Return(h)
    /\ UNCHANGED <<templates, versions>>

\* A statement fails.  create_event goes on after a version or a rule, and ends
\* after a template; every other request ends.
Fail(h) ==
    /\ req[h].kind \in Faults
    /\ IF req[h].kind = "seed"
       THEN \/ pc[h] = "insert" /\ Return(h)
            \/ pc[h] = "version" /\ AfterVersion(h)
            \/ pc[h] = "rule" /\ Goto(h, "next")
       ELSE Return(h)
    /\ UNCHANGED tables

-----------------------------------------------------------------------------
Begin(h) ==
    \/ CreateEvent(h)
    \/ \E t \in Others, c \in Contents : CreateTemplate(h, t, c)
    \/ \E t \in TemplateIds, c \in Contents : UpdateTemplate(h, t, c)
    \/ \E v \in versions : RestoreVersion(h, v)
    \/ \E t \in TemplateIds : DeleteTemplate(h, t)
    \/ \E t \in TemplateIds : CreateRule(h, t)
    \/ DeleteEvent(h)

Continue(h) ==
    \/ \E t \in Seeds, c \in Contents : SeedNext(h, t, c)
    \/ SeedDone(h) \/ InsertTemplate(h) \/ InsertVersion(h)
    \/ WriteTemplate(h) \/ RemoveTemplate(h) \/ InsertRule(h) \/ RemoveEvent(h)

Next ==
    \/ \E h \in Handlers : Begin(h) \/ Continue(h) \/ Fail(h)
    \/ \E t \in TemplateIds : DeleteRule(t)

Spec == Init /\ [][Next]_vars

-----------------------------------------------------------------------------
\* Properties

Versioned(t) == [template |-> t, content |-> templates[t]] \in versions

\* A template whose text is in its history keeps that: whatever requests update,
\* restore and delete it at the same time and wherever one of them fails, the text
\* it has then can be restored with restore_version too (update_template writes
\* the version before the row, so the row never runs ahead of the history).
TextStaysVersioned ==
    [][\A t \in TemplateIds : Stored(t) /\ Versioned(t) /\ Stored(t)' => Versioned(t)']_vars

\* process_job finds the event and the template of every rule, although
\* delete_template does not look at the rules, create_event_rule does not look at
\* the template, and delete_event may run while create_event or create_event_rule
\* is about to add a rule.
RulesResolve == \A t \in rules : event = "stored" /\ Stored(t)
=============================================================================
