---------------------------- MODULE ApiSections -----------------------------
(***************************************************************************)
(* How the reference generator writes the sections of a page               *)
(* (tools/docs/generate_api_docs.py: render_module_section with its _emit, *)
(* _glance_table, render_diagram and _relations).  _emit calls itself for  *)
(* the members of a type; `work' is what its calls have left to do, in     *)
(* their order.                                                            *)
(*                                                                         *)
(* A module is the sequence of its entities, a page the sequence of its    *)
(* modules.  A namespace is known by its place in the order of names, 0    *)
(* being none.                                                             *)
(*                                                                         *)
(* Definitions named for a slip are not the code's; see AppleDeliveryCore. *)
(***************************************************************************)
EXTENDS Naturals, Sequences, FiniteSets, SequencesExt

CONSTANT Pages         \* sequences of sequences of entities

TypeKinds == {"class", "struct", "enum"}
Kinds     == TypeKinds \union {"function", "type", "var"}

Entity == [kind : Kinds, name : STRING, owner : STRING, namespace : Nat, overload : Nat,
           bases : SUBSET STRING,       \* and the names mentioned by
           holds : SUBSET STRING,       \*   its public fields,
           hides : SUBSET STRING,       \*   its other fields,
           takes : SUBSET STRING]       \*   its signature

IsType(e) == e.kind \in TypeKinds
TypeNames(module) == {e.name : e \in {x \in ToSet(module) : IsType(x)}}

(* What parse_file returns: the comment of a type stands before those of   *)
(* its members, and no type is nested in one of its own name.              *)
ASSUME PagesAssumption ==
    \A page \in Pages :
        /\ page \in Seq(Seq(Entity))
        /\ \A m \in 1 .. Len(page) : \A i \in 1 .. Len(page[m]) :
              LET e == page[m][i] IN
              /\ IsType(e) => e.owner # e.name
              /\ e.owner \in TypeNames(page[m]) =>
                    \E j \in 1 .. i - 1 : IsType(page[m][j]) /\ page[m][j].name = e.owner

VARIABLES page,
          section,           \* the module being rendered
          scope,             \* the cpp:namespace in force, on the whole page
          work,              \* _emit's pending entities: entity, depth, parent
          entries            \* the directives written, each with its parent's number

sections == <<page, section, scope, work, entries>>

Module == page[section]

-----------------------------------------------------------------------------
(* Where an entity goes.                                                   *)

(* A member is written inside the type that owns it, if that is documented *)
(* here; a type is never its own member, though a constructor has its name.*)
IsMember(module, e) == e.owner \in TypeNames(module) /\ ~(IsType(e) /\ e.name = e.owner)

AnyNamedAlike(e)    == TRUE
OnlyTypesOwn(e)     == IsType(e)

(* The loop that puts a module's entities into lists, seen from one list.  *)
Listed(module, kept) ==
    LET list[i \in 0 .. Len(module)] ==
            IF i = 0 THEN <<>>
            ELSE IF module[i] \in kept THEN Append(list[i - 1], module[i]) ELSE list[i - 1]
    IN  list[Len(module)]

Roots(module) == Listed(module, {e \in ToSet(module) : ~IsMember(module, e)})
Children(module, e) ==
    Listed(module, {c \in ToSet(module) : /\ OnlyTypesOwn(e)
                                          /\ IsMember(module, c) /\ c.owner = e.name})

Calls(es, depth, parent) ==
    [i \in 1 .. Len(es) |-> [entity |-> es[i], depth |-> depth, parent |-> parent]]

Key(e) == <<e.kind, e.owner, e.name, e.overload>>

Emitted == {Key(entries[k].entity) : k \in {j \in 1 .. Len(entries) : entries[j].section = section}}

Fence(depth) == IF depth < 2 THEN 6 - depth ELSE 4

PathOf(parent) == IF parent = 0 THEN <<>> ELSE entries[parent].path

-----------------------------------------------------------------------------
SectionsInit ==
    /\ page \in Pages
    /\ section = 0 /\ scope = 0 /\ work = <<>> /\ entries = <<>>

(* One directive names a namespace: the first of the module's.             *)
BeginSection ==
    /\ work = <<>> /\ section < Len(page)
    /\ section' = section + 1
    /\ LET module     == page[section + 1]
           namespaces == {e.namespace : e \in ToSet(module)} \ {0}
       IN  /\ scope' = IF namespaces = {} THEN scope
                       ELSE CHOOSE n \in namespaces : \A k \in namespaces : n <= k
           /\ work' = Calls(Roots(module), 0, 0)
    /\ UNCHANGED <<page, entries>>

(* A declaration that is documented twice is written once.                 *)
Collapse ==
    /\ work # <<>> /\ Key(Head(work).entity) \in Emitted
    /\ work' = Tail(work)
    /\ UNCHANGED <<page, section, scope, entries>>

Emit ==
    /\ work # <<>> /\ Key(Head(work).entity) \notin Emitted
    /\ LET call == Head(work)
           e    == call.entity
       IN  /\ entries' = Append(entries,
                  [section |-> section, entity |-> e, depth |-> call.depth, parent |-> call.parent,
                   fence |-> Fence(call.depth), namespace |-> scope,
                   path |-> Append(PathOf(call.parent), e.name)])
           /\ work' = Calls(Children(Module, e), call.depth + 1, Len(entries) + 1) \o Tail(work)
    /\ UNCHANGED <<page, section, scope>>

SectionsNext == BeginSection \/ Collapse \/ Emit

SectionsSpec == SectionsInit /\ [][SectionsNext]_sections

Rendered == section = Len(page) /\ work = <<>>

-----------------------------------------------------------------------------
(* The links of the glance table: a type's namespace, the type it is       *)
(* declared in and its name.  Types of one name have one row.              *)

LinkOf(e) == [namespace |-> e.namespace, path |-> IF e.owner = "" THEN <<e.name>> ELSE <<e.owner, e.name>>]

DeclaredTypes(module) ==
    {module[i] : i \in {j \in 1 .. Len(module) :
        IsType(module[j]) /\ \A k \in 1 .. j - 1 :
            ~(IsType(module[k]) /\ module[k].name = module[j].name)}}

Declares(entry) == [namespace |-> entry.namespace, path |-> entry.path]

-----------------------------------------------------------------------------
(* The diagram of a module.                                                *)

(* TypeIndex: the first type of each name.                                 *)
Known == UNION {TypeNames(page[m]) : m \in 1 .. Len(page)}

Drawn(module) == {i \in DOMAIN module : IsType(module[i])}
Local(module) == TypeNames(module)

Relation(arrow, from, to) == [arrow |-> arrow, from |-> from, to |-> to]

HeldBy(e) == {Relation("--|>", e.name, b) : b \in e.bases}
                 \union {Relation("-->", e.name, t) : t \in e.holds}
TakenBy(e) == {Relation("..>", e.owner, t) : t \in e.takes}

OfFunctions(module) ==
    {e \in ToSet(module) : e.kind = "function" /\ e.owner \in Local(module)}

Mentioned(module) ==
    (UNION {HeldBy(module[i]) : i \in Drawn(module)})
        \union (UNION {TakenBy(e) : e \in OfFunctions(module)})

Edges(module) == {r \in Mentioned(module) : r.to # r.from /\ r.to \in Known}

OutsideHeld(module) == {r.to : r \in {x \in Edges(module) : x.arrow = "-->"}} \ Local(module)
Outside(module)     == {r.to : r \in Edges(module)} \ Local(module)

HasDiagram(module) ==
    Drawn(module) # {} /\ (Edges(module) # {} \/ Cardinality(Drawn(module)) >= 2)

Boxes(module) == Local(module) \union Outside(module)

(* _diagram_legend: a link for every name that is drawn and known.         *)
Legend(module) == {n \in Boxes(module) : n \in Known}

-----------------------------------------------------------------------------
InSection(m) == {k \in 1 .. Len(entries) : entries[k].section = m}

(* A declaration is itself in its namespace, as C++ has it.                *)
Identity(e) == <<e.kind, e.namespace, e.owner, e.name, e.overload>>

EntriesOf(m, e) == {k \in InSection(m) : Identity(entries[k].entity) = Identity(e)}

AlikeElsewhere(e, f) ==
    /\ e.kind = f.kind /\ e.owner = f.owner /\ e.name = f.name /\ e.overload = f.overload
    /\ e.namespace # f.namespace

TypesNamed(module, name) == {t \in ToSet(module) : IsType(t) /\ t.name = name}

(* Every declaration of a page has its entry, and one only: overloads and  *)
(* a constructor beside its class have their own, a declaration documented *)
(* twice has not.  The code's key knows of no namespace, so one case is    *)
(* left out: of declarations alike in several namespaces one may stand for *)
(* the others.  An entry stands directly in that of the type that owns it, *)
(* at any depth, and of its namespace where the name has one only, or on   *)
(* the page itself if that type has no entry.                              *)
MembersInsideTheirType ==
    Rendered => \A m \in 1 .. Len(page) :
        /\ \A e \in ToSet(page[m]) :
              \/ EntriesOf(m, e) # {}
              \/ \E f \in ToSet(page[m]) : AlikeElsewhere(e, f) /\ EntriesOf(m, f) # {}
        /\ \A j, k \in InSection(m) : Identity(entries[j].entity) = Identity(entries[k].entity) => j = k
        /\ \A k \in InSection(m) :
              LET e     == entries[k].entity
                  p     == entries[k].parent
                  types == TypesNamed(page[m], e.owner)
              IN  IF types = {} THEN p = 0
                  ELSE /\ p \in InSection(m) /\ entries[p].entity \in types
                       /\ (\A t \in types : t.namespace = e.namespace) =>
                             entries[p].entity.namespace = e.namespace

(* "Each nesting level needs a longer fence than the one it contains".     *)
FencesNest ==
    \A k \in 1 .. Len(entries) :
        entries[k].parent # 0 => entries[entries[k].parent].fence > entries[k].fence

(* A diagram is closed: each edge joins two of its boxes, each box of      *)
(* another module is there for an edge, each box has its link below the    *)
(* picture, and no type that is connected goes without a diagram.          *)
DiagramsClosed ==
    \A m \in 1 .. Len(page) :
        /\ \A r \in Edges(page[m]) : r.from # r.to /\ {r.from, r.to} \subseteq Boxes(page[m])
        /\ \A n \in Boxes(page[m]) \ TypeNames(page[m]) :
              \E r \in Edges(page[m]) : r.to = n /\ r.from \in TypeNames(page[m])
        /\ Legend(page[m]) = Boxes(page[m])
        /\ Edges(page[m]) # {} => HasDiagram(page[m])

(* "A table of every type the package declares, so a reader can find one": *)
(* each link of the table names an entry of the page.                      *)
GlanceLinksResolve ==
    Rendered => \A m \in 1 .. Len(page) : \A e \in DeclaredTypes(page[m]) :
        \E k \in 1 .. Len(entries) : Declares(entries[k]) = LinkOf(e)
=============================================================================
