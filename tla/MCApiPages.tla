----------------------------- MODULE MCApiPages -----------------------------
(***************************************************************************)
(* The run that writes the pages, and the sections of one page: one of the *)
(* two in each behaviour.                                                  *)
(***************************************************************************)
EXTENDS ApiPages, ApiSections

NoSection == page = <<>> /\ section = 0 /\ scope = 0 /\ work = <<>> /\ entries = <<>>

PagesInit == Init /\ (NoSection \/ SectionsInit)

PagesNext ==
    \/ page = <<>> /\ Next /\ UNCHANGED sections
    \/ SectionsNext /\ UNCHANGED vars

PagesSpec == PagesInit /\ [][PagesNext]_<<vars, sections>>

-----------------------------------------------------------------------------
MCSources   == {"phi/a", "phi/b", "mac"}
MCPackageOf == "phi/a" :> "input" @@ "phi/b" :> "input" @@ "mac" :> "backend"
MCSlugOf    == "phi/a" :> "phi.a" @@ "phi/b" :> "phi.b" @@ "mac" :> "mac"

(* Modules of up to four entities: types in three levels, one of them in   *)
(* a type without a comment, a constructor, overloads, and a second        *)
(* namespace with a type and a member that the first one has too.          *)
Declared(kind, name, owner, namespace, overload) ==
    [kind |-> kind, name |-> name, owner |-> owner, namespace |-> namespace,
     overload |-> overload, bases |-> {}, holds |-> {}, hides |-> {}, takes |-> {}]

Nested ==
    { Declared("struct", "A", "", 1, 0), Declared("struct", "B", "", 2, 0),
      Declared("struct", "A", "", 2, 0), Declared("function", "f", "A", 2, 0),
      Declared("struct", "B", "A", 1, 0), Declared("enum", "C", "B", 1, 0),
      Declared("struct", "C", "B", 2, 0), Declared("struct", "C", "U", 1, 0),
      Declared("function", "f", "", 0, 0), Declared("function", "f", "A", 1, 0),
      Declared("function", "f", "A", 1, 1), Declared("function", "A", "A", 1, 0),
      Declared("function", "f", "C", 1, 0) }

(* Pages of two modules that mention one another's types, by a base, by a  *)
(* public or another field, by a parameter.                                *)
Connected ==
    {[Declared("struct", name, "", 1, 0) EXCEPT !.bases = b, !.holds = h, !.hides = p] :
        name \in {"A", "B"}, b \in {{}, {"B"}}, h \in {{}, {"A", "C"}}, p \in {{}, {"B"}}}
    \union {[Declared("function", "f", owner, 1, 0) EXCEPT !.takes = {"A", "B"}] : owner \in {"", "A"}}

OwnerFirst(module) ==
    \A i \in 1 .. Len(module) :
        module[i].owner \in TypeNames(module) =>
            \E j \in 1 .. i - 1 : IsType(module[j]) /\ module[j].name = module[i].owner

Modules(pool, length) == {m \in UNION {[1 .. k -> pool] : k \in 1 .. length} : OwnerFirst(m)}

(* For the links: a type in each of two namespaces, as in                 *)
(* lightphi::input and lightphi::input::detail.                            *)
Spread == {Declared("struct", "A", "", 1, 0), Declared("function", "f", "A", 1, 0),
           Declared("struct", "B", "", 2, 0)}

SpreadPages == {<<m>> : m \in Modules(Spread, 3)}

(* For the fences: a function in a type in two others.                     *)
Deep == {Declared("struct", "A", "", 1, 0), Declared("struct", "B", "A", 1, 0),
         Declared("struct", "C", "B", 1, 0), Declared("function", "f", "C", 1, 0)}

DeepPages == {<<m>> : m \in Modules(Deep, 4)}

MCPages ==
    {<<m>> : m \in Modules(Nested, 4)}
        \union {<<m, n>> : m \in Modules(Connected, 2), n \in Modules({c \in Connected : c.hides = {}}, 1)}
=============================================================================
