------------------------------- MODULE PartTree -------------------------------
(* klippy/tree.py and hal.py: the configuration file becomes a tree of parts.

   Parts are loaded group by group, then composites, which take the parts they
   name out of the dictionary of loose parts; [printer] hangs boards below the
   controller, parts below the printer, and builds toolheads; what is left over
   is spare.  Then the nodes are configured, children first, looked over and
   registered.  A name is a model value; Begins holds the pairs of names of which
   the first begins with the second, for lookups compare beginnings only.
   Where the code says node.children as if it were a dictionary it raises an
   exception, for it is a method: the builder ends there (failed). *)
EXTENDS Integers, Sequences, FiniteSets, SequencesExt

CONSTANTS
  Files,     \* configuration files: [tools, uses, printer, axes, own], see below
  Boards, Virtuals, Plain,      \* sections of pgroups
  Carts, Rails,                 \* with the tools of a file, those of cgroups
  Heaters,   \* plain parts whose governor is that of their parent
  Options,   \* of each section, the options of its class in order
  Uncertain, \* the plain part whose options may be left out or wrong
  Begins

(* tools: the tools in the order of the file; uses: what each composite names, in the
   order of its options; printer: what [printer] names, "toolhead" among them;
   axes: the rails of the toolhead; own: what else the toolhead names. *)
VARIABLES
  file, stage,
  loading,       \* sections still to be loaded, or entries of [printer] still to be read
  metaconf,      \* Part.metaconf: one template for all parts
  attrs, real,   \* of each section what its attributes hold; whether all are its own
  parts, composites,            \* dictionaries of the builder
  children,                     \* _children of each node
  partnames_to_remove,
  known,         \* board, virtual, heater, ... of the controller: the parts it knows
  ready, built, governor,       \* nodes configured, in what order; the node a heater asks
  registered     \* nodes whose _register was called, in order

dictVars == <<parts, composites, children, partnames_to_remove, known>>
confVars == <<metaconf, attrs, real>>
buildVars == <<ready, built, governor, registered>>
treeVars == <<file, stage, loading, dictVars, confVars, buildVars>>

Tools == ToSet(file.tools)
Simple == Boards \cup Virtuals \cup Plain
Composites == Tools \cup Carts \cup Rails
Sections == Simple \cup Composites
Fixed == {"printer", "spare", "hal", "controller", "kinematic", "gcode", "toolhead"}
Alike(name, begin) == name = begin \/ <<name, begin>> \in Begins

Added(s, n) == IF Contains(s, n) THEN s ELSE Append(s, n)
AddChild(tree, parent, n) == [tree EXCEPT ![parent] = Added(@, n)]

------------------------------------------------------------------------------
\* children_deep: a node, then all below its children.
RECURSIVE Deep(_, _)
Deep(tree, n) == <<n>> \o FlattenSeq([i \in 1 .. Len(tree[n]) |-> Deep(tree, tree[n][i])])

\* child_deep(name), for node(name) and obj(name): the first node in that order whose name
\* begins with it.
child_deep(tree, name) ==
  LET found == SelectSeq(Deep(tree, "printer"), LAMBDA n : Alike(n, name))
  IN IF found = <<>> THEN "none" ELSE Head(found)

\* parent(childname): the node whose child is the first with a name like that, looking at
\* a child before it looks below that child.
RECURSIVE parent(_, _, _)
parent(tree, root, name) ==
  FoldLeft(LAMBDA found, c : IF found # "none" THEN found
                             ELSE IF Alike(c, name) THEN root ELSE parent(tree, c, name),
           "none", tree[root])

\* get_kinematic_child: up to the kinematic, or to the printer.
RECURSIVE get_kinematic_child(_, _)
get_kinematic_child(tree, n) ==
  LET p == parent(tree, "printer", n)
  IN CASE p = "kinematic" -> p [] p = "printer" -> "none" [] OTHER -> get_kinematic_child(tree, p)

------------------------------------------------------------------------------
InitTree ==
  /\ file \in Files
  /\ stage = "parts" /\ metaconf = <<>>
  /\ loading = SetToSeq(Boards) \o SetToSeq(Virtuals) \o SetToSeq(Plain)
  /\ attrs = [s \in Sections |-> <<>>] /\ real = Sections
  /\ parts = <<>> /\ composites = <<>> /\ partnames_to_remove = {} /\ known = {}
  /\ children = [n \in Sections \cup Fixed |->
                   CASE n = "printer" -> <<"hal">> [] n = "hal" -> <<"controller">> [] OTHER -> <<>>]
  /\ ready = {"hal", "controller", "gcode"} /\ built = <<>>
  /\ governor = [h \in Heaters |-> "none"] /\ registered = <<>>

Fail == stage' = "failed" /\ UNCHANGED <<file, loading, dictVars, confVars, buildVars>>

(* Part.meta_conf: the option is given, or its default is taken, or it lacks one: then the
   attribute gets what the option before had, if there was one. *)
Given == {"given", "default", "missing", "wrong"}
Attribute(how, i) == IF how[i] = "missing" THEN "stale" ELSE how[i]
meta_conf_kept(n, template, how) ==   \* mutant: the template is not cleared
  /\ attrs' = [attrs EXCEPT ![n] = [i \in DOMAIN template |-> <<template[i], Attribute(how, i)>>]]
  /\ real' = IF \E i \in DOMAIN template : how[i] = "missing" THEN real \ {n} ELSE real
  /\ metaconf' = template

meta_conf(n, template, how) ==
  /\ attrs' = [attrs EXCEPT ![n] = [i \in DOMAIN template |-> <<template[i], Attribute(how, i)>>]]
  /\ real' = IF \E i \in DOMAIN template : how[i] = "missing" THEN real \ {n} ELSE real
  /\ metaconf' = <<>>

\* _meta_check_...: a value out of range, or a first value that is not there, is an error.
Accepted(how) == \A i \in DOMAIN how : how[i] # "wrong" /\ (i = 1 => how[i] # "missing")
Ways(n) ==
  LET own == 1 .. Len(metaconf \o Options[n])
  IN IF n = Uncertain THEN [own -> Given] ELSE {[i \in own |-> "given"]}

\* obj_load of a part of pgroups: load_node fills the template, then meta_conf.
obj_load ==
  /\ stage = "parts" /\ loading # <<>>
  /\ LET n == Head(loading)
     IN \E how \in Ways(n) :
          IF Accepted(how)
          THEN /\ meta_conf(n, metaconf \o Options[n], how)
               /\ parts' = Append(parts, n) /\ loading' = Tail(loading)
               /\ UNCHANGED <<file, stage, composites, children, partnames_to_remove, known, buildVars>>
          ELSE Fail

(* _compose: what the composite names is taken from the loose parts, and from the
   composites loaded so far, which are composed once more. *)
RECURSIVE _compose(_, _)
_compose(s, n) ==
  FoldLeft(LAMBDA t, o :
             IF Contains(t.parts, o)
             THEN [t EXCEPT !.parts = Remove(@, o), !.children = AddChild(@, n, o)]
             ELSE IF Contains(t.composites, o)
             THEN LET u == _compose([t EXCEPT !.composites = Remove(@, o)], o)
                  IN [u EXCEPT !.children = AddChild(@, n, o)]
             ELSE t,
           s, file.uses[n])

PartsLoaded ==
  /\ stage = "parts" /\ loading = <<>>
  /\ stage' = "composites" /\ loading' = file.tools \o SetToSeq(Carts) \o SetToSeq(Rails)
  /\ UNCHANGED <<file, dictVars, confVars, buildVars>>

\* obj_load of a composite.
LoadComposite ==
  /\ stage = "composites" /\ loading # <<>>
  /\ LET n == Head(loading)
         s == _compose([parts |-> parts, composites |-> composites, children |-> children], n)
     IN /\ parts' = s.parts /\ composites' = Append(s.composites, n) /\ children' = s.children
        /\ \E how \in Ways(n) : meta_conf(n, metaconf \o Options[n], how)
  /\ loading' = Tail(loading)
  /\ UNCHANGED <<file, stage, partnames_to_remove, known, buildVars>>

CompositesLoaded ==
  /\ stage = "composites" /\ loading = <<>>
  /\ parts' = parts \o composites /\ composites' = <<>>
  /\ stage' = "printer" /\ loading' = SetToSeq(Boards) \o file.printer
  /\ UNCHANGED <<file, children, partnames_to_remove, known, confVars, buildVars>>

\* controller.register_part: every part that is configured, boards and virtual pins.
register_part(parts_, n) == parts_ \cup {n}

(* One entry of [printer].  A part that is not loose any more is a KeyError. *)
AttachBoard(n) ==
  /\ Contains(parts, n)
  /\ children' = AddChild(children, "controller", n) /\ parts' = Remove(parts, n)
  /\ known' = register_part(known, n) /\ ready' = ready \cup {n}
  /\ UNCHANGED partnames_to_remove

AttachPart_kept(n) ==   \* mutant: taken by name, but not out of the dictionary
  /\ Contains(parts, n)
  /\ children' = AddChild(children, "printer", n)
  /\ UNCHANGED <<parts, known, ready, partnames_to_remove>>

AttachPart(n) ==
  /\ Contains(parts, n)
  /\ children' = AddChild(children, "printer", n) /\ parts' = Remove(parts, n)
  /\ UNCHANGED <<known, ready, partnames_to_remove>>

(* _compose_toolhead and build_toolhead: rails of the axes are hung below the toolhead and
   removed from the loose parts later; the other parts it names are never removed. *)
Axes == SelectSeq(file.axes, LAMBDA r : Contains(parts, r))
ComposeToolhead ==
  /\ \A n \in ToSet(file.own) : Contains(parts, n)
  /\ children' = FoldLeft(LAMBDA tree, n : AddChild(tree, "toolhead", n),
                          [AddChild(children, "printer", "kinematic") EXCEPT
                             !["kinematic"] = <<"gcode", "toolhead">>],
                          Axes \o file.own)
  /\ partnames_to_remove' = partnames_to_remove \cup ToSet(Axes)
  /\ UNCHANGED <<parts, known, ready>>

AttachEntry ==
  /\ stage = "printer" /\ loading # <<>>
  /\ LET n == Head(loading)
     IN CASE n \in Boards -> AttachBoard(n)
          [] n = "toolhead" -> ComposeToolhead
          [] OTHER -> AttachPart(n)
  /\ loading' = Tail(loading)
  /\ UNCHANGED <<file, stage, composites, confVars, built, governor, registered>>

MissingEntry ==
  /\ stage = "printer" /\ loading # <<>>
  /\ IF Head(loading) = "toolhead" THEN \E n \in ToSet(file.own) : ~Contains(parts, n)
     ELSE ~Contains(parts, Head(loading))
  /\ Fail

(* Virtual pins go to the controller, what was hung up is removed, the rest is spare. *)
Leftovers_all ==   \* mutant: the rails of the toolhead stay among the loose parts
  /\ stage = "printer" /\ loading = <<>>
  /\ LET virtual == SelectSeq(parts, LAMBDA n : n \in Virtuals)
     IN /\ children' = [children EXCEPT !["controller"] = @ \o virtual,
                          !["spare"] = SelectSeq(parts, LAMBDA n : n \notin Virtuals)]
        /\ known' = known \cup ToSet(virtual) /\ ready' = ready \cup ToSet(virtual)
  /\ parts' = <<>> /\ stage' = "configure"
  /\ UNCHANGED <<file, loading, composites, partnames_to_remove, confVars, built, governor, registered>>

Leftovers ==
  /\ stage = "printer" /\ loading = <<>>
  /\ LET virtual == SelectSeq(parts, LAMBDA n : n \in Virtuals)
         gone == partnames_to_remove \cup ToSet(virtual)
     IN /\ children' = [children EXCEPT
                          !["controller"] = @ \o virtual,
                          !["spare"] = SelectSeq(parts, LAMBDA n : n \notin gone)]
        /\ known' = known \cup ToSet(virtual) /\ ready' = ready \cup ToSet(virtual)
        /\ partnames_to_remove' = gone
  /\ parts' = <<>> /\ stage' = "configure"
  /\ UNCHANGED <<file, loading, composites, confVars, built, governor, registered>>

------------------------------------------------------------------------------
(* _configure of a leaf: a heater asks the node that the tree names as its parent for its
   governor, and fails if that is not a tool.  _build of a composite: each child is built,
   if it can be, and configured, then the composite initialised.  Neither is done twice. *)
Done(s, n) == [s EXCEPT !.ready = @ \cup {n}, !.built = Append(@, n)]
Known(s, n) == [Done(s, n) EXCEPT !.known = register_part(@, n)]
_configure(s, n) ==
  IF n \in s.ready \/ n \notin Plain THEN s
  ELSE IF n \notin Heaters THEN Known(s, n)
  ELSE LET p == parent(children, "printer", n)
       IN [Known(s, n) EXCEPT !.governor[n] = p, !.failed = @ \/ p \notin Tools]

RECURSIVE _build(_, _)
_build_first(s, n) ==   \* mutant: the composite before its children
  LET t == IF n \in s.ready THEN s ELSE Done(s, n)
  IN FoldLeft(LAMBDA u, c : _configure(IF c \in Composites THEN _build(u, c) ELSE u, c),
              t, children[n])

_build(s, n) ==
  LET t == FoldLeft(LAMBDA u, c : _configure(IF c \in Composites THEN _build(u, c) ELSE u, c),
                    s, children[n])
  IN IF n \in t.ready THEN t ELSE Done(t, n)

\* The children of the printer but hal and kinematic; the toolhead; its kinematic.
ConfigureParts ==
  LET top == SelectSeq(children["printer"], LAMBDA n : n \notin {"hal", "kinematic"})
      s == FoldLeft(LAMBDA u, c : IF c \in Composites THEN _build(u, c) ELSE _configure(u, c),
                    [ready |-> ready, built |-> built, governor |-> governor,
                     known |-> known, failed |-> FALSE], top)
  IN IF Contains(children["printer"], "kinematic")
     THEN Done(_build(s, "toolhead"), "kinematic") ELSE s

Configure ==
  /\ stage = "configure"
  /\ \E s \in {ConfigureParts} :
       /\ ready' = s.ready /\ built' = s.built /\ governor' = s.governor /\ known' = s.known
       /\ stage' = IF s.failed THEN "failed" ELSE "register"
  /\ UNCHANGED <<file, loading, parts, composites, children, partnames_to_remove, confVars, registered>>

(* The last check: a node that is not ready should be moved to the spares, but
   parent(...).children.pop is an exception.  Then every node registers. *)
Register ==
  /\ stage = "register"
  /\ IF ToSet(Deep(children, "printer")) \subseteq ready \cup {"printer"}
     THEN stage' = "done" /\ registered' = Deep(children, "printer")
     ELSE stage' = "failed" /\ UNCHANGED registered
  /\ UNCHANGED <<file, loading, dictVars, confVars, ready, built, governor>>

NextTree ==
  \/ obj_load \/ PartsLoaded \/ LoadComposite \/ CompositesLoaded
  \/ AttachEntry \/ MissingEntry \/ Leftovers \/ Configure \/ Register

SpecTree == InitTree /\ [][NextTree]_treeVars
------------------------------------------------------------------------------
TypeOKTree ==
  /\ stage \in {"parts", "composites", "printer", "configure", "register", "done", "failed"}
  /\ DOMAIN children = Sections \cup Fixed /\ known \subseteq Simple

Loaded == ToSet(parts) \cup ToSet(composites) \cup UNION {ToSet(children[n]) : n \in DOMAIN children}
Holders(s) == {n \in DOMAIN children : Contains(children[n], s)}
\* What the toolhead names besides its rails, or a rail that [printer] names too.
NamedTwice == ToSet(file.own) \cup (ToSet(file.axes) \cap ToSet(file.printer))

\* Each section of the file has its part at one place: loose, among the composites, below
\* one node or among the spares (Builder, _compose, _compose_toolhead, build_toolhead).
PlacedOnce ==
  \A s \in Loaded \cap Sections :
    LET loose == Contains(parts, s) \/ Contains(composites, s)
    IN /\ s \notin NamedTwice => Cardinality(Holders(s)) <= 1
       /\ loose /\ Holders(s) # {} => s \in ToSet(file.axes) \cup ToSet(file.own)
       /\ stage = "done" => ~loose /\ Holders(s) # {}
NoneIsLost == stage \in {"printer", "configure", "register", "done"} => Sections \subseteq Loaded

\* A part has the options of its own class and section only, however it was loaded; if one
\* of them holds what was meant for another the part is not real (Part.meta_conf).
OwnOptions ==
  \A s \in Sections :
    /\ attrs[s] # <<>> => [i \in DOMAIN attrs[s] |-> attrs[s][i][1]] = Options[s]
    /\ s \in real => \A i \in DOMAIN attrs[s] : attrs[s][i][2] # "stale"

\* A composite is initialised after all that hangs below it (Composite._build).
ChildrenFirst ==
  \A j \in DOMAIN built : built[j] # "kinematic" =>
    \A c \in ToSet(children[built[j]]) : \E i \in 1 .. j : built[i] = c

Distinct(n) == \A m \in DOMAIN children : <<m, n>> \notin Begins
\* A node is found by its name, a heater asks the tool it hangs at, and a part of a
\* toolhead finds its kinematic, unless another name begins with that name.
FoundByName ==
  stage = "done" =>
    \A n \in ToSet(Deep(children, "printer")) \ {"printer"} :
      Distinct(n) =>
        /\ child_deep(children, n) = n
        /\ n \in Heaters => Contains(children[governor[n]], n)
        /\ n \in ToSet(children["toolhead"]) \ ToSet(children["printer"])
             => get_kinematic_child(children, n) = "kinematic"

\* When the tree is done each node has registered once, and is ready (Builder).
RegisteredOnce ==
  stage = "done" =>
    /\ ToSet(registered) \subseteq ready \cup {"printer"}
    /\ NamedTwice = {} => IsInjective(registered)
    /\ Simple \cap ToSet(registered) \subseteq known

TreeIsBuilt == PlacedOnce /\ NoneIsLost /\ OwnOptions /\ ChildrenFirst /\ FoundByName /\ RegisteredOnce
==============================================================================
