----------------------------- MODULE CommandTree ----------------------------
(* The tree of the console's commands: a node for each word of a name, and   *)
(* at a node the handlers grafted there.                                     *)
EXTENDS Naturals, Sequences, SequencesExt

CONSTANTS
  Words,     \* the words names are made of
  Idents,    \* the names of the objects a command may be for; no words
  MaxWords,  \* bound: words in a name
  MaxAdds    \* bound: calls of add

NoIdent == "none"
NoObj == <<>>                    \* an inner node
NoHandler == [path |-> <<>>, ident |-> NoIdent, number |-> 0]
Removed == <<[name |-> "_obj_ is None", handler |-> NoHandler]>>

VARIABLES
  nodes,     \* the handlers at each node, by the words on the way there
  adds,
  last       \* the handler added last, NoHandler after a removal

tree_vars == <<nodes, adds, last>>

Names == UNION {[1 .. n -> Words] : n \in 1 .. MaxWords}
WaysTo(name) == {SubSeq(name, 1, n) : n \in 1 .. Len(name)}
IsLeaf(tree, name) == tree[name] # NoObj

(* Where _obj_ holds a handler for the object, or 0. *)
IndexOf(objs, ident) == SelectInSeq(objs, LAMBDA o : o.name = ident)

GraftOuter(tree, name, objs) ==      \* the words that are missing, and the leaf
  [n \in DOMAIN tree \cup WaysTo(name) |->
     IF n = name THEN objs ELSE IF n \in DOMAIN tree THEN tree[n] ELSE NoObj]

GraftNamedAppend(tree, name, obj) == [tree EXCEPT ![name] = Append(@, obj)]

GraftNamed(tree, name, obj) ==
  LET i == IndexOf(tree[name], obj.name) IN
  [tree EXCEPT ![name] = IF i = 0 THEN Append(@, obj) ELSE ReplaceAt(@, i, obj)]

(* A removal takes the node with everything below it. *)
Prune(tree, name) ==
  [n \in {n \in DOMAIN tree : ~IsPrefix(name, n)} |-> tree[n]]

(* _graft for the names that end at one leaf. *)
Graft(tree, name, objs) ==
  IF name \notin DOMAIN tree \/ ~IsLeaf(tree, name) THEN GraftOuter(tree, name, objs)
  ELSE IF objs = Removed THEN Prune(tree, name)
  ELSE IF objs[1].name # NoIdent THEN GraftNamed(tree, name, objs[1])
  ELSE [tree EXCEPT ![name] = objs]

(* A graft of a name on a node whose _obj_ is None raises an exception. *)
CanGraft(name, objs) ==
  ~(/\ name \in DOMAIN nodes /\ nodes[name] = Removed
    /\ objs # Removed /\ objs[1].name # NoIdent)

Handler(name, ident) == [path |-> name, ident |-> ident, number |-> adds]

add(name, ident) ==
  LET obj == [name |-> ident, handler |-> Handler(name, ident)] IN
  /\ adds < MaxAdds /\ adds' = adds + 1
  /\ IF CanGraft(name, <<obj>>)
     THEN nodes' = Graft(nodes, name, <<obj>>) /\ last' = Handler(name, ident)
     ELSE UNCHANGED nodes /\ last' = NoHandler

remove(name) ==
  /\ adds < MaxAdds /\ adds' = adds + 1
  /\ nodes' = Graft(nodes, name, Removed)
  /\ last' = NoHandler

-----------------------------------------------------------------------------
(* call: go down a node for each word that is one, skip the others, and      *)
(* count; what is left after as many words is the argument.                  *)
Descend(found, word) ==
  IF Append(found.node, word) \in DOMAIN nodes
  THEN [node |-> Append(found.node, word), count |-> found.count + 1] ELSE found

Walk(parts) ==
  LET after[i \in 0 .. Len(parts)] ==
        IF i = 0 THEN [node |-> <<>>, count |-> 0] ELSE Descend(after[i - 1], parts[i])
  IN  after[Len(parts)]

ObjMatchesAny(o, arg) == arg = <<>> \/ arg = <<o.name>>

ObjMatches(o, arg) == arg = IF o.name = NoIdent THEN <<>> ELSE <<o.name>>

HandlerOf(parts) ==
  LET found == Walk(parts)
      arg == SubSeq(parts, found.count + 1, Len(parts))
      objs == IF found.count = 0 \/ nodes[found.node] \in {NoObj, Removed} THEN <<>> ELSE nodes[found.node]
      i == SelectInSeq(objs, LAMBDA o : ObjMatches(o, arg))
  IN  IF i = 0 THEN NoHandler ELSE objs[i].handler

Line(handler) == handler.path \o (IF handler.ident = NoIdent THEN <<>> ELSE <<handler.ident>>)

(* What the completion offers for a node: the words below it. *)
Completion(name) == {word \in Words : Append(name, word) \in DOMAIN nodes}

-----------------------------------------------------------------------------
InitTree == nodes = [n \in {} |-> NoObj] /\ adds = 0 /\ last = NoHandler

NextTree ==
  \/ \E name \in Names, ident \in Idents \cup {NoIdent} : add(name, ident)
  \/ \E name \in Names : remove(name)

SpecTree == InitTree /\ [][NextTree]_tree_vars

-----------------------------------------------------------------------------
(* The command that was added last is the one its line runs, whatever was    *)
(* there before (_graft, call).                                              *)
AddedIsCalled == last # NoHandler => HandlerOf(Line(last)) = last

(* A line runs no other command than the one it names, whatever names are    *)
(* prefixes of one another: the argument is never taken from the wrong place.*)
RunsWhatIsNamed ==
  \A name \in Names, ident \in Idents \cup {NoIdent} :
    LET line == name \o (IF ident = NoIdent THEN <<>> ELSE <<ident>>)
        handler == HandlerOf(line)
    IN  handler # NoHandler => Line(handler) = line

=============================================================================
