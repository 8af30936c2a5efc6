-------------------------------- MODULE Menu --------------------------------
(* The menu of a display: a stack of lists, one of whose rows is selected.   *)
(* Keys arrive between two renderings, what an item may do depends on the    *)
(* state of the printer as of the last rendering, and the scripts of lists   *)
(* and items are queued, and run later.  Only a list that is configured to    *)
(* show its way back (show_back) has a row that is always there: without it, *)
(* a list may be shown with no row at all, and what a key does then raises   *)
(* IndexError before it has changed anything.  Decks and cards cannot be     *)
(* configured (menu_items) and are left out, as are scrolling and blinking.  *)
EXTENDS Integers, Sequences, FiniteSets

CONSTANTS
  Lists, Groups, Inputs,   \* the items that have items, or that have a value
  Labels,                  \* the items that only show something
  Kids,                    \* the items of a list or a group, in order
  Root,
  Action,                  \* what a command does beyond its script: "back", "exit" or "none"
  Realtime,                \* the inputs whose script runs at every change
  Conditional,             \* the items whose enable or readonly option may change
  Rows, MaxValue,
  MaxQueue                 \* bound: scripts queued when a key is pressed

VARIABLES
  menu,      \* MenuManager: running, the stack, its first row shown and its selected row
  items,     \* _items, for each list and group
  chosen,    \* selected, for each group
  value,     \* _input_value, for each input
  off,       \* the items that are disabled, or read only, as of the last rendering
  queue,     \* gcode_queue
  entered    \* the lists whose scripts to enter and to leave have run, a sequence

menu_vars == <<menu, items, chosen, value, off, queue, entered>>

NONE == -2
Script(what, of) == [what |-> what, of |-> of]
Top(m) == m.stack[Len(m.stack)]
Current == items[Top(menu)][menu.selected + 1]
Fits(i, s) == i + 1 \in DOMAIN s

-----------------------------------------------------------------------------
(* Items.                                                                    *)
IsEnabled(item, its) == IF item \in Groups THEN its[item] # <<>> ELSE item \in Inputs \/ item \notin off

IsReadonly(item) == item \in Labels \/ (item \in Inputs /\ item \in off)

Selected(g) == IF chosen[g] # NONE /\ Fits(chosen[g], items[g]) THEN items[g][chosen[g] + 1] ELSE "nothing"

Editing(item) ==
  IF item \in Groups THEN Selected(item) \in Inputs /\ value[Selected(item)] # NONE
  ELSE item \in Inputs /\ value[item] # NONE

ListEditing(l) == \E i \in DOMAIN items[l] : Editing(items[l][i])

(* A group counts as enabled by the items it had before. *)
Filter(c, its) ==
  LET kept[i \in 0 .. Len(Kids[c])] ==
        IF i = 0 THEN <<>>
        ELSE IF IsEnabled(Kids[c][i], its) THEN Append(kept[i - 1], Kids[c][i]) ELSE kept[i - 1]
  IN  kept[Len(Kids[c])]

update_items(l) ==
  LET new == Filter(l, items)
      GroupsIn == {g \in Groups : \E i \in DOMAIN new : new[i] = g /\ ~Editing(g)}
  IN  [c \in DOMAIN items |-> IF c = l THEN new ELSE IF c \in GroupsIn THEN Filter(c, items) ELSE items[c]]

populate_items ==
  LET groups == [c \in DOMAIN items |-> IF c \in Groups THEN Filter(c, items) ELSE <<>>]
  IN  [c \in DOMAIN items |-> IF c \in Groups THEN groups[c] ELSE Filter(c, groups)]

(* find_next_item and find_prev_item: the next of these items that is not    *)
(* read only, from the one selected now.                                     *)
Writable(own) == {i \in 0 .. Len(own) - 1 : ~IsReadonly(own[i + 1])}

NextOf(now, own) ==
  LET from == IF now = NONE THEN 0 ELSE IF now < Len(own) - 1 THEN now + 1 ELSE NONE
      found == {i \in Writable(own) : i >= from}
  IN  CASE from = NONE \/ ~Fits(from, own) -> from
        [] found = {} -> NONE
        [] OTHER -> CHOOSE i \in found : \A j \in found : i <= j

PrevOf(now, own) ==
  LET from == IF now = NONE THEN Len(own) - 1 ELSE IF now > 0 THEN now - 1 ELSE NONE
      found == {i \in Writable(own) : i <= from}
  IN  CASE from = NONE \/ ~Fits(from, own) -> from
        [] found = {} -> NONE
        [] OTHER -> CHOOSE i \in found : \A j \in found : i >= j

-----------------------------------------------------------------------------
(* The manager.                                                              *)
Bounded == Len(queue) < MaxQueue

begin ==
  /\ ~menu.running /\ Bounded
  /\ menu' = [running |-> TRUE, stack |-> <<Root>>, top_row |-> 0, selected |-> 0]
  /\ items' = populate_items
  /\ chosen' = [g \in Groups |-> NONE]
  /\ queue' = Append(queue, Script("enter", Root))
  /\ UNCHANGED <<value, off, entered>>

stack_push(l) ==
  /\ menu' = [menu EXCEPT !.stack = Append(@, l), !.top_row = 0, !.selected = 0]
  /\ items' = IF ListEditing(l) THEN items ELSE update_items(l)
  /\ queue' = queue \o <<Script("leave", Top(menu)), Script("enter", l)>>
  /\ UNCHANGED <<chosen, value>>

(* find_item: the first row that is this list, or the last one whose items   *)
(* have it among them.                                                       *)
Containing(l, in, its) == {i \in DOMAIN in : in[i] \in Lists \cup Groups /\ \E j \in DOMAIN its[in[i]] : its[in[i]][j] = l}

find_item(l, in, its) ==
  LET at == {i \in DOMAIN in : in[i] = l}
      around == Containing(l, in, its)
  IN  CASE at # {} -> (CHOOSE i \in at : \A j \in at : i <= j) - 1
        [] at = {} /\ around # {} -> (CHOOSE i \in around : \A j \in around : i >= j) - 1
        [] OTHER -> 0

BackTo(row, top_row) ==
  LET above == SubSeq(menu.stack, 1, Len(menu.stack) - 1)
  IN  /\ menu' = [menu EXCEPT !.stack = above, !.top_row = top_row, !.selected = row]
      /\ queue' = queue \o <<Script("leave", Top(menu)), Script("enter", above[Len(above)])>>

Above == menu.stack[Len(menu.stack) - 1]
ItemsAbove == IF ListEditing(Above) THEN items ELSE update_items(Above)
RowAbove == find_item(Top(menu), ItemsAbove[Above], ItemsAbove)

backToTop == BackTo(RowAbove, 0)     \* mutant: the row that was left is selected, but not scrolled to

(* back: to the row of the list above that was entered, or out of the menu. *)
backToList == BackTo(RowAbove, RowAbove)

LeaveUnsaid ==     \* mutant: the list's script to leave it is not run
  menu' = [menu EXCEPT !.running = FALSE] /\ UNCHANGED <<items, queue>>

Leave ==
  /\ menu' = [menu EXCEPT !.running = FALSE]
  /\ queue' = Append(queue, Script("leave", Top(menu)))
  /\ UNCHANGED items

(* The row that is moved to: if it is a group, one of its items is selected. *)
Rewind(from, its, row, Found(_, _)) ==
  IF Fits(row, its[Top(menu')]) /\ its[Top(menu')][row + 1] \in Groups
  THEN LET g == its[Top(menu')][row + 1] IN [from EXCEPT ![g] = Found(@, its[g])]
  ELSE from

back ==
  /\ ~Editing(Current)
  /\ IF Len(menu.stack) > 1
     THEN /\ backToList
          /\ items' = ItemsAbove
          /\ chosen' = Rewind(chosen, ItemsAbove, menu'.selected, NextOf)
     ELSE /\ menu' = [menu EXCEPT !.running = FALSE, !.stack = <<>>]
          /\ queue' = Append(queue, Script("leave", Top(menu)))
          /\ UNCHANGED <<items, chosen>>

exitAlways == Leave /\ UNCHANGED chosen     \* mutant: exits while a value is edited

exit == ~Editing(Current) /\ Leave /\ UNCHANGED chosen

-----------------------------------------------------------------------------
(* Keys.                                                                     *)
Key == menu.running /\ Bounded /\ items[Top(menu)] # <<>> /\ UNCHANGED <<off, entered>>

Edited == IF Current \in Groups THEN Selected(Current) ELSE Current

Changed(by) ==
  LET new == value[Edited] + by
      bounded == IF new < 0 THEN 0 ELSE IF new > MaxValue THEN MaxValue ELSE new
  IN  /\ value' = [value EXCEPT ![Edited] = bounded]
      /\ queue' = IF Edited \in Realtime /\ bounded # value[Edited] THEN Append(queue, Script("set", Edited))
                  ELSE queue
      /\ UNCHANGED <<menu, items, chosen>>

(* One row up or down; the list scrolls with it. *)
MoveTo(row) ==
  /\ menu' = [menu EXCEPT !.selected = row,
                          !.top_row = IF row < @ THEN row ELSE IF row >= @ + Rows THEN @ + 1 ELSE @]
  /\ UNCHANGED <<items, value, queue>>

(* Whether there is another row or not, the group that is left has nothing   *)
(* selected any more.                                                        *)
Unwound == IF Current \in Groups THEN [chosen EXCEPT ![Current] = NONE] ELSE chosen

Move(row, Found(_, _)) ==
  IF row < 0 \/ ~Fits(row, items[Top(menu)]) THEN chosen' = Unwound /\ UNCHANGED <<menu, items, value, queue>>
  ELSE MoveTo(row) /\ chosen' = Rewind(Unwound, items, row, Found)

InGroup(found) ==
  chosen' = [chosen EXCEPT ![Current] = found] /\ UNCHANGED <<menu, items, value, queue>>

InTheGroup(Found(_, _)) == IF Current \in Groups THEN Found(chosen[Current], items[Current]) ELSE NONE

up ==
  /\ Key
  /\ CASE Editing(Current) -> Changed(-1)
       [] ~Editing(Current) /\ InTheGroup(PrevOf) # NONE -> InGroup(InTheGroup(PrevOf))
       [] OTHER -> Move(menu.selected - 1, PrevOf)

down ==
  /\ Key
  /\ CASE Editing(Current) -> Changed(1)
       [] ~Editing(Current) /\ InTheGroup(NextOf) # NONE -> InGroup(InTheGroup(NextOf))
       [] OTHER -> Move(menu.selected + 1, NextOf)

back_callback == Key /\ back /\ UNCHANGED value

SelectInput(item, long) ==
  /\ UNCHANGED <<menu, items, chosen>>
  /\ IF value[item] # NONE
     THEN /\ value' = IF long THEN value ELSE [value EXCEPT ![item] = NONE]
          /\ queue' = Append(queue, Script("set", item))
     ELSE /\ ~long
          /\ IF IsReadonly(item) THEN UNCHANGED <<value, queue>>
             ELSE /\ \E v \in 0 .. MaxValue : value' = [value EXCEPT ![item] = v]
                  /\ queue' = IF item \in Realtime THEN Append(queue, Script("set", item)) ELSE queue

(* A command goes back, leaves the menu, or has its script run. *)
Command(item) ==
  CASE Action[item] = "back" -> back
    [] Action[item] = "exit" -> exit
    [] Action[item] = "none" -> queue' = Append(queue, Script("run", item)) /\ UNCHANGED <<menu, items, chosen>>

select(long) ==
  /\ Key
  /\ \/ Edited \in Inputs /\ SelectInput(Edited, long)
     \/ ~long /\ Edited \in Lists /\ stack_push(Edited)
     \/ ~long /\ Edited \in DOMAIN Action /\ Command(Edited) /\ UNCHANGED value

Timeout == Key /\ exit /\ UNCHANGED value

(* render: the state of the printer is read again, and the rows are clamped. *)
AtMost(a, b) == IF a < b THEN a ELSE b
NotNegative(a) == IF a < 0 THEN 0 ELSE a

Render ==
  /\ menu.running
  /\ off' \in SUBSET Conditional
  /\ LET shown == items[Top(menu)]
     IN  /\ menu' = [menu EXCEPT !.top_row = NotNegative(AtMost(@, Len(shown) - Rows)),
                                 !.selected = NotNegative(AtMost(@, Len(shown) - 1))]
         /\ chosen' = [g \in Groups |->
              IF chosen[g] # NONE /\ g \in {shown[i] : i \in menu'.top_row + 1 .. AtMost(menu'.top_row + Rows, Len(shown))}
              THEN IF items[g] = <<>> THEN NONE ELSE chosen[g] % Len(items[g]) ELSE chosen[g]]
  /\ UNCHANGED <<items, value, queue, entered>>

(* dispatch_gcode runs the first script, which may pause, and then takes it. *)
Dispatch ==
  /\ queue # <<>> /\ queue' = Tail(queue)
  /\ entered' = CASE Head(queue).what = "enter" -> Append(entered, Head(queue).of)
                  [] Head(queue).what = "leave" ->
                       IF entered = <<Head(queue).of>> THEN <<>> ELSE Append(entered, "left")
                  [] OTHER -> entered
  /\ UNCHANGED <<menu, items, chosen, value, off>>

-----------------------------------------------------------------------------
InitMenu ==
  /\ menu = [running |-> FALSE, stack |-> <<>>, top_row |-> 0, selected |-> 0]
  /\ items = [c \in Lists \cup Groups |-> <<>>]
  /\ chosen = [g \in Groups |-> NONE] /\ value = [i \in Inputs |-> NONE]
  /\ off = {} /\ queue = <<>> /\ entered = <<>>

NextMenu ==
  \/ begin \/ up \/ down \/ back_callback \/ Timeout \/ Render \/ Dispatch
  \/ \E long \in BOOLEAN : select(long)

-----------------------------------------------------------------------------
(* The selected row is on the screen, and exists if there is any, whatever   *)
(* was enabled or disabled since its list was shown, and however the user    *)
(* got there.                                                                *)
SelectedIsShown ==
  menu.running => /\ items[Top(menu)] = <<>> \/ Fits(menu.selected, items[Top(menu)])
                  /\ menu.top_row <= menu.selected /\ menu.selected < menu.top_row + Rows

(* Only the selected item is being edited, so the next click ends it: no     *)
(* value stays behind in a list that was left.                               *)
EditIsCurrent == \A i \in Inputs : value[i] # NONE => menu.running /\ Edited = i

(* The scripts to enter and to leave a list run in turn: never two lists are *)
(* entered at once, and one is left only if it was entered.                  *)
EnteredOnce == Len(entered) <= 1

=============================================================================
