----------------------------- MODULE ServerRail -----------------------------
(***************************************************************************)
(* The rail of spaces on the left edge of the window: the spaces a user is *)
(* a member of, ordered and folded into groups by dragging. The layout     *)
(* (stores/serverRailStore.ts) is kept in the browser and has to follow    *)
(* the list of spaces the server sends, which may change in the middle of  *)
(* a drag. The rail draws the layout as a flat list of top-level spaces,   *)
(* group headers and the spaces of expanded groups; a drop permutes that   *)
(* list and folds it back into a layout (layouts/app-layout/AppRail.tsx).  *)
(* Labels, icons and pixels are left out.                                  *)
(***************************************************************************)
EXTENDS Naturals, FiniteSets, SequencesExt

CONSTANTS Spaces,    \* the spaces, which the layout refers to by id
          GroupIds   \* ids of groups; the code draws a fresh one from the clock

ASSUME RailAssumption == Spaces \cap GroupIds = {}

VARIABLES
  order,     \* the top level: spaces and group ids
  groups,    \* by group id, its spaces in order and whether it is collapsed
  joined,    \* the spaces the user is a member of, as the last sync left them
  followed,  \* whether the rail's effect has run since joined changed
  drag,      \* {} or {the item under way}
  \* History: a space picked up in a group was dropped onto itself after the group
  \* had been dissolved under it, which the code does not refuse.
  twinned

railVars == <<order, groups, joined, followed, drag, twinned>>

Item == [kind : {"space", "group", "grouped"}, space : Spaces \cup {"none"}, group : GroupIds \cup {"none"}]
TopItem(s) == [kind |-> "space", space |-> s, group |-> "none"]
HeaderItem(g) == [kind |-> "group", space |-> "none", group |-> g]
GroupedItem(g, s) == [kind |-> "grouped", space |-> s, group |-> g]

\* Everything the layout places.
Placed ==
  (Range(order) \cap Spaces)
    \cup UNION {Range(groups[g].members) : g \in Range(order) \cap DOMAIN groups}

Without(f, dropped) == [g \in DOMAIN f \ dropped |-> f[g]]

\* s without the elements of D, in order. It is SelectSeq, in a form the proof system
\* can expand.
Filtered(s, D) == FlattenSeq([i \in 1..Len(s) |-> IF s[i] \in D THEN <<>> ELSE <<s[i]>>])

RailInit ==
  /\ order = <<>> /\ groups = <<>>
  /\ joined = {} /\ followed = TRUE /\ drag = {} /\ twinned = FALSE

-----------------------------------------------------------------------------
\* syncServers: spaces left are taken out, groups of fewer than two are dissolved
\* and what is left of them, and every new space, goes to the end.
SyncServers ==
  LET gone == Placed \ joined
      added == joined \ Placed
      Kept(g) == Filtered(groups[g].members, gone)
      dissolved == {g \in DOMAIN groups : Len(Kept(g)) < 2}
      survivors == FlattenSeq([i \in 1..Cardinality(dissolved) |-> Kept(SetToSeq(dissolved)[i])])
  IN /\ ~followed /\ followed' = TRUE
     /\ IF gone = {} /\ added = {} THEN UNCHANGED <<order, groups>>
        ELSE /\ order' = Filtered(order, gone \cup dissolved) \o survivors \o SetToSeq(added)
             /\ groups' = [g \in DOMAIN groups \ dissolved |-> [groups[g] EXCEPT !.members = Kept(g)]]
     /\ UNCHANGED <<joined, drag, twinned>>

\* The server's list changes by one space; the effect runs after each change.
Joins(s) ==
  /\ followed /\ s \notin joined
  /\ joined' = joined \cup {s} /\ followed' = FALSE
  /\ UNCHANGED <<order, groups, drag, twinned>>

Leaves(s) ==
  /\ followed /\ s \in joined
  /\ joined' = joined \ {s} /\ followed' = FALSE
  /\ UNCHANGED <<order, groups, drag, twinned>>

ToggleGroupCollapsed(g) ==
  /\ g \in DOMAIN groups /\ drag = {}
  /\ groups' = [groups EXCEPT ![g].collapsed = ~@]
  /\ UNCHANGED <<order, joined, followed, drag, twinned>>

-----------------------------------------------------------------------------
\* Groups drawn open: not collapsed, and not the one being dragged.
Expanded ==
  {g \in DOMAIN groups : ~groups[g].collapsed /\ HeaderItem(g) \notin drag}

BuildFlatIds(open) ==
  LET Members(g) == [i \in 1..Len(groups[g].members) |-> GroupedItem(g, groups[g].members[i])]
      Drawn(item) == IF item \in Spaces THEN <<TopItem(item)>>
                     ELSE <<HeaderItem(item)>> \o (IF item \in open THEN Members(item) ELSE <<>>)
  IN FlattenSeq([i \in 1..Len(order) |-> Drawn(order[i])])

\* One item of the flat list: a space of a group stays in it only directly below
\* the group's header or another of its spaces.
PlaceItem(acc, item, open) ==
  LET inPlace == item.kind = "grouped" /\ acc.current = item.group /\ item.group \in open
  IN IF item.kind = "group"
     THEN [acc EXCEPT !.order = Append(@, item.group), !.current = item.group]
     ELSE IF inPlace
     THEN [acc EXCEPT !.members[item.group] = Append(@, item.space)]
     ELSE [acc EXCEPT !.order = Append(@, item.space), !.current = "none"]

\* The flat list read from its top.
Read(flat, open) ==
  LET read[i \in 0..Len(flat)] ==
        IF i = 0 THEN [order |-> <<>>, members |-> [g \in open |-> <<>>], current |-> "none"]
        ELSE PlaceItem(read[i - 1], flat[i], open)
  IN read[Len(flat)]

\* flatToHierarchical: a collapsed group is kept as it was, an open one takes the
\* spaces found below its header, and with fewer than two of them it is dissolved
\* in place.
FlatToHierarchical(flat, open) ==
  LET read == Read(flat, open)
      small == {g \in open : Len(read.members[g]) < 2}
      Settled(item) == IF item \in small THEN read.members[item] ELSE <<item>>
  IN [order |-> FlattenSeq([i \in 1..Len(read.order) |-> Settled(read.order[i])]),
      groups |-> [g \in (DOMAIN groups \cap Range(read.order)) \ small |->
                    IF g \in open THEN [groups[g] EXCEPT !.members = read.members[g]] ELSE groups[g]]]

-----------------------------------------------------------------------------
\* What the rail draws can be picked up; a space the server no longer lists is
\* not drawn.
DragStart(item) ==
  /\ drag = {}
  /\ item \in Range(BuildFlatIds(Expanded))
  /\ item.kind # "group" => item.space \in joined
  /\ drag' = {item}
  /\ UNCHANGED <<order, groups, joined, followed, twinned>>

DragCancel ==
  /\ drag # {} /\ drag' = {}
  /\ UNCHANGED <<order, groups, joined, followed, twinned>>

CanGroup(active, over) ==
  /\ active.kind # "group"
  /\ active.kind = "grouped" => active.group # over.group

\* removeFromGroup: the space follows its group, or the group is dissolved where it
\* stands.
RemoveFromGroup(layout, s, g) ==
  IF g \notin DOMAIN layout.groups \/ s \notin Range(layout.groups[g].members) THEN layout
  ELSE LET remaining == Filtered(layout.groups[g].members, {s})
           at == SelectInSeq(layout.order, LAMBDA item : item = g)
       IN IF Len(remaining) >= 2
          THEN [order |-> InsertAt(layout.order, at + 1, s),
                groups |-> [layout.groups EXCEPT ![g].members = remaining]]
          ELSE [order |-> SubSeq(layout.order, 1, at - 1) \o Append(remaining, s)
                            \o SubSeq(layout.order, at + 1, Len(layout.order)),
                groups |-> Without(layout.groups, {g})]

AddToGroup(layout, s, g) ==
  IF g \notin DOMAIN layout.groups \/ s \in Range(layout.groups[g].members) THEN layout
  ELSE [order |-> Filtered(layout.order, {s}),
        groups |-> [layout.groups EXCEPT ![g].members = Append(@, s)]]

CreateGroup(layout, source, target) ==
  LET g == CHOOSE g \in GroupIds : g \notin DOMAIN layout.groups
      rest == Filtered(layout.order, {source})
      at == SelectInSeq(rest, LAMBDA item : item = target)
  IN [order |-> IF at = 0 THEN <<g>> \o rest ELSE [rest EXCEPT ![at] = g],
      groups |-> [h \in DOMAIN layout.groups \cup {g} |->
                    IF h = g THEN [members |-> <<target, source>>, collapsed |-> FALSE]
                    ELSE layout.groups[h]]]

Layout == [order |-> order, groups |-> groups]

\* Mutant: a space dragged into another group stays in its own as well.
Copied(active) == Layout

\* The layout from which the space is taken, out of its group if it is in one.
Taken(active) ==
  IF active.kind = "grouped" THEN RemoveFromGroup(Layout, active.space, active.group) ELSE Layout

DropOnto(active, over) ==
  IF over.kind = "space" THEN CreateGroup(Taken(active), active.space, over.space)
  ELSE AddToGroup(Taken(active), active.space, over.group)

\* arrayMove: the item lands before or after the one it is dropped on.
DropBeside(active, over, before) ==
  LET flat == BuildFlatIds(Expanded)
      from == SelectInSeq(flat, LAMBDA item : item = active)
      at == SelectInSeq(flat, LAMBDA item : item = over)
      to == IF before THEN (IF from < at THEN at - 1 ELSE at)
            ELSE (IF from > at THEN at + 1 ELSE at)
  IN IF from = 0 \/ at = 0 \/ to = from THEN Layout
     ELSE FlatToHierarchical(InsertAt(RemoveAt(flat, from), to, active), Expanded)

\* handleDragEnd: in the middle of an item the drop groups, at its edges it sorts.
\* The item may have left the rail since it was picked up.
Drop(over, intent) ==
  /\ drag # {} /\ over \notin drag
  /\ over \in Range(BuildFlatIds(Expanded))
  /\ over.kind # "group" => over.space \in joined
  /\ intent = "onto" /\ over.kind = "space" => GroupIds \ DOMAIN groups # {}  \* bound: the ids do not run out
  /\ \E active \in drag :
       /\ intent = "onto" => CanGroup(active, over)
       /\ LET next == IF intent = "onto" THEN DropOnto(active, over)
                      ELSE DropBeside(active, over, intent = "before")
          IN order' = next.order /\ groups' = next.groups
       /\ twinned' = (twinned \/ (intent = "onto" /\ active.space = over.space))
  /\ drag' = {}
  /\ UNCHANGED <<joined, followed>>

RailNext ==
  \/ \E s \in Spaces : Joins(s) \/ Leaves(s)
  \/ SyncServers
  \/ \E g \in GroupIds : ToggleGroupCollapsed(g)
  \/ \E item \in Item : DragStart(item)
  \/ DragCancel
  \/ \E over \in Item, intent \in {"onto", "before", "after"} : Drop(over, intent)

RailSpec == RailInit /\ [][RailNext]_railVars

-----------------------------------------------------------------------------
\* The places a space is drawn at.
Places(s) ==
  {<<"rail", i>> : i \in {j \in 1..Len(order) : order[j] = s}}
    \cup UNION {{<<g, i>> : i \in {j \in 1..Len(groups[g].members) : groups[g].members[j] = s}} :
                 g \in DOMAIN groups}

\* Whatever is dragged where, and whatever joins or leaves meanwhile, no space is
\* drawn twice, and once the rail has followed the list every joined space is on it:
\* a space the layout loses cannot be opened. A group stands at one place of the
\* rail and holds at least two spaces, so that no drag and no departure leaves an
\* empty frame or a group nothing leads to. Only the drop of a space onto itself
\* breaks it.
LayoutIsWhole ==
  twinned \/
    /\ \A s \in Spaces :
         /\ Cardinality(Places(s)) <= 1
         /\ followed /\ s \in joined => Places(s) # {}
    /\ \A g \in DOMAIN groups :
         /\ Cardinality({i \in 1..Len(order) : order[i] = g}) = 1
         /\ Len(groups[g].members) >= 2
    /\ Range(order) \subseteq Spaces \cup DOMAIN groups
=============================================================================
