--------------------------------- MODULE Drag ---------------------------------
(***************************************************************************)
(* The drag of a shortcut on a new tab page (newtab/App.tsx): a long press *)
(* or, in edit mode, any press picks it up; the pointer passes over other  *)
(* tiles and the wheel turns the page to other groups; the release moves   *)
(* it in the profile of that moment, which edits of other tabs may have    *)
(* changed since the press.                                                *)
(***************************************************************************)
EXTENDS ProfileMerge

VARIABLES
    pressed,  \* [page -> the shortcut pressed for less than a second, or None]
    drag,     \* [page -> the drag under way, or None]
    editMode, \* [page -> BOOLEAN]
    active    \* [page -> id of the group the page was last turned to]

dragVars == <<pressed, drag, editMode, active>>

DragInit(Page, first) ==
    /\ pressed = [d \in Page |-> None]
    /\ drag = [d \in Page |-> None]
    /\ editMode = [d \in Page |-> FALSE]
    /\ active = [d \in Page |-> first]

FirstLive(p) == Filter(p.groups, LAMBDA g : ~g.del)[1].id

\* The group on the page, and its tiles.
ShownGroup(d, p) ==
    IF active[d] \in {g.id : g \in Live(p.groups)} THEN active[d]
    ELSE (CHOOSE g \in Live(p.groups) : Rank(g, Live(p.groups)) = 0).id
Tiles(d, p) == LiveIn(p, ShownGroup(d, p))

\* beginShortcutDrag; inEditMode is the mode as of the press.
DragOf(s, inEditMode) ==
    [shortcut |-> s, group |-> s.group, target |-> None, moved |-> FALSE, inEditMode |-> inEditMode]

Press(d, p) ==
    /\ pressed[d] = None /\ drag[d] = None
    /\ \E s \in Tiles(d, p) :
          IF editMode[d]
          THEN drag' = [drag EXCEPT ![d] = DragOf(s, TRUE)] /\ UNCHANGED pressed
          ELSE pressed' = [pressed EXCEPT ![d] = s] /\ UNCHANGED drag
    /\ UNCHANGED <<editMode, active>>

\* The timer of a press runs out; the shortcut is the one that was pressed.
LongPress(d) ==
    /\ pressed[d] # None
    /\ pressed' = [pressed EXCEPT ![d] = None]
    /\ drag' = [drag EXCEPT ![d] = DragOf(pressed[d], FALSE)]
    /\ UNCHANGED <<editMode, active>>

\* The pointer leaves, or the button is released, before that.
ClearPendingPress(d) ==
    /\ pressed[d] # None
    /\ pressed' = [pressed EXCEPT ![d] = None]
    /\ UNCHANGED <<drag, editMode, active>>

\* The pointer moves, over a tile of the page or over none.
Hover(d, p) ==
    /\ drag[d] # None
    /\ \E t \in Tiles(d, p) \cup {None}, moves \in BOOLEAN :
          drag' = [drag EXCEPT ![d] =
                    [@ EXCEPT !.moved = @ \/ moves,
                              !.target = IF t = None \/ t.id = drag[d].shortcut.id THEN None ELSE t.id,
                              !.group = IF t = None THEN @ ELSE t.group]]
    /\ UNCHANGED <<pressed, editMode, active>>

\* The wheel turns the page to the next or to the previous group.  A drag that
\* began with a long press holds the page.
SwitchGroup(d, p) ==
    LET groups == Live(p.groups)
        from == IF drag[d] = None THEN ShownGroup(d, p) ELSE drag[d].group
        at == {g \in groups : g.id = from}
        index == IF at = {} THEN 0 ELSE Rank(CHOOSE g \in at : TRUE, groups)
    IN /\ drag[d] # None => editMode[d]
       /\ \E offset \in {1, -1}, g \in groups :
             /\ Rank(g, groups) = (index + offset) % Cardinality(groups)
             /\ active' = [active EXCEPT ![d] = g.id]
             /\ drag' = IF drag[d] = None THEN drag
                        ELSE [drag EXCEPT ![d] = [@ EXCEPT !.target = None, !.group = g.id]]
       /\ UNCHANGED <<pressed, editMode>>

\* From the page's menu.
BeginShortcutEditMode(d) ==
    /\ ~editMode[d] /\ pressed[d] = None /\ drag[d] = None
    /\ editMode' = [editMode EXCEPT ![d] = TRUE]
    /\ UNCHANGED <<pressed, drag, active>>

\* By Escape, or a button: whatever was picked up is let go.
FinishShortcutEditMode(d) ==
    /\ editMode[d]
    /\ editMode' = [editMode EXCEPT ![d] = FALSE]
    /\ pressed' = [pressed EXCEPT ![d] = None]
    /\ drag' = [drag EXCEPT ![d] = None]
    /\ UNCHANGED active

\* (slip: where the tile was when the pointer reached it)
DestinationSeen(d, p, t) == drag[d].group

\* The group the tile is in by now.
Destination(d, p, t) ==
    IF t \in {x.id : x \in Live(p.shortcuts)} THEN ById(p.shortcuts, t).group ELSE drag[d].group

\* The button is released, over one of the page's tiles or over none: the
\* shortcut dragged, where to and onto what, or None where nothing is to move.
Drops(d, p) ==
    LET s == drag[d].shortcut
        over == IF drag[d].target # None THEN {drag[d].target}
                ELSE {t.id : t \in Tiles(d, p)} \cup {None}
        due(t) == \/ t \notin {None, s.id}
                  \/ Destination(d, p, t) # s.group
                  \/ drag[d].inEditMode /\ drag[d].moved /\ t = None
    IN {IF due(t) THEN [id |-> s.id, dest |-> Destination(d, p, t),
                      onto |-> IF t = s.id THEN None ELSE t]
        ELSE None : t \in over}

Released(d) ==
    /\ drag[d] # None
    /\ drag' = [drag EXCEPT ![d] = None]
    /\ UNCHANGED <<pressed, editMode, active>>

\* An edit of another tab, which this page takes over.
Adopt(d, next) ==
    /\ active' = [active EXCEPT ![d] = IF @ \in {g.id : g \in Live(next.groups)} THEN @
                                       ELSE FirstLive(next)]
    /\ UNCHANGED <<pressed, drag, editMode>>
===============================================================================
