------------------------------- MODULE Views -------------------------------
(***************************************************************************)
(* UIView and CALayer (src/src/frameworks/uikit/ui_view.rs and             *)
(* core_animation/ca_layer.rs).  A view has a layer, and there are two     *)
(* trees: views own their subviews, layers their sublayers.  A method of   *)
(* UIView changes the tree of views and sends messages to layers that are  *)
(* to change the other one likewise; every link down a tree is a reference *)
(* that is counted, every link up is not.                                  *)
(*                                                                         *)
(* All operations are functions of objc, the objects, since one message    *)
(* sends others, and a release may deallocate a tree.                      *)
(*                                                                         *)
(* The guest releases only what it owns, makes no view or layer part of    *)
(* itself, and leaves the layers of views to UIView.  Plain says whether   *)
(* it adds layers of its own.  MaxHeld bounds its references to an object. *)
(***************************************************************************)
EXTENDS Integers, FiniteSets, SequencesExt

CONSTANTS Views, Layers, Plain, MaxHeld, nil

VARIABLES objc,        \* the host objects, and how often each is retained
          held         \* how many of its references are the guest's

vars == <<objc, held>>

Objects == Views \cup Layers

Init ==
    /\ objc = [retain_count |-> [o \in Objects |-> 0],      \* 0 if it does not exist
               layer |-> [v \in Views |-> nil],
               superview |-> [v \in Views |-> nil], subviews |-> [v \in Views |-> <<>>],
               superlayer |-> [l \in Layers |-> nil], sublayers |-> [l \in Layers |-> <<>>]]
    /\ held = [o \in Objects |-> 0]

Exists(o) == objc.retain_count[o] > 0
-----------------------------------------------------------------------------
retain(s, o) == [s EXCEPT !.retain_count[o] = @ + 1]

RECURSIVE release(_, _)

(* -[CALayer dealloc].  A layer that is still in another one is taken out.  *)
dealloc_layer(s, l) ==
    LET up == s.superlayer[l]
        alone == [s EXCEPT !.sublayers =
                     [m \in Layers |-> IF m = l THEN <<>>
                                       ELSE IF m = up THEN Remove(@[m], l) ELSE @[m]],
                           !.superlayer[l] = nil]
        drop(t, m) == release([t EXCEPT !.superlayer[m] = nil], m)
    IN  [FoldLeft(drop, alone, s.sublayers[l]) EXCEPT !.retain_count[l] = 0]

\* Fault: subviews keep the address of the view that was theirs.
dealloc_view_linked(s, v) ==
    LET empty == [s EXCEPT !.layer[v] = nil, !.superview[v] = nil, !.subviews[v] = <<>>]
        drop(t, w) == release(t, w)
    IN  [FoldLeft(drop, release(empty, s.layer[v]), s.subviews[v])
            EXCEPT !.retain_count[v] = 0]

(* -[UIView dealloc] *)
dealloc_view(s, v) ==
    LET empty == [s EXCEPT !.layer[v] = nil, !.superview[v] = nil, !.subviews[v] = <<>>]
        drop(t, w) == release([t EXCEPT !.superview[w] = nil], w)
    IN  [FoldLeft(drop, release(empty, s.layer[v]), s.subviews[v])
            EXCEPT !.retain_count[v] = 0]

release(s, o) ==
    IF s.retain_count[o] > 1 THEN [s EXCEPT !.retain_count[o] = @ - 1]
    ELSE IF o \in Views THEN dealloc_view(s, o) ELSE dealloc_layer(s, o)
-----------------------------------------------------------------------------
(* Where something is inserted: at an index, or below or above a sibling.   *)
(* What is not there, or nil, makes it the last one.                        *)
Index(i) == [at |-> "index", index |-> i]
Beside(at, sibling) == [at |-> at, sibling |-> sibling]
AtEnd == Beside("above", nil)

Position(seq, where) ==
    CASE where.at = "index" -> IF where.index < Len(seq) THEN where.index + 1 ELSE Len(seq) + 1
      [] where.at = "below" /\ Contains(seq, where.sibling) ->
             SelectInSeq(seq, LAMBDA x : x = where.sibling)
      [] where.at = "above" /\ Contains(seq, where.sibling) ->
             SelectInSeq(seq, LAMBDA x : x = where.sibling) + 1
      [] OTHER -> Len(seq) + 1

\* Fault: the superlayer's reference is not given up.
removeFromSuperlayer_retained(s, l) ==
    LET up == s.superlayer[l]
    IN  IF up = nil THEN s
        ELSE [s EXCEPT !.superlayer[l] = nil, !.sublayers[up] = Remove(@, l)]

removeFromSuperlayer(s, l) ==
    LET up == s.superlayer[l]
        out == [s EXCEPT !.superlayer[l] = nil, !.sublayers[up] = Remove(@, l)]
    IN  IF up = nil THEN s
        ELSE IF Contains(s.sublayers[up], l) THEN release(out, l) ELSE out

(* insertSublayer:atIndex:, below: and above:, and the rest of addSublayer: *)
insertSublayer(s, this, l, where) ==
    LET out == removeFromSuperlayer(retain(s, l), l)
    IN  [out EXCEPT !.superlayer[l] = this,
                    !.sublayers[this] = InsertAt(@, Position(@, where), l)]

addSublayer(s, this, l) ==
    IF s.superlayer[l] = this
    THEN [s EXCEPT !.sublayers[this] = Append(Remove(@, l), l)]
    ELSE insertSublayer(s, this, l, AtEnd)

replaceSublayer(s, this, old, l) ==
    LET out == removeFromSuperlayer(retain(s, l), l)
        in == [out EXCEPT !.superlayer[l] = this, !.superlayer[old] = nil,
                          !.sublayers[this] = ReplaceAll(@, old, l)]
    IN  IF Contains(s.sublayers[this], old) /\ old # l THEN release(in, old) ELSE s

removeFromSuperview(s, v) ==
    LET up == s.superview[v]
        out == removeFromSuperlayer([s EXCEPT !.superview[v] = nil], s.layer[v])
    IN  IF up = nil THEN s
        ELSE IF Contains(out.subviews[up], v)
             THEN release([out EXCEPT !.subviews[up] = Remove(@, v)], v)
             ELSE out

LayerBeside(s, where) ==
    IF where.at = "index" \/ where.sibling = nil THEN where
    ELSE Beside(where.at, s.layer[where.sibling])

\* Fault: the view is retained when it has left its superview.
insertSubview_late(s, this, v, where) ==
    LET out == retain(removeFromSuperview(s, v), v)
        in == [out EXCEPT !.superview[v] = this,
                          !.subviews[this] = InsertAt(@, Position(@, where), v)]
    IN  insertSublayer(in, in.layer[this], s.layer[v], LayerBeside(in, where))

(* insertSubview:atIndex:, belowSubview: and aboveSubview:, and the rest of *)
(* addSubview:.  An index counts subviews, but is given to the layer too.   *)
insertSubview(s, this, v, where) ==
    LET out == removeFromSuperview(retain(s, v), v)
        in == [out EXCEPT !.superview[v] = this,
                          !.subviews[this] = InsertAt(@, Position(@, where), v)]
    IN  insertSublayer(in, in.layer[this], in.layer[v], LayerBeside(in, where))

\* Fault: the layer stays where it is.
bringSubviewToFront_alone(s, this, v) ==
    [s EXCEPT !.subviews[this] = Append(Remove(@, v), v)]

bringSubviewToFront(s, this, v) ==
    LET moved == [s EXCEPT !.subviews[this] = Append(Remove(@, v), v)]
    IN  addSublayer(removeFromSuperlayer(moved, s.layer[v]), s.layer[this], s.layer[v])

sendSubviewToBack(s, this, v) ==
    LET moved == [s EXCEPT !.subviews[this] = <<v>> \o Remove(@, v)]
    IN  insertSublayer(removeFromSuperlayer(moved, s.layer[v]), s.layer[this], s.layer[v],
                       Index(0))

(* The layers of all subviews are taken out and put back in order. *)
exchangeSubviewAtIndex(s, this, i, j) ==
    LET seq == s.subviews[this]
        ordered == [seq EXCEPT ![i + 1] = seq[j + 1], ![j + 1] = seq[i + 1]]
        swapped == [s EXCEPT !.subviews[this] = ordered]
        out(t, v) == removeFromSuperlayer(t, t.layer[v])
        in(t, v) == addSublayer(t, t.layer[this], t.layer[v])
    IN  FoldLeft(in, FoldLeft(out, swapped, ordered), ordered)

addSubview(s, this, v) ==
    IF s.superview[v] = this THEN bringSubviewToFront(s, this, v)
    ELSE insertSubview(s, this, v, AtEnd)
-----------------------------------------------------------------------------
(* The guest                                                                *)

Free(S) == {o \in S : ~Exists(o)}
Live(S) == {o \in S : Exists(o)}
PlainLayers == {l \in Live(Layers) : Plain /\ \A v \in Views : objc.layer[v] # l}

RECURSIVE Within(_, _, _)
Within(up, x, y) == x # nil /\ (x = y \/ Within(up, up[x], y))

Become(s) == objc' = s /\ UNCHANGED held

(* [[UIView alloc] init], with init_common: the layer's reference is the view's. *)
initView ==
    /\ Free(Views) # {} /\ Free(Layers) # {}
    /\ LET v == CHOOSE w \in Free(Views) : TRUE
           l == CHOOSE m \in Free(Layers) : TRUE
       IN  /\ objc' = [objc EXCEPT !.retain_count[v] = 1, !.retain_count[l] = 1, !.layer[v] = l]
           /\ held' = [held EXCEPT ![v] = 1]

(* [CALayer layer].  What it returns is not autoreleased. *)
layer ==
    /\ Plain /\ Free(Layers) # {}
    /\ LET l == CHOOSE m \in Free(Layers) : TRUE
       IN  /\ objc' = [objc EXCEPT !.retain_count[l] = 1]
           /\ held' = [held EXCEPT ![l] = 1]

GuestRetain ==
    \E o \in Live(Objects) :
        /\ held[o] < MaxHeld
        /\ objc' = retain(objc, o)
        /\ held' = [held EXCEPT ![o] = @ + 1]

GuestRelease ==
    \E o \in Live(Objects) :
        /\ held[o] > 0
        /\ objc' = release(objc, o)
        /\ held' = [held EXCEPT ![o] = @ - 1]

ArrangeSubviews ==
    \E this \in Live(Views), v \in Live(Views) :
        /\ ~Within(objc.superview, this, v)
        /\ ~Within(objc.superlayer, objc.layer[this], objc.layer[v])
        /\ \/ Become(addSubview(objc, this, v))
           \/ \E i \in 0..Cardinality(Views) : Become(insertSubview(objc, this, v, Index(i)))
           \/ \E at \in {"below", "above"}, sibling \in Live(Views) \cup {nil} :
                  Become(insertSubview(objc, this, v, Beside(at, sibling)))
           \/ /\ Contains(objc.subviews[this], v)
              /\ \/ Become(bringSubviewToFront(objc, this, v))
                 \/ Become(sendSubviewToBack(objc, this, v))

ExchangeSubviews ==
    \E this \in Live(Views) : \E i, j \in 0..Len(objc.subviews[this]) - 1 :
        /\ i # j
        /\ Become(exchangeSubviewAtIndex(objc, this, i, j))

RemoveView == \E v \in Live(Views) : Become(removeFromSuperview(objc, v))

ArrangeSublayers ==
    \E this \in Live(Layers), l \in PlainLayers :
        /\ ~Within(objc.superlayer, this, l)
        /\ \/ Become(addSublayer(objc, this, l))
           \/ \E i \in 0..Cardinality(Layers) : Become(insertSublayer(objc, this, l, Index(i)))
           \/ \E at \in {"below", "above"}, sibling \in Live(Layers) \cup {nil} :
                  Become(insertSublayer(objc, this, l, Beside(at, sibling)))
           \/ \E old \in PlainLayers : Become(replaceSublayer(objc, this, old, l))

RemoveLayer == \E l \in PlainLayers : Become(removeFromSuperlayer(objc, l))

Next ==
    \/ initView \/ layer \/ GuestRetain \/ GuestRelease
    \/ ArrangeSubviews \/ ExchangeSubviews \/ RemoveView
    \/ ArrangeSublayers \/ RemoveLayer

Spec == Init /\ [][Next]_vars
-----------------------------------------------------------------------------
One(P) == IF P THEN 1 ELSE 0

(* The host objects keep their shape, and the guest holds no more than it may. *)
TypeOK ==
    /\ objc \in [retain_count : [Objects -> Nat],
                  layer : [Views -> Layers \cup {nil}],
                  superview : [Views -> Views \cup {nil}],
                  subviews : [Views -> Seq(Views)],
                  superlayer : [Layers -> Layers \cup {nil}],
                  sublayers : [Layers -> Seq(Layers)]]
    /\ held \in [Objects -> 0..MaxHeld]

(* The links down a tree of views or layers and those up are each other's   *)
(* inverse, whatever was moved, removed or deallocated, so that none leads  *)
(* to an object that is gone.                                               *)
TreeSound(S, up, down) ==
    \A p \in S :
        /\ IsInjective(down[p])
        /\ ToSet(down[p]) = {c \in S : up[c] = p}
        /\ up[p] # nil => Exists(p) /\ Exists(up[p])

TreesSound ==
    /\ TreeSound(Views, objc.superview, objc.subviews)
    /\ TreeSound(Layers, objc.superlayer, objc.sublayers)

(* An object is retained once by each reference the guest has, by the view  *)
(* that a layer backs, and by what it is part of: each operation gives back *)
(* the references it takes, also those that pass through both trees.        *)
CountsExact ==
    /\ \A v \in Views :
          objc.retain_count[v] = held[v] + One(objc.superview[v] # nil)
    /\ \A l \in Layers :
          objc.retain_count[l] = held[l] + One(objc.superlayer[l] # nil)
                                 + One(\E v \in Views : objc.layer[v] = l)

(* The subviews of a view are drawn in their order: their layers are the    *)
(* sublayers of its layer, one for one.  With layers that the guest adds,   *)
(* they are among the sublayers in any order, since insertSubview:atIndex:  *)
(* counts views where the layer counts layers.                              *)
LayersFollow ==
    \A v \in Live(Views) :
        LET drawn == [i \in DOMAIN objc.subviews[v] |-> objc.layer[objc.subviews[v][i]]]
            sublayers == objc.sublayers[objc.layer[v]]
        IN  IF Plain THEN ToSet(drawn) \subseteq ToSet(sublayers) ELSE drawn = sublayers
=============================================================================
