---------------------------- MODULE OdtLevelProofs ----------------------------
(***************************************************************************)
(* Theorems about OdtLevel for every set of layouts, every number of calls *)
(* and every value a moment may take.                                      *)
(*                                                                         *)
(* The lines of a level are only ever those of cells whose support is      *)
(* reachable on the owner's rank, so a call comes to every one of them;    *)
(* that the grids stay as they are from the beginning of a call to its end *)
(* makes the argument go through.                                          *)
(***************************************************************************)
EXTENDS OdtLevel, TLAPS

-----------------------------------------------------------------------------
(* The inductive invariant.                                                *)

Line == [anchor : Int, advanced : Nat]

TypeInv ==
  /\ layout \in Layouts
  /\ phase \in {"host", "prepare", "assembled"}
  /\ les \in Nat
  /\ todo \subseteq Covered
  /\ phase # "prepare" => todo = {}
  /\ \A c \in DOMAIN lines : lines[c] \in Line
  /\ phase # "host" => odtDirCc \in [Covered -> Moments \cup {0}]

\* The level has lines only where the support of the cell can be reached.
LinesInv == \A c \in DOMAIN lines : c \in Covered /\ Accepted(c)

\* An owner cell the call has come to has its line at the call's LES state.
DoneInv ==
  phase # "host" =>
    \A c \in Covered \ todo :
      Accepted(c) => c \in DOMAIN lines /\ lines[c].anchor = les

ReadInv == SupportIsLesState

\* What a face carries was computed from the moments of this call.
FluxInv ==
  phase = "assembled" =>
    flux = [bf \in UNION {{box} \X Faces(box) : box \in layout.boxes} |->
              FaceFlux(bf[1], bf[2])]

IInv == TypeInv /\ LinesInv /\ DoneInv /\ ReadInv /\ FluxInv

\* A cell of the level lies in a box of the rank that owns its line.
LEMMA OwnBox ==
  ASSUME NEW c \in Covered
  PROVE  \E box \in LocalBoxes(RankOf(c)) : c \in CellsOf(box)
<1>1. \E box \in layout.boxes : c \in CellsOf(box)
  BY DEF Covered
<1> DEFINE b == CHOOSE box \in layout.boxes : c \in CellsOf(box)
<1>2. b \in layout.boxes /\ c \in CellsOf(b)
  BY <1>1
<1> QED
  BY <1>2 DEF LocalBoxes, RankOf

\* The support of a cell of the domain consists of cells of the domain.
LEMMA SupportInDomain ==
  ASSUME layout \in Layouts, NEW c \in Domain
  PROVE  Support(c) \subseteq Domain
<1>1. layout.n \in Nat /\ layout.n > 0 /\ c \in Int
  BY LayoutAssumption DEF Domain
<1>2. \A i \in Int : i % layout.n \in 0 .. layout.n - 1
  BY <1>1
<1>3. CASE layout.periodic
  <2>1. \A i \in (c - 1) .. (c + 1) : i \in Int
    BY <1>1
  <2>2. Support(c) = {i % layout.n : i \in (c - 1) .. (c + 1)}
    BY <1>3 DEF Support
  <2> QED
    BY <1>2, <2>1, <2>2 DEF Domain
<1>4. CASE ~layout.periodic
  BY <1>4 DEF Support
<1> QED
  BY <1>3, <1>4

LEMMA CoveredInDomain ==
  layout \in Layouts => Covered \subseteq Domain
BY LayoutAssumption DEF Covered, CellsOf, Domain

\* On a level that covers its domain nothing but the LES state is read.
LEMMA SupportRead ==
  ASSUME layout \in Layouts, Covered = Domain, NEW c \in Covered
  PROVE  SupportValues(c) \subseteq {les}
<1>1. Support(c) \subseteq Covered
  BY SupportInDomain
<1> QED
  BY <1>1 DEF SupportValues, Value, filledGhost

\* A line that was advanced stands at the LES state of the call.
LEMMA AdvancedLine ==
  ASSUME TypeInv, NEW c
  PROVE  advancedLine(c) \in Line /\ advancedLine(c).anchor = les
<1>1. CASE c \in DOMAIN lines
  <2>1. lines[c] \in Line
    BY <1>1 DEF TypeInv
  <2>2. reconcileLineState(c) \in Line /\ reconcileLineState(c).anchor = les
    BY <2>1 DEF reconcileLineState, Line, TypeInv
  <2> QED
    BY <1>1, <2>2 DEF advancedLine, Line
<1>2. CASE c \notin DOMAIN lines
  <2>1. initializeLineState(c) = [anchor |-> les, advanced |-> 0]
    BY <1>2 DEF initializeLineState, getOrCreateLineEntry
  <2>2. advancedLine(c) = [initializeLineState(c) EXCEPT !.advanced = @ + 1]
    BY <1>2 DEF advancedLine
  <2> QED
    BY <2>1, <2>2 DEF Line, TypeInv
<1> QED
  BY <1>1, <1>2

-----------------------------------------------------------------------------
LEMMA InitIInv == Init => IInv
<1> SUFFICES ASSUME Init PROVE IInv
  OBVIOUS
<1>1. DOMAIN lines = {}
  BY DEF Init
<1> QED
  BY <1>1 DEF Init, IInv, TypeInv, LinesInv, DoneInv, ReadInv, SupportIsLesState, FluxInv

\* The grids alone decide what the cells and their supports are.
LEMMA GridsFixed ==
  ASSUME layout' = layout
  PROVE  /\ Covered' = Covered /\ Domain' = Domain
         /\ \A c : Accepted(c)' <=> Accepted(c)
BY DEF Covered, CellsOf, Domain, Accepted, Support, Provenance, RankOf, OnRank,
       LocalBoxes, supportGhostCells

LEMMA BeginStep ==
  ASSUME IInv, Begin, phase = "host", les' \in Nat
  PROVE  IInv'
<1> USE DEF IInv, Begin
<1>1. Covered' = Covered /\ Domain' = Domain /\ \A c : Accepted(c)' <=> Accepted(c)
  BY GridsFixed
<1>2. TypeInv'
  <2>1. odtDirCc' \in [Covered -> Moments \cup {0}]
    OBVIOUS
  <2> QED
    BY <1>1, <2>1 DEF TypeInv
<1>3. LinesInv'
  BY <1>1 DEF LinesInv
<1>4. DoneInv'
  BY <1>1 DEF DoneInv
<1>5. ReadInv'
  BY DEF ReadInv, SupportIsLesState
<1>6. FluxInv'
  BY DEF FluxInv
<1> QED
  BY <1>2, <1>3, <1>4, <1>5, <1>6

LEMMA AdvanceStep ==
  ASSUME IInv, NEW c \in todo, advanceOwner(c)
  PROVE  IInv'
<1> USE DEF IInv, advanceOwner
<1>1. Covered' = Covered /\ Domain' = Domain /\ \A d : Accepted(d)' <=> Accepted(d)
  BY GridsFixed
<1>2. c \in Covered
  BY DEF TypeInv
<1>3. CASE ~Accepted(c)
  <2>1. TypeInv' /\ LinesInv' /\ ReadInv' /\ FluxInv'
    BY <1>1, <1>3 DEF TypeInv, LinesInv, ReadInv, SupportIsLesState, FluxInv
  <2>2. DoneInv'
    BY <1>1, <1>3 DEF DoneInv
  <2> QED
    BY <2>1, <2>2
<1>4. CASE Accepted(c)
  <2>1. DOMAIN lines' = DOMAIN lines \cup {c}
    BY <1>4
  <2>2. lines'[c] \in Line /\ lines'[c].anchor = les
    BY <1>4, AdvancedLine
  <2>3. \A d \in DOMAIN lines : d # c => lines'[d] = lines[d]
    BY <1>4
  <2>4. read' = read \cup SupportValues(c)
    BY <1>4
  <2>5. PICK q \in Moments : odtDirCc' = [odtDirCc EXCEPT ![c] = q]
    BY <1>4
  <2>6. UNCHANGED <<layout, step, call, phase, les, flux>> /\ todo' = todo \ {c}
        /\ phase = "prepare"
    OBVIOUS
  <2>7. TypeInv'
    <3>1. \A d \in DOMAIN lines' : lines'[d] \in Line
      BY <2>1, <2>2, <2>3 DEF TypeInv
    <3>2. odtDirCc' \in [Covered -> Moments \cup {0}]
      BY <2>5, <2>6 DEF TypeInv
    <3> QED
      BY <1>1, <2>6, <3>1, <3>2 DEF TypeInv
  <2>8. LinesInv'
    BY <1>1, <1>2, <1>4, <2>1 DEF LinesInv
  <2>9. DoneInv'
    BY <1>1, <2>1, <2>2, <2>3, <2>6 DEF DoneInv
  <2>10. ReadInv'
    BY <1>1, <1>2, <2>4, <2>6, SupportRead DEF ReadInv, SupportIsLesState, TypeInv
  <2>11. FluxInv'
    BY <2>6 DEF FluxInv
  <2> QED
    BY <2>7, <2>8, <2>9, <2>10, <2>11
<1> QED
  BY <1>3, <1>4

LEMMA AssembleStep ==
  ASSUME IInv, assembleFluxes
  PROVE  IInv'
<1> USE DEF IInv, assembleFluxes
<1>1. Covered' = Covered /\ Domain' = Domain /\ \A c : Accepted(c)' <=> Accepted(c)
  BY GridsFixed
<1>2. TypeInv' /\ LinesInv' /\ DoneInv' /\ ReadInv'
  BY <1>1 DEF TypeInv, LinesInv, DoneInv, ReadInv, SupportIsLesState
<1>3. FluxInv'
  BY DEF FluxInv, FaceFlux, Moment, ghostMoment, Faces, Domain, Covered, CellsOf
<1> QED
  BY <1>2, <1>3

LEMMA RegridStep ==
  ASSUME IInv, regrid
  PROVE  IInv'
<1>1. DOMAIN lines' = {}
  BY DEF regrid, regriddedLines
<1> QED
  BY <1>1 DEF IInv, regrid, TypeInv, LinesInv, DoneInv, ReadInv,
              SupportIsLesState, FluxInv

LEMMA StepIInv == IInv /\ [Next]_vars => IInv'
<1> SUFFICES ASSUME IInv, [Next]_vars PROVE IInv'
  OBVIOUS
<1>1. CASE constructOldLesSource
  BY <1>1, BeginStep DEF constructOldLesSource, IInv, TypeInv
<1>2. CASE constructNewLesSource
  BY <1>2, BeginStep DEF constructNewLesSource, IInv, TypeInv
<1>3. CASE \E c \in todo : advanceOwner(c)
  BY <1>3, AdvanceStep
<1>4. CASE assembleFluxes
  BY <1>4, AssembleStep
<1>5. CASE hostContinues
  <2>1. Covered' = Covered /\ \A c : Accepted(c)' <=> Accepted(c)
    BY <1>5, GridsFixed DEF hostContinues
  <2> QED
    BY <1>5, <2>1 DEF hostContinues, IInv, TypeInv, LinesInv, DoneInv, ReadInv,
                      SupportIsLesState, FluxInv
<1>6. CASE regrid
  BY <1>6, RegridStep
<1>7. CASE UNCHANGED vars
  <2>1. Covered' = Covered /\ Domain' = Domain /\ \A c : Accepted(c)' <=> Accepted(c)
    BY <1>7, GridsFixed DEF vars
  <2>2. TypeInv' /\ LinesInv' /\ DoneInv' /\ ReadInv'
    BY <1>7, <2>1 DEF vars, IInv, TypeInv, LinesInv, DoneInv, ReadInv, SupportIsLesState
  <2>3. FluxInv'
    BY <1>7 DEF vars, IInv, FluxInv, FaceFlux, Moment, ghostMoment, Faces,
                Domain, Covered, CellsOf
  <2> QED
    BY <2>2, <2>3 DEF IInv
<1> QED
  BY <1>1, <1>2, <1>3, <1>4, <1>5, <1>6, <1>7 DEF Next

LEMMA IInvInvariant == Spec => []IInv
BY InitIInv, StepIInv, PTL DEF Spec

-----------------------------------------------------------------------------
\* What a call works with belongs to the LES state it was called for: the
\* supports it read, on a level that covers its domain, and the lines of the
\* level when all of them are done.
THEOREM OdtLinesFollowLes == Spec => []LinesFollowLes
<1>1. IInv => LinesFollowLes
  BY DEF IInv, TypeInv, LinesInv, DoneInv, ReadInv, LinesFollowLes, NoStaleLines
<1> QED
  BY <1>1, IInvInvariant, PTL

(***************************************************************************)
(* Without a third cell within reach, the box at a wall has no support for *)
(* the cell at the wall.  Grids are at least as wide as                    *)
(* amr.blocking_factor; two cells are all that is needed.                  *)
(***************************************************************************)
WideAtWalls ==
  \A l \in Layouts : \A box \in l.boxes :
    l.n > 2 /\ (box.lo = 0 \/ box.hi = l.n - 1) => box.lo < box.hi

\* Between walls a rank reaches the support of every cell of its boxes.
LEMMA AcceptedBetweenWalls ==
  ASSUME WideAtWalls, layout \in Layouts, ~layout.periodic,
         Covered = Domain, NEW c \in Covered
  PROVE  Accepted(c)
<1>1. PICK box \in LocalBoxes(RankOf(c)) : c \in CellsOf(box)
  BY OwnBox
<1>2. /\ layout.n \in Nat /\ layout.n > 0 /\ box \in layout.boxes
      /\ box.lo \in Nat /\ box.hi \in Nat /\ box.hi < layout.n
      /\ c \in Int /\ box.lo <= c /\ c <= box.hi
  BY <1>1, LayoutAssumption DEF LocalBoxes, CellsOf
<1>3. layout.n > 2 /\ (box.lo = 0 \/ box.hi = layout.n - 1) => box.lo < box.hi
  BY <1>2 DEF WideAtWalls
<1>4. ASSUME NEW i \in Support(c)
      PROVE  i \in Int /\ box.lo - 1 <= i /\ i <= box.hi + 1
  <2> DEFINE lo == IF c - 1 < 0 THEN 0
                   ELSE IF c + 1 > layout.n - 1 /\ c - 2 >= 0 THEN c - 2 ELSE c - 1
  <2>1. lo \in Int /\ i \in lo .. (lo + 2) /\ i \in 0 .. layout.n - 1
    BY <1>2, <1>4 DEF Support, Domain
  <2>2. CASE c = 0
    BY <1>2, <1>3, <2>1, <2>2
  <2>3. CASE c # 0 /\ c = layout.n - 1
    <3>1. box.hi = c /\ c >= 1
      BY <1>2, <2>3
    <3>2. CASE c >= 2
      <4>1. lo = c - 2 /\ box.lo < box.hi
        BY <1>2, <1>3, <2>3, <3>1, <3>2
      <4> QED
        BY <1>2, <2>1, <2>3, <3>1, <4>1
    <3>3. CASE c = 1
      BY <1>2, <2>1, <2>3, <3>1, <3>3
    <3> QED
      BY <1>2, <3>1, <3>2, <3>3
  <2>4. CASE c # 0 /\ c # layout.n - 1
    BY <1>2, <2>1, <2>4
  <2> QED
    BY <2>2, <2>3, <2>4
<1>5. ASSUME NEW i \in Support(c)
      PROVE  OnRank(RankOf(c), i, supportGhostCells)
  BY <1>1, <1>2, <1>4 DEF OnRank, supportGhostCells
<1> QED
  BY <1>5 DEF Accepted, Provenance

\* Between walls every owner cell of a level that covers its domain has a line
\* at the end of a call, however it is cut into boxes and spread over ranks.
THEOREM OdtEveryOwnerHasLine ==
  ASSUME WideAtWalls PROVE Spec => []EveryOwnerHasLine
<1>1. IInv => EveryOwnerHasLine
  BY AcceptedBetweenWalls
     DEF IInv, TypeInv, LinesInv, DoneInv, EveryOwnerHasLine
<1> QED
  BY <1>1, IInvInvariant, PTL

\* A box sees the same moment in a cell whether the cell is its own or a ghost.
LEMMA FaceFluxOfLevel ==
  ASSUME NEW a \in layout.boxes, NEW b \in layout.boxes, NEW f
  PROVE  FaceFlux(a, f) = FaceFlux(b, f)
<1>1. \A i : Moment(a, i) = Moment(b, i)
  BY DEF Moment, ghostMoment, Covered
<1> QED
  BY <1>1 DEF FaceFlux

\* The face between two boxes carries one flux, on whichever ranks they are.
THEOREM OdtConservativeReturn == Spec => []ConservativeReturn
<1>1. ASSUME IInv, phase = "assembled",
             NEW bf \in DOMAIN flux, NEW cg \in DOMAIN flux, bf[2] = cg[2]
      PROVE  flux[bf] = flux[cg]
  <2>1. flux = [e \in UNION {{box} \X Faces(box) : box \in layout.boxes} |->
                  FaceFlux(e[1], e[2])]
    BY <1>1 DEF IInv, FluxInv
  <2>2. \A e \in DOMAIN flux :
          e[1] \in layout.boxes /\ flux[e] = FaceFlux(e[1], e[2])
    BY <2>1
  <2> QED
    BY <1>1, <2>2, FaceFluxOfLevel
<1>2. IInv => ConservativeReturn
  BY <1>1 DEF ConservativeReturn
<1> QED
  BY <1>2, IInvInvariant, PTL
=============================================================================
