------------------------------ MODULE OdtLevel ------------------------------
(* PeleC::getODTLESTerm and the ODT manager of one level, along one direction: *)
(* every cell of the level's boxes owns a line, which takes its support from   *)
(* the cell and its two neighbours, is advanced over the host's step, and      *)
(* returns one momentum moment to the fluxes at the faces of its cell.  The    *)
(* boxes are spread over ranks: a rank works through its own cells at its own  *)
(* pace and sees the rest of the level only through ghost cells.               *)
(*                                                                             *)
(* A cell of the LES state is the number of the state it belongs to, or Unset  *)
(* for memory nobody wrote.  How a line changes while it is advanced is the    *)
(* subject of OdtStepper: here its moment is any member of Moments.            *)
EXTENDS Integers, FiniteSets, Functions

CONSTANTS Layouts,    \* the grids the level may have: the cells n of the domain,
                      \* whether it is periodic, and the boxes with their ranks
          Moments,    \* values of a directional moment
          NewCalls,   \* calls of construct_new_les_source per host step
          MaxSteps    \* bound: host steps

(* The boxes of a level are not empty, lie in the domain and do not overlap.   *)
ASSUME LayoutAssumption ==
    \A l \in Layouts :
        /\ l.n \in Nat \ {0}
        /\ l.periodic \in BOOLEAN
        /\ \A box \in l.boxes :
            /\ box.lo \in Nat /\ box.hi \in Nat
            /\ box.lo <= box.hi /\ box.hi < l.n
        /\ \A a, b \in l.boxes : a.lo <= b.hi /\ b.lo <= a.hi => a = b

VARIABLES layout,     \* the grids of the level
          step,       \* host steps begun
          call,       \* calls of getODTLESTerm begun in this step
          phase,      \* "host", "prepare" or "assembled"
          les,        \* number of the LES state the call works on
          lines,      \* the lines of odt_manager, by owner cell
          todo,       \* owner cells the call has not come to
          read,       \* values that accepted lines took as support in this call
          odtDirCc,   \* moments by owner cell, 0 where no line was advanced
          flux        \* twice the flux, by box and face

vars == <<layout, step, call, phase, les, lines, todo, read, odtDirCc, flux>>

Unset == -1

-----------------------------------------------------------------------------
(* The grids *)

Domain == 0..layout.n-1

CellsOf(box) == box.lo..box.hi

Covered == UNION {CellsOf(box) : box \in layout.boxes}

RankOf(c) == (CHOOSE box \in layout.boxes : c \in CellsOf(box)).rank

LocalBoxes(rank) == {box \in layout.boxes : box.rank = rank}

(* Mutant of supportGhostCells: valid cells only. *)
noGhostCells == 0

(* ODTLineGeometry::supportGhostCells(). *)
supportGhostCells == 1

(* ODTLineGeometry::define: the cell and its neighbours, wrapped around a      *)
(* periodic domain and pushed inwards at the ends of any other.                *)
Support(c) ==
    IF layout.periodic
    THEN {i % layout.n : i \in (c - 1)..(c + 1)}
    ELSE LET lo == IF c - 1 < 0 THEN 0
                   ELSE IF c + 1 > layout.n - 1 /\ c - 2 >= 0 THEN c - 2 ELSE c - 1
         IN  {i \in lo..(lo + 2) : i \in Domain}

-----------------------------------------------------------------------------
(* The support of a line *)

(* A ghost cell of state_same_level after FillBoundary: neighbouring boxes are *)
(* copied, what no box of the level covers keeps what the memory held.         *)
filledGhost(i) == IF i \in Covered THEN les ELSE Unset

OnRank(rank, i, ng) == \E box \in LocalBoxes(rank) : i \in (box.lo - ng)..(box.hi + ng)

(* ODTManager::collectSupportData looks through the boxes of the rank, first   *)
(* for valid cells, then for ghost cells of the level.  The cells are clipped  *)
(* or wrapped into the domain before, so PhysicalBoundaryGhost does not arise; *)
(* and the state the host filled has the same ghost cells as state_same_level, *)
(* so AMRCoarseFineFilled does not either.                                     *)
Provenance(rank, i) ==
    IF OnRank(rank, i, 0) THEN "SameLevelValidCell"
    ELSE IF OnRank(rank, i, supportGhostCells) THEN "SameLevelFilledGhost"
    ELSE "InvalidUnsupported"

Value(rank, i) == IF Provenance(rank, i) = "SameLevelValidCell" THEN les ELSE filledGhost(i)

(* prepareRuntimeODTLineFromLESSupport accepts a line whose support is there.  *)
Accepted(c) ==
    \A i \in Support(c) : Provenance(RankOf(c), i) # "InvalidUnsupported"

SupportValues(c) == {Value(RankOf(c), i) : i \in Support(c)}

-----------------------------------------------------------------------------
(* The fluxes *)

(* Mutant of ghostMoment: odt_dir_cc is not exchanged. *)
unexchangedMoment(i) == 0

(* odt_dir_cc in a ghost cell of a box after FillBoundary; it was set to zero. *)
ghostMoment(i) == IF i \in Covered THEN odtDirCc[i] ELSE 0

Moment(box, i) == IF i \in CellsOf(box) THEN odtDirCc[i] ELSE ghostMoment(i)

(* Twice centered_face_avg at the face below cell f. *)
FaceFlux(box, f) ==
    CASE f \in Domain /\ f - 1 \in Domain -> Moment(box, f) + Moment(box, f - 1)
      [] f \in Domain /\ f - 1 \notin Domain -> 2 * Moment(box, f)
      [] f \notin Domain /\ f - 1 \in Domain -> 2 * Moment(box, f - 1)
      [] OTHER -> 0

Faces(box) == box.lo..(box.hi + 1)

-----------------------------------------------------------------------------
(* Actions *)

Init ==
    /\ layout \in Layouts
    /\ step = 0
    /\ call = 0
    /\ phase = "host"
    /\ les = 0
    /\ lines = <<>>
    /\ todo = {}
    /\ read = {}
    /\ odtDirCc = <<>>
    /\ flux = <<>>

(* getODTLESTerm begins: construct_old_les_source once, then                   *)
(* construct_new_les_source for every sweep of the step.                       *)
Begin ==
    /\ todo' = Covered
    /\ read' = {}
    /\ odtDirCc' = [c \in Covered |-> 0]
    /\ flux' = <<>>
    /\ phase' = "prepare"
    /\ UNCHANGED <<layout, lines>>

constructOldLesSource ==
    /\ phase = "host" /\ call = 0 /\ step < MaxSteps
    /\ step' = step + 1
    /\ call' = 1
    /\ UNCHANGED les
    /\ Begin

constructNewLesSource ==
    /\ phase = "host" /\ call \in 1..NewCalls
    /\ call' = call + 1
    /\ les' = les + 1
    /\ UNCHANGED step
    /\ Begin

(* A new entry of the manager, and its line once the support filled it.        *)
getOrCreateLineEntry(c) ==
    IF c \in DOMAIN lines THEN lines[c] ELSE [anchor |-> Unset, advanced |-> 0]

initializeLineState(c) == [getOrCreateLineEntry(c) EXCEPT !.anchor = les]

(* A line that exists is pulled to the average of its owner cell.              *)
reconcileLineState(c) == [lines[c] EXCEPT !.anchor = les]

(* An accepted line is prepared and advanced over the host's step.             *)
advancedLine(c) ==
    LET prepared == IF c \in DOMAIN lines THEN reconcileLineState(c) ELSE initializeLineState(c)
    IN  [prepared EXCEPT !.advanced = @ + 1]

(* A rank comes to its next owner cell. *)
NextOnRank(c) == \A d \in todo : RankOf(d) = RankOf(c) => c <= d

advanceOwner(c) ==
    /\ phase = "prepare"
    /\ c \in todo /\ NextOnRank(c)
    /\ todo' = todo \ {c}
    /\ IF Accepted(c)
       THEN /\ lines' = [d \in DOMAIN lines \cup {c} |->
                            IF d = c THEN advancedLine(c) ELSE lines[d]]
            /\ read' = read \cup SupportValues(c)
            /\ \E q \in Moments : odtDirCc' = [odtDirCc EXCEPT ![c] = q]
       ELSE UNCHANGED <<lines, read, odtDirCc>>
    /\ UNCHANGED <<layout, step, call, phase, les, flux>>

(* All ranks have met in FillBoundary: each box computes the fluxes of its     *)
(* faces and their divergence.                                                 *)
assembleFluxes ==
    /\ phase = "prepare" /\ todo = {}
    /\ flux' = [bf \in UNION {{box} \X Faces(box) : box \in layout.boxes} |->
                   FaceFlux(bf[1], bf[2])]
    /\ phase' = "assembled"
    /\ UNCHANGED <<layout, step, call, les, lines, todo, read, odtDirCc>>

(* The host goes on; after the last source of a step the state is new.         *)
hostContinues ==
    /\ phase = "assembled"
    /\ phase' = "host"
    /\ call' = IF call = NewCalls + 1 THEN 0 ELSE call
    /\ les' = IF call = NewCalls + 1 THEN les + 1 ELSE les
    /\ UNCHANGED <<layout, step, lines, todo, read, odtDirCc, flux>>

(* Mutant of regriddedLines: the manager is handed over to the new level. *)
keptLines(new) == Restrict(lines, DOMAIN lines \cap UNION {CellsOf(box) : box \in new.boxes})

(* A new PeleC object has a new, empty odt_manager; init(old) does not copy it. *)
regriddedLines(new) == <<>>

regrid ==
    /\ phase = "host" /\ call = 0
    /\ \E new \in Layouts :
        /\ new.n = layout.n /\ new.periodic = layout.periodic /\ new # layout
        /\ layout' = new
        /\ lines' = regriddedLines(new)
    /\ UNCHANGED <<step, call, phase, les, todo, read, odtDirCc, flux>>

Next ==
    \/ constructOldLesSource
    \/ constructNewLesSource
    \/ \E c \in todo : advanceOwner(c)
    \/ assembleFluxes
    \/ hostContinues
    \/ regrid

Spec == Init /\ [][Next]_vars

-----------------------------------------------------------------------------
(* Properties *)

(* On a level that covers its domain every line that was accepted in a call    *)
(* took its support from the LES state of that very call, whichever rank owns  *)
(* it and whichever rank owns its neighbours.  (Next to a coarser level it may *)
(* take memory nobody filled.)                                                 *)
SupportIsLesState == phase # "host" /\ Covered = Domain => read \subseteq {les}

(* When a call has been assembled no line of the level has been left behind    *)
(* at an earlier LES state, whatever regrids changed the boxes and ranks.      *)
NoStaleLines ==
    phase = "assembled" => \A c \in DOMAIN lines : lines[c].anchor = les

(* Both: what a call works with belongs to the LES state it was called for.    *)
LinesFollowLes == SupportIsLesState /\ NoStaleLines

(* Between walls every owner cell of a level that covers its domain has a      *)
(* line: how the level is cut into boxes and spread over ranks makes no        *)
(* difference.  (At the ends of a periodic domain it does.)                    *)
EveryOwnerHasLine ==
    phase = "assembled" /\ Covered = Domain /\ ~layout.periodic => DOMAIN lines = Domain

(* The face between two boxes carries one flux, on whichever ranks they are:   *)
(* what one cell loses the other one gains.  (The two images of a periodic     *)
(* face are not averaged and may differ.)                                      *)
ConservativeReturn ==
    phase = "assembled" =>
        \A bf, cg \in DOMAIN flux : bf[2] = cg[2] => flux[bf] = flux[cg]
=============================================================================
