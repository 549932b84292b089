--------------------------- MODULE MCRunControl ---------------------------
(* RunControl for TLC: two levels, the finer with two steps in each coarse  *)
(* one, and short runs of which every step is limited by something else.    *)
EXTENDS RunControl

Factors == <<1, 2>>

Base == [max_step |-> -1, strt_time |-> 0, stop_time |-> -1, wall_time |-> FALSE,
         fixed_dt |-> -1, initial_dt |-> -1, max_dt |-> 100000, dt_cutoff |-> 0,
         check_int |-> 2, plot_int |-> 2, hdf5 |-> FALSE,
         regrid_on_restart |-> FALSE, dt_on_regrid |-> FALSE, may_fail |-> FALSE,
         est |-> <<<<4000>>>>]

\* The coarse level limits, then the fine one, then the growth.
Varied  == <<<<4000, 3000>>, <<6000, 2000>>, <<9000>>>>
Dropped == <<<<8000, 4000>>, <<2000, 800>>, <<8000, 8000>>>>
Estimates == {Varied, Dropped, <<<<4000>>>>}

\* In the middle of a step of 4000, and around the end of one.
StopTimes == {12000, 13998, 14003, 14010}

Timed   == {[Base EXCEPT !.stop_time = t, !.est = e, !.dt_on_regrid = r] :
              t \in StopTimes, e \in Estimates, r \in BOOLEAN}
Fixed   == {[Base EXCEPT !.stop_time = t, !.fixed_dt = 4000] : t \in StopTimes}
Started == {[Base EXCEPT !.stop_time = 12000, !.initial_dt = 1000, !.est = Varied,
                         !.strt_time = s, !.max_dt = 3000] : s \in {0, 3000, 12000}}
Counted == {[Base EXCEPT !.max_step = n, !.stop_time = t, !.est = e, !.may_fail = f,
                         !.plot_int = p, !.check_int = c, !.wall_time = w] :
              n \in {0, 3}, t \in {-1, 9000}, e \in {Varied}, f \in BOOLEAN,
              p \in {0, 2}, c \in {0, 2}, w \in BOOLEAN}

Runs == Timed \cup Fixed \cup Started \cup Counted
=============================================================================
