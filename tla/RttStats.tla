------------------------------ MODULE RttStats ------------------------------
(***************************************************************************)
(* summary_stats of applications/mqtt-app/mqtt.c: the samples that         *)
(* msgarrvd recorded are sorted, DROP_RATIO percent of them are dropped at *)
(* either end, and the mean and the standard deviation of the rest are     *)
(* printed.  The samples, indices and results are uint32_t, the            *)
(* accumulator is uint64_t, and nothing checks an option: the module keeps *)
(* the arithmetic modulo the width of a word.  max_iter, rtts and pos are  *)
(* the code's MAX_ITER, rtt_ts and i.                                      *)
(***************************************************************************)
EXTENDS Integers

CONSTANTS
    WORD,           \* how many values a uint32_t has: 2^32
    Iterations,     \* the values of --iterations
    Ratios,         \* the values of --drop-ratio
    Times           \* the values of the two clocks a sample is taken from

ASSUME WordAssumption ==
    /\ WORD \in Nat /\ WORD > 1
    /\ Iterations \subseteq 0..(WORD - 1) /\ Ratios \subseteq 0..(WORD - 1)
    /\ Times \subseteq Nat

Word == 0..(WORD - 1)
Long == 0..(WORD * WORD - 1)

VARIABLES
    stage,
    max_iter, DROP_RATIO,   \* the options
    rtts,
    pos, acc, ct, mean, std_dev

options == <<max_iter, DROP_RATIO>>
stats_vars == <<stage, options, rtts, pos, acc, ct, mean, std_dev>>

Indices == 0..(max_iter - 1)

(* rtt_ts[it] = receive_time - deliver_time: the clocks may belong to two  *)
(* hosts, and the difference is cut to a word.                             *)
Sample(receive_time, deliver_time) == (receive_time - deliver_time) % WORD

(* (x * DROP_RATIO)/100 in uint32_t, and the bounds of the loops. *)
DROP_IDX(x) == ((x * DROP_RATIO) % WORD) \div 100
idx == DROP_IDX(max_iter)

End == (max_iter - idx) % WORD

StatsInit ==
    /\ stage = "sort"
    /\ max_iter \in Iterations /\ DROP_RATIO \in Ratios
    /\ rtts \in [Indices -> {Sample(r, d) : r \in Times, d \in Times}]
    /\ pos = 0 /\ acc = 0 /\ ct = 0 /\ mean = 0 /\ std_dev = 0

(* A word read as an int, and the difference cmpfunc returns. *)
Signed(x) == IF 2 * x < WORD THEN x ELSE x - WORD
cmpfunc(a, b) == Signed((Signed(a) - Signed(b)) % WORD)

(* The differences that cmpfunc computes fit into an int. *)
Comparable ==
    \A j, k \in Indices :
      cmpfunc(rtts[j], rtts[k]) = Signed(rtts[j]) - Signed(rtts[k])

Permutations ==
    {f \in [Indices -> Indices] : \A j, k \in Indices : f[j] = f[k] => j = k}

(* qsort puts the samples in the order of cmpfunc; where the subtraction   *)
(* overflows, that is no order, and they end up in any.                    *)
Qsort ==
    /\ stage = "sort"
    /\ \E f \in Permutations : rtts' = [k \in Indices |-> rtts[f[k]]]
    /\ Comparable =>
         \A j, k \in Indices : j < k => cmpfunc(rtts'[j], rtts'[k]) <= 0
    /\ stage' = "sum" /\ pos' = idx
    /\ UNCHANGED <<options, acc, ct, mean, std_dev>>

(* Mutant: i <= MAX_ITER - idx. *)
InLoopInclusive == pos <= End
InLoop == pos < End

(* A read past the samples is undefined: the model stops there.  The later *)
(* loops read what the first one read.                                     *)
Outside ==
    /\ stage = "sum" /\ InLoop /\ pos \notin Indices
    /\ stage' = "outside"
    /\ UNCHANGED <<options, rtts, pos, acc, ct, mean, std_dev>>

Sum ==
    /\ stage = "sum" /\ InLoop /\ pos \in Indices
    /\ acc' = (acc + rtts[pos]) % (WORD * WORD)
    /\ ct' = (ct + 1) % WORD
    /\ pos' = pos + 1
    /\ UNCHANGED <<stage, options, rtts, mean, std_dev>>

(* Mutant: the mean is taken over all samples. *)
MeanOfAll ==
    /\ stage = "sum" /\ ~InLoop
    /\ IF ct = 0
       THEN stage' = "divided" /\ UNCHANGED <<pos, acc, mean>>
       ELSE stage' = "squares" /\ mean' = (acc \div max_iter) % WORD /\ acc' = 0 /\ pos' = idx
    /\ UNCHANGED <<options, rtts, ct, std_dev>>
(* acc / ct, a division by zero when every sample was dropped.             *)
Mean ==
    /\ stage = "sum" /\ ~InLoop
    /\ IF ct = 0
       THEN stage' = "divided" /\ UNCHANGED <<pos, acc, mean>>
       ELSE stage' = "squares" /\ mean' = (acc \div ct) % WORD /\ acc' = 0 /\ pos' = idx
    /\ UNCHANGED <<options, rtts, ct, std_dev>>

(* (rtt_ts[i] - mean) * (rtt_ts[i] - mean) in uint32_t, like its factors.  *)
Square(x) == (((x - mean) % WORD) * ((x - mean) % WORD)) % WORD

Squares ==
    /\ stage = "squares" /\ InLoop /\ pos \in Indices
    /\ acc' = (acc + Square(rtts[pos])) % (WORD * WORD)
    /\ pos' = pos + 1
    /\ UNCHANGED <<stage, options, rtts, ct, mean, std_dev>>

(* (uint32_t)(sqrt(acc/ct)), then the printing of the samples kept. *)
StdDev ==
    /\ stage = "squares" /\ ~InLoop
    /\ std_dev' \in {s \in Word : s * s <= acc \div ct /\ acc \div ct < (s + 1) * (s + 1)}
    /\ stage' = "printed"
    /\ UNCHANGED <<options, rtts, pos, acc, ct, mean>>

StatsNext == Qsort \/ Outside \/ Sum \/ Mean \/ Squares \/ StdDev

StatsSpec == StatsInit /\ [][StatsNext]_stats_vars

-----------------------------------------------------------------------------
(* The type invariant. *)
StatsTypeOK ==
    /\ stage \in {"sort", "sum", "squares", "printed", "divided", "outside"}
    /\ max_iter \in Word /\ DROP_RATIO \in Word
    /\ rtts \in [Indices -> Word]
    /\ pos \in Nat /\ acc \in Long /\ ct \in Word /\ mean \in Word /\ std_dev \in Word

Kept == {k \in Indices : idx <= k /\ k < End}

(* As long as the ratio leaves a sample between the two ends, summary_stats *)
(* reads inside the buffer and does not divide by zero.                     *)
StatsDefined == stage \in {"divided", "outside"} => 2 * idx >= max_iter

(* The mean that is printed lies between the smallest and the largest      *)
(* sample that was kept: the accumulator is wide enough for any number of  *)
(* samples.                                                                *)
MeanInRange ==
    stage \in {"squares", "printed"} =>
      /\ \E k \in Kept : rtts[k] <= mean
      /\ \E k \in Kept : mean <= rtts[k]

=============================================================================
