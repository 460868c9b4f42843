------------------------------ MODULE Calendar ------------------------------
(***************************************************************************)
(* The beginnings of months that Calendar remembers (utils/cal.cpp).  The  *)
(* roll-up files are found by the beginning of their month, which          *)
(* timegm() is too slow to compute for every point; m_months holds the     *)
(* beginnings seen so far and grows at either end.  m_lock is held during  *)
(* each call.                                                              *)
(***************************************************************************)
EXTENDS Integers, Sequences, SequencesExt, FiniteSetsExt

CONSTANTS
  Starts,  \* the beginnings of the months, which differ in length
  Times,   \* times asked for
  Skip     \* longer than any month, shorter than any two (45 days)

VARIABLES
  m_months,
  answer     \* the last call and what it returned

calvars == <<m_months, answer>>

\* begin_month() and end_month() of utils.cpp, by timegm().
begin_month(ts) == Max({b \in Starts : b <= ts})
end_month(ts) == Min({b \in Starts : b > ts})

\* The loop of begin_month_of() and end_month_of(), from the newest month down:
\* a month is known when its end is known too.
Found(ts) == Max({0} \cup {i \in 1 .. Len(m_months) : m_months[i] <= ts})
IsKnown(ts) == Found(ts) \in 1 .. (Len(m_months) - 1)

\* Variant: the beginning of the next month is sought from that of this one.
LeapTwo(end, front) ==
  LET from[e \in Starts] == IF e < front THEN <<e>> \o from[begin_month(e + 2 * Skip)] ELSE <<>>
  IN  from[end]

\* The months between a new one and those known after it.
MonthsBefore(end, front) ==
  LET from[e \in Starts] == IF e < front THEN <<e>> \o from[begin_month(e + Skip)] ELSE <<>>
  IN  from[end]

\* The months between the last one known and a new one after it.
MonthsAfter(back, begin) ==
  LET from[b \in Starts] == IF b < begin THEN <<end_month(b)>> \o from[end_month(b)] ELSE <<>>
  IN  from[back]

\* The months with that of ts, and the place of its beginning.
add_month(ts) ==
  LET begin == begin_month(ts)
      end == end_month(ts)
      longer == m_months \o MonthsAfter(Last(m_months), begin) \o <<end>>
  IN  CASE m_months = <<>> -> [months |-> <<begin, end>>, n |-> 1]
        [] m_months # <<>> /\ Last(m_months) <= begin -> [months |-> longer, n |-> Len(longer) - 1]
        [] m_months # <<>> /\ Last(m_months) > begin ->
             [months |-> <<begin>> \o MonthsBefore(end, Head(m_months)) \o m_months, n |-> 1]

Grown(ts) == IF IsKnown(ts) THEN [months |-> m_months, n |-> Found(ts)] ELSE add_month(ts)

begin_month_of(ts) ==
  /\ m_months' = Grown(ts).months
  /\ answer' = [of |-> "begin", ts |-> ts, is |-> Grown(ts).months[Grown(ts).n]]

end_month_of(ts) ==
  /\ m_months' = Grown(ts).months
  /\ answer' = [of |-> "end", ts |-> ts, is |-> Grown(ts).months[Grown(ts).n + 1]]

CalInit == m_months = <<>> /\ answer = <<>>
CalNext == \E ts \in Times : begin_month_of(ts) \/ end_month_of(ts)
CalSpec == CalInit /\ [][CalNext]_calvars

-----------------------------------------------------------------------------
(* Properties *)

\* Whatever months were asked for before, and in whichever order, a call returns
\* what timegm() would, and m_months has no gap and nothing twice: a month missing
\* from it would send points of that month to the roll-up file of the one before.
MonthsAreExact ==
  /\ answer # <<>> =>
       answer.is = IF answer.of = "begin" THEN begin_month(answer.ts) ELSE end_month(answer.ts)
  /\ \A i \in 1 .. (Len(m_months) - 1) : m_months[i + 1] = end_month(m_months[i])
=============================================================================
