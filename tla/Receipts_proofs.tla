--------------------------- MODULE Receipts_proofs ---------------------------
(***************************************************************************)
(* Proofs about Receipts, for any number of campuses, printers, orders,    *)
(* prints and days: the types, and that a number of the day is of one      *)
(* order.  A number lives on after it is taken, in a print under way, in   *)
(* the order's row and on paper (Holds); each such number is within what   *)
(* the campus has given out on that day, so the next one is new.           *)
(***************************************************************************)
EXTENDS Receipts, TLAPS

USE ReceiptsAssumption

PrintRow == [pc : {"new", "number", "keep", "send", "ended"}, of : Slips \cup {"none"},
             to : Binding, seq : Number, copy : 1..(MaxCopies + 1)]

\* A print that has begun is of an order that has been sold, and has at least
\* one more copy to send until it ends.
PrintsBegun ==
  \A p \in Prints :
    /\ print[p].pc # "new" => print[p].of \in Slips /\ soldAt[print[p].of] \in PrintSites
    /\ print[p].pc \in {"new", "number", "keep"} => print[p].copy = 1
    /\ print[p].pc = "send" => print[p].copy <= print[p].to.copies

PrintsTyped == ReceiptsTypeOK /\ PrintsBegun

LEMMA BlankPrint == NoPrint \in PrintRow /\ Unbound \in Binding /\ NoNumber \in Number
BY DEF NoPrint, PrintRow, Unbound, Binding, NoNumber, Number, NoTerminal, EnvTerminal

\* The row of a print that has sent a copy.
LEMMA NextRow ==
  ASSUME NEW old \in PrintRow, old.copy \in 1..MaxCopies, old.to.copies \in 1..MaxCopies,
         old.copy <= old.to.copies,
         NEW row, row = [old EXCEPT !.copy = old.copy + 1,
                                    !.pc = IF old.copy = old.to.copies THEN "ended" ELSE "send"]
  PROVE  row \in PrintRow /\ (row.pc = "send" => row.copy <= row.to.copies)
<1>1. row = [pc |-> IF old.copy = old.to.copies THEN "ended" ELSE "send", of |-> old.of,
             to |-> old.to, seq |-> old.seq, copy |-> old.copy + 1]
  BY DEF PrintRow
<1>2. old.copy + 1 \in 1..(MaxCopies + 1)
  OBVIOUS
<1>3. row \in PrintRow
  BY <1>1, <1>2 DEF PrintRow
<1>4. CASE old.copy = old.to.copies
  BY <1>1, <1>3, <1>4
<1>5. CASE old.copy # old.to.copies
  BY <1>1, <1>3, <1>5
<1>6. QED
  BY <1>4, <1>5

\* A row of a print that changes keeps the types if the new row is in order.
LEMMA PrintSteps ==
  ASSUME PrintsTyped, NEW p \in Prints, NEW row \in PrintRow, print' = [print EXCEPT ![p] = row],
         soldAt' \in [Slips -> PrintSites \cup {"none"}],
         \A o \in Slips : soldAt[o] \in PrintSites => soldAt'[o] = soldAt[o],
         row.pc # "new" => row.of \in Slips /\ soldAt'[row.of] \in PrintSites,
         row.pc \in {"new", "number", "keep"} => row.copy = 1,
         row.pc = "send" => row.copy <= row.to.copies
  PROVE  print' \in [Prints -> PrintRow] /\ PrintsBegun'
<1>1. print' \in [Prints -> PrintRow]
  BY DEF PrintsTyped, ReceiptsTypeOK, PrintRow
<1>2. print'[p] = row /\ \A q \in Prints \ {p} : print'[q] = print[q]
  BY DEF PrintsTyped, ReceiptsTypeOK
<1>3. PrintsBegun'
  BY <1>2 DEF PrintsTyped, PrintsBegun
<1>4. QED
  BY <1>1, <1>3

\* The row of a print that begins.
FirstRow(o, to) == [pc |-> "number", of |-> o, to |-> to, seq |-> dailySeq[o], copy |-> 1]

LEMMA FirstRowTyped ==
  ASSUME PrintsTyped, NEW o \in Slips, NEW to \in Binding
  PROVE  FirstRow(o, to) \in PrintRow
<1>1. 1 \in 1..(MaxCopies + 1)
  OBVIOUS
<1>2. QED
  BY <1>1 DEF FirstRow, PrintRow, PrintsTyped, ReceiptsTypeOK

LEMMA BeginsTyped ==
  ASSUME PrintsTyped, NEW p \in Prints, NEW o \in Slips, NEW to \in Binding, BeginPrint(p, o, to),
         soldAt' \in [Slips -> PrintSites \cup {"none"}], soldAt'[o] \in PrintSites,
         \A q \in Slips : soldAt[q] \in PrintSites => soldAt'[q] = soldAt[q]
  PROVE  print' \in [Prints -> PrintRow] /\ PrintsBegun'
<1>1. print' = [print EXCEPT ![p] = FirstRow(o, to)]
  BY DEF BeginPrint, FirstRow
<1>2. FirstRow(o, to).pc = "number" /\ FirstRow(o, to).of = o /\ FirstRow(o, to).copy = 1
  BY DEF FirstRow
<1>3. QED
  BY <1>1, <1>2, FirstRowTyped, PrintSteps

LEMMA PrintsTypedSteps == PrintsTyped /\ [ReceiptsNext]_receiptVars => PrintsTyped'
<1> SUFFICES ASSUME PrintsTyped, [ReceiptsNext]_receiptVars PROVE PrintsTyped'
  OBVIOUS
<1>1. CASE UNCHANGED receiptVars
  BY <1>1 DEF receiptVars, PrintsTyped, ReceiptsTypeOK, PrintsBegun
<1>2. CASE DayPasses
  BY <1>2 DEF DayPasses, PrintsTyped, ReceiptsTypeOK, PrintsBegun
<1>3. ASSUME NEW c \in PrintSites, UnbindPrinter(c) PROVE PrintsTyped'
  BY <1>3, BlankPrint DEF UnbindPrinter, PrintsTyped, ReceiptsTypeOK, PrintsBegun
<1>4. ASSUME NEW c \in PrintSites, NEW sn \in Terminals, NEW copies \in 1..MaxCopies, NEW gap \in BOOLEAN,
             BindPrinter(c, sn, copies, gap)
      PROVE  PrintsTyped'
  BY <1>4 DEF BindPrinter, Binding, PrintsTyped, ReceiptsTypeOK, PrintsBegun
<1>5. ASSUME NEW p \in Prints, NEW o \in Slips, NEW c \in PrintSites, PrintReceipt(p, o, c) PROVE PrintsTyped'
  <2>1. PICK to \in Binding : BeginPrint(p, o, to)
    BY <1>5 DEF PrintReceipt, Unbound, Binding, PrintsTyped, ReceiptsTypeOK
  <2>2. /\ soldAt' \in [Slips -> PrintSites \cup {"none"}] /\ soldAt'[o] \in PrintSites
        /\ \A q \in Slips : soldAt[q] \in PrintSites => soldAt'[q] = soldAt[q]
    BY <1>5 DEF PrintReceipt, PrintsTyped, ReceiptsTypeOK
  <2>3. print' \in [Prints -> PrintRow] /\ PrintsBegun'
    BY <2>1, <2>2, BeginsTyped
  <2>4. QED
    BY <1>5, <2>2, <2>3 DEF PrintReceipt, PrintsTyped, ReceiptsTypeOK, PrintRow
<1>6. ASSUME NEW p \in Prints, NEW o \in Slips, ReprintReceipt(p, o) PROVE PrintsTyped'
  <2>1. PICK to \in Binding : BeginPrint(p, o, to)
    BY <1>6 DEF ReprintReceipt, PrintsTyped, ReceiptsTypeOK
  <2>2. soldAt[o] \in PrintSites /\ soldAt' = soldAt
    BY <1>6 DEF ReprintReceipt
  <2>3. print' \in [Prints -> PrintRow] /\ PrintsBegun'
    BY <2>1, <2>2, BeginsTyped DEF PrintsTyped, ReceiptsTypeOK
  <2>4. QED
    BY <1>6, <2>3 DEF ReprintReceipt, PrintsTyped, ReceiptsTypeOK, PrintRow
<1>7. ASSUME NEW p \in Prints, TakeNumber(p) \/ KeepNumber(p) \/ SendAtOnce(p) \/ SendCopy(p)
      PROVE  PrintsTyped'
  <2> DEFINE old == print[p]
             c == soldAt[old.of]
             fresh == [no |-> NextNumber(c, printDay), day |-> printDay]
  <2>1. /\ old \in PrintRow /\ old.of \in Slips /\ c \in PrintSites
        /\ old.pc \in {"number", "keep"} => old.copy = 1
        /\ old.pc = "send" => old.copy <= old.to.copies
    BY <1>7 DEF TakeNumber, KeepNumber, SendAtOnce, SendCopy, PrintsTyped, ReceiptsTypeOK, PrintsBegun, PrintRow
  <2>2. /\ old.to \in Binding /\ old.to.copies \in 1..MaxCopies /\ old.seq \in Number
        /\ old.copy \in 1..(MaxCopies + 1)
    BY <2>1 DEF PrintRow, Binding
  <2>3. lastNumber[c][printDay] \in Nat /\ fresh \in Number
    BY SMTT(30), <2>1 DEF NextNumber, Number, PrintsTyped, ReceiptsTypeOK
  <2>4. CASE TakeNumber(p)
    <3>1. CASE old.seq = NoNumber
      <4> DEFINE row == [old EXCEPT !.pc = "keep", !.seq = fresh]
      <4>1. row \in PrintRow /\ row.pc = "keep" /\ row.of = old.of /\ row.copy = 1
        BY <2>1, <2>3, <2>4 DEF TakeNumber, PrintRow
      <4>2. print' = [print EXCEPT ![p] = row] /\ soldAt' = soldAt
        BY <2>4, <3>1 DEF TakeNumber
      <4>3. lastNumber' = [lastNumber EXCEPT ![c] = [@ EXCEPT ![printDay] = NextNumber(c, printDay)]]
        BY <2>4, <3>1 DEF TakeNumber
      <4>4. lastNumber' \in [PrintSites -> [0..LastDay -> Nat]]
        BY <2>1, <2>3, <4>3 DEF NextNumber, PrintsTyped, ReceiptsTypeOK
      <4> HIDE DEF row, old, c, fresh
      <4>5. print' \in [Prints -> PrintRow] /\ PrintsBegun'
        BY <2>1, <4>1, <4>2, PrintSteps DEF PrintsTyped, ReceiptsTypeOK, c
      <4>6. QED
        BY <2>4, <4>4, <4>5 DEF TakeNumber, PrintsTyped, ReceiptsTypeOK, PrintRow
    <3>2. CASE old.seq # NoNumber
      <4> DEFINE row == [old EXCEPT !.pc = "send"]
      <4>1. row \in PrintRow /\ row.pc = "send" /\ row.of = old.of /\ row.copy <= row.to.copies
        BY <2>1, <2>2, <2>4 DEF TakeNumber, PrintRow
      <4>2. print' = [print EXCEPT ![p] = row] /\ soldAt' = soldAt
        BY <2>4, <3>2 DEF TakeNumber
      <4> HIDE DEF row, old
      <4>3. print' \in [Prints -> PrintRow] /\ PrintsBegun'
        BY <2>1, <4>1, <4>2, PrintSteps DEF PrintsTyped, ReceiptsTypeOK
      <4>4. QED
        BY <2>4, <3>2, <4>3 DEF TakeNumber, PrintsTyped, ReceiptsTypeOK, PrintRow, old
    <3>3. QED
      BY <3>1, <3>2
  <2>5. CASE KeepNumber(p)
    <3> DEFINE row == [old EXCEPT !.pc = "send"]
    <3>1. row \in PrintRow /\ row.pc = "send" /\ row.of = old.of /\ row.copy <= row.to.copies
      BY <2>1, <2>2, <2>5 DEF KeepNumber, PrintRow
    <3>2. print' = [print EXCEPT ![p] = row] /\ soldAt' = soldAt
      BY <2>5 DEF KeepNumber
    <3>3. dailySeq' \in [Slips -> Number]
      BY <2>2, <2>5 DEF KeepNumber, PrintsTyped, ReceiptsTypeOK
    <3> HIDE DEF row, old
    <3>4. print' \in [Prints -> PrintRow] /\ PrintsBegun'
      BY <2>1, <3>1, <3>2, PrintSteps DEF PrintsTyped, ReceiptsTypeOK
    <3>5. QED
      BY <2>5, <3>3, <3>4 DEF KeepNumber, PrintsTyped, ReceiptsTypeOK, PrintRow
  <2>6. ASSUME NEW k \in 1..MaxCopies PROVE Sheet(p, k) \in [of : Slips, seq : Number, copy : 1..MaxCopies]
    BY <2>1, <2>2, BlankPrint DEF Sheet
  <2>7. CASE SendAtOnce(p)
    <3> DEFINE row == [old EXCEPT !.pc = "ended"]
    <3>1. row \in PrintRow /\ row.pc = "ended" /\ row.of = old.of
      BY <2>1 DEF PrintRow
    <3>2. print' = [print EXCEPT ![p] = row] /\ soldAt' = soldAt
      BY <2>7 DEF SendAtOnce
    <3>3. paper' \subseteq [of : Slips, seq : Number, copy : 1..MaxCopies]
      BY <2>2, <2>6, <2>7 DEF SendAtOnce, Sent, PrintsTyped, ReceiptsTypeOK
    <3> HIDE DEF row, old
    <3>4. print' \in [Prints -> PrintRow] /\ PrintsBegun'
      BY <2>1, <3>1, <3>2, PrintSteps DEF PrintsTyped, ReceiptsTypeOK
    <3>5. QED
      BY <2>7, <3>3, <3>4 DEF SendAtOnce, PrintsTyped, ReceiptsTypeOK, PrintRow
  <2>8. CASE SendCopy(p)
    <3> DEFINE row == [old EXCEPT !.copy = old.copy + 1,
                                  !.pc = IF old.copy = old.to.copies THEN "ended" ELSE "send"]
    <3>1. old.copy \in 1..MaxCopies /\ old.copy <= old.to.copies
      BY <2>1, <2>2, <2>8 DEF SendCopy
    <3>2. row.pc \in {"ended", "send"} /\ row.of = old.of /\ row.to = old.to /\ row.copy = old.copy + 1
      BY <2>1 DEF PrintRow
    <3>3. row \in PrintRow /\ (row.pc = "send" => row.copy <= row.to.copies)
      BY <2>1, <2>2, <3>1, NextRow
    <3>4. print' = [print EXCEPT ![p] = row] /\ soldAt' = soldAt
      BY <2>8 DEF SendCopy
    <3>5. paper' \subseteq [of : Slips, seq : Number, copy : 1..MaxCopies]
      BY <2>6, <2>8, <3>1 DEF SendCopy, Sent, PrintsTyped, ReceiptsTypeOK
    <3> HIDE DEF row, old
    <3>6. print' \in [Prints -> PrintRow] /\ PrintsBegun'
      BY <2>1, <3>2, <3>3, <3>4, PrintSteps DEF PrintsTyped, ReceiptsTypeOK
    <3>7. QED
      BY <2>8, <3>5, <3>6 DEF SendCopy, PrintsTyped, ReceiptsTypeOK, PrintRow
  <2>9. QED
    BY <1>7, <2>4, <2>5, <2>7, <2>8
<1>8. QED
  BY <1>1, <1>2, <1>3, <1>4, <1>5, <1>6, <1>7 DEF ReceiptsNext

LEMMA PrintsStartTyped == ReceiptsInit => PrintsTyped
BY BlankPrint DEF ReceiptsInit, PrintsTyped, ReceiptsTypeOK, PrintsBegun, NoPrint, PrintRow, Binding, Number

-----------------------------------------------------------------------------
(* The numbers of the day *)

\* A number that an order's row, a print under way or a receipt has of order o.
Holds(o, n) ==
  /\ n # NoNumber
  /\ \/ dailySeq[o] = n
     \/ \E p \in Prints : print[p].of = o /\ print[p].seq = n
     \/ \E s \in paper : s.of = o /\ s.seq = n

Given == \A o \in Slips, n \in Number :
           Holds(o, n) => soldAt[o] \in PrintSites /\ n.no <= lastNumber[soldAt[o]][n.day]

OneHolder == \A o, q \in Slips, n \in Number :
               Holds(o, n) /\ Holds(q, n) /\ soldAt[o] = soldAt[q] => o = q

\* What is past the number has one.
Numbered == /\ \A p \in Prints : print[p].pc \in {"keep", "send"} => print[p].seq # NoNumber
            /\ \A s \in paper : s.copy = 1 => s.seq # NoNumber

Counted == PrintsTyped /\ Given /\ OneHolder /\ Numbered

\* Where nobody gets a number, the numbers stay in order.
LEMMA NoNewHolder ==
  ASSUME Counted, UNCHANGED lastNumber,
         \A o \in Slips : soldAt[o] \in PrintSites => soldAt'[o] = soldAt[o],
         \A o \in Slips, n \in Number : Holds(o, n)' => Holds(o, n)
  PROVE  Given' /\ OneHolder'
BY DEF Counted, Given, OneHolder

\* The next number of the day is of the order that takes it.
LEMMA NewHolder ==
  ASSUME Counted, NEW q \in Slips, soldAt[q] \in PrintSites, UNCHANGED soldAt,
         NEW n, n = [no |-> NextNumber(soldAt[q], printDay), day |-> printDay],
         lastNumber' = [lastNumber EXCEPT ![soldAt[q]] = [@ EXCEPT ![printDay] = NextNumber(soldAt[q], printDay)]],
         \A o \in Slips, m \in Number : Holds(o, m)' => Holds(o, m) \/ (o = q /\ m = n)
  PROVE  Given' /\ OneHolder'
<1> DEFINE c == soldAt[q]
<1>1. lastNumber[c][printDay] \in Nat /\ printDay \in 0..LastDay
  BY DEF Counted, PrintsTyped, ReceiptsTypeOK
<1>2. /\ lastNumber'[c][printDay] = lastNumber[c][printDay] + 1 /\ n.no = lastNumber[c][printDay] + 1
      /\ n.day = printDay
      /\ \A e \in PrintSites, d \in 0..LastDay : e # c \/ d # printDay => lastNumber'[e][d] = lastNumber[e][d]
  BY DEF NextNumber, Counted, PrintsTyped, ReceiptsTypeOK
<1>3. Given'
  <2> SUFFICES ASSUME NEW o \in Slips, NEW m \in Number, Holds(o, m)'
               PROVE  soldAt'[o] \in PrintSites /\ m.no <= lastNumber'[soldAt'[o]][m.day]
    BY DEF Given
  <2>1. CASE Holds(o, m)
    <3>1. soldAt[o] \in PrintSites /\ m.no <= lastNumber[soldAt[o]][m.day]
      BY <2>1 DEF Counted, Given
    <3>2. m.no \in Nat /\ m.day \in 0..LastDay
      BY DEF Number
    <3>3. lastNumber[soldAt[o]][m.day] \in Nat
      BY <3>1, <3>2 DEF Counted, PrintsTyped, ReceiptsTypeOK
    <3>4. lastNumber[soldAt[o]][m.day] <= lastNumber'[soldAt[o]][m.day]
      BY <1>1, <1>2, <3>1, <3>2, <3>3
    <3>5. lastNumber'[soldAt[o]][m.day] \in Nat
      BY <1>1, <1>2, <3>1, <3>2, <3>3
    <3>6. QED
      BY <3>1, <3>2, <3>3, <3>4, <3>5
  <2>2. CASE o = q /\ m = n
    BY <1>1, <1>2, <2>2
  <2>3. QED
    BY <2>1, <2>2
<1>4. \A o \in Slips : soldAt[o] = c => ~Holds(o, n)
  <2>1. n \in Number
    BY <1>1, <1>2 DEF NextNumber, Number
  <2>2. ~(n.no <= lastNumber[c][n.day])
    BY <1>1, <1>2
  <2>3. QED
    BY <2>1, <2>2 DEF Counted, Given
<1>5. OneHolder'
  BY <1>4 DEF OneHolder, Counted
<1>6. QED
  BY <1>3, <1>5

\* A receipt that goes out bears the number of its print.
LEMMA NumberOnPaper ==
  ASSUME PrintsTyped, NEW p \in Prints, NEW copies \in SUBSET (1..MaxCopies),
         print[p].seq # NoNumber, Numbered, Sent({Sheet(p, k) : k \in copies})
  PROVE  /\ \A s \in paper' : s.copy = 1 => s.seq # NoNumber
         /\ \A o \in Slips, n \in Number :
              n # NoNumber /\ (\E s \in paper' : s.of = o /\ s.seq = n) => Holds(o, n)
<1>1. ASSUME NEW s \in paper' PROVE
        /\ s.copy = 1 => s.seq # NoNumber
        /\ s \in paper \/ (s.of = print[p].of /\ s.seq \in {print[p].seq, NoNumber})
  BY <1>1 DEF Sent, Sheet, Numbered
<1>2. QED
  BY <1>1 DEF Holds

LEMMA CountedSteps == Counted /\ [ReceiptsNext]_receiptVars => Counted'
<1> SUFFICES ASSUME Counted, [ReceiptsNext]_receiptVars PROVE Counted'
  OBVIOUS
<1>1. PrintsTyped'
  BY PrintsTypedSteps DEF Counted
<1>2. CASE UNCHANGED <<soldAt, lastNumber, dailySeq, print, paper>>
  <2>1. \A o \in Slips, n \in Number : Holds(o, n)' => Holds(o, n)
    BY <1>2 DEF Holds
  <2>2. QED
    BY <1>1, <1>2, <2>1, NoNewHolder DEF Counted, Numbered
<1>3. ASSUME NEW p \in Prints, NEW o \in Slips, NEW to, BeginPrint(p, o, to),
             UNCHANGED <<lastNumber, dailySeq, paper>>,
             \A q \in Slips : soldAt[q] \in PrintSites => soldAt'[q] = soldAt[q]
      PROVE  Counted'
  <2>1. /\ print'[p].pc = "number" /\ print'[p].of = o /\ print'[p].seq = dailySeq[o]
        /\ \A q \in Prints \ {p} : print'[q] = print[q]
    BY <1>3 DEF BeginPrint, NoPrint, Counted, PrintsTyped, ReceiptsTypeOK
  <2>2. \A q \in Slips, n \in Number : Holds(q, n)' => Holds(q, n)
    BY <1>3, <2>1 DEF Holds
  <2>3. Numbered'
    BY <1>3, <2>1 DEF Counted, Numbered
  <2>4. QED
    BY <1>1, <1>3, <2>2, <2>3, NoNewHolder DEF Counted
<1>4. ASSUME NEW p \in Prints, NEW o \in Slips, NEW c \in PrintSites, PrintReceipt(p, o, c) PROVE Counted'
  <2>1. \A q \in Slips : soldAt[q] \in PrintSites => soldAt'[q] = soldAt[q]
    BY <1>4 DEF PrintReceipt, Counted, PrintsTyped, ReceiptsTypeOK
  <2>2. QED
    BY <1>3, <1>4, <2>1 DEF PrintReceipt
<1>5. ASSUME NEW p \in Prints, NEW o \in Slips, ReprintReceipt(p, o) PROVE Counted'
  BY <1>3, <1>5 DEF ReprintReceipt
<1>6. ASSUME NEW p \in Prints, TakeNumber(p) PROVE Counted'
  <2> DEFINE q == print[p].of
  <2>1. q \in Slips /\ soldAt[q] \in PrintSites
    BY <1>6 DEF TakeNumber, Counted, PrintsTyped, PrintsBegun
  <2>2. CASE print[p].seq = NoNumber
    <3> DEFINE n == [no |-> NextNumber(soldAt[q], printDay), day |-> printDay]
    <3>1. /\ print'[p].of = q /\ print'[p].seq = n
          /\ \A r \in Prints \ {p} : print'[r] = print[r]
      BY <1>6, <2>2 DEF TakeNumber, Counted, PrintsTyped, ReceiptsTypeOK
    <3>2. n.no = lastNumber[soldAt[q]][printDay] + 1 /\ lastNumber[soldAt[q]][printDay] \in Nat
      BY <2>1 DEF NextNumber, Counted, PrintsTyped, ReceiptsTypeOK
    <3>3. n # NoNumber
      BY <3>2 DEF NoNumber
    <3>4. lastNumber' = [lastNumber EXCEPT ![soldAt[q]] = [@ EXCEPT ![printDay] = NextNumber(soldAt[q], printDay)]]
      BY <1>6, <2>2 DEF TakeNumber
    <3>5. UNCHANGED <<soldAt, dailySeq, paper>>
      BY <1>6 DEF TakeNumber
    <3> HIDE DEF n
    <3>6. \A o \in Slips, m \in Number : Holds(o, m)' => Holds(o, m) \/ (o = q /\ m = n)
      BY <3>1, <3>5 DEF Holds
    <3>7. Given' /\ OneHolder'
      BY <2>1, <3>4, <3>5, <3>6, NewHolder DEF n
    <3>8. Numbered'
      BY <3>1, <3>3, <3>5 DEF Counted, Numbered
    <3>9. QED
      BY <1>1, <3>7, <3>8 DEF Counted
  <2>3. CASE print[p].seq # NoNumber
    <3>1. /\ print'[p].of = q /\ print'[p].seq = print[p].seq
          /\ \A r \in Prints \ {p} : print'[r] = print[r]
      BY <1>6, <2>3 DEF TakeNumber, Counted, PrintsTyped, ReceiptsTypeOK
    <3>2. UNCHANGED <<soldAt, lastNumber, dailySeq, paper>>
      BY <1>6, <2>3 DEF TakeNumber
    <3>3. \A o \in Slips, m \in Number : Holds(o, m)' => Holds(o, m)
      BY <3>1, <3>2 DEF Holds
    <3>4. Numbered'
      BY <2>3, <3>1, <3>2 DEF Counted, Numbered
    <3>5. QED
      BY <1>1, <3>2, <3>3, <3>4, NoNewHolder DEF Counted
  <2>4. QED
    BY <2>2, <2>3
<1>7. ASSUME NEW p \in Prints, KeepNumber(p) PROVE Counted'
  <2>1. print[p].of \in Slips /\ print[p].seq # NoNumber
    BY <1>7 DEF KeepNumber, Counted, PrintsTyped, PrintsBegun, Numbered
  <2>2. /\ print'[p].of = print[p].of /\ print'[p].seq = print[p].seq
        /\ \A r \in Prints \ {p} : print'[r] = print[r]
    BY <1>7 DEF KeepNumber, Counted, PrintsTyped, ReceiptsTypeOK
  <2>3. \A o \in Slips : dailySeq'[o] = dailySeq[o] \/ (o = print[p].of /\ dailySeq'[o] = print[p].seq)
    BY <1>7 DEF KeepNumber, Counted, PrintsTyped, ReceiptsTypeOK
  <2>4. UNCHANGED <<soldAt, lastNumber, paper>>
    BY <1>7 DEF KeepNumber
  <2>5. \A o \in Slips, m \in Number : Holds(o, m)' => Holds(o, m)
    BY <2>2, <2>3, <2>4 DEF Holds
  <2>6. Numbered'
    BY <2>1, <2>2, <2>4 DEF Counted, Numbered
  <2>7. QED
    BY <1>1, <2>4, <2>5, <2>6, NoNewHolder DEF Counted
<1>8. ASSUME NEW p \in Prints, SendAtOnce(p) \/ SendCopy(p) PROVE Counted'
  <2>1. PICK copies \in SUBSET (1..MaxCopies) : Sent({Sheet(p, k) : k \in copies})
    <3>1. CASE SendAtOnce(p)
      <4>1. 1..print[p].to.copies \in SUBSET (1..MaxCopies)
        BY DEF Counted, PrintsTyped, ReceiptsTypeOK, Binding
      <4>2. QED
        BY <3>1, <4>1 DEF SendAtOnce
    <3>2. CASE SendCopy(p)
      <4>1. print[p].copy \in 1..MaxCopies
        <5>1. print[p].copy \in 1..(MaxCopies + 1) /\ print[p].to.copies \in 1..MaxCopies
          BY DEF Counted, PrintsTyped, ReceiptsTypeOK, Binding
        <5>2. print[p].copy <= print[p].to.copies
          BY <3>2 DEF SendCopy, Counted, PrintsTyped, PrintsBegun
        <5>3. QED
          BY <5>1, <5>2
      <4>2. {Sheet(p, k) : k \in {print[p].copy}} = {Sheet(p, print[p].copy)}
        OBVIOUS
      <4>3. QED
        BY <3>2, <4>1, <4>2 DEF SendCopy
    <3>3. QED
      BY <1>8, <3>1, <3>2
  <2>2. print[p].seq # NoNumber
    BY <1>8 DEF SendAtOnce, SendCopy, Counted, Numbered
  <2>3. /\ print'[p].of = print[p].of /\ print'[p].seq = print[p].seq
        /\ \A r \in Prints \ {p} : print'[r] = print[r]
    BY <1>8 DEF SendAtOnce, SendCopy, Counted, PrintsTyped, ReceiptsTypeOK
  <2>4. UNCHANGED <<soldAt, lastNumber, dailySeq>>
    BY <1>8 DEF SendAtOnce, SendCopy
  <2>5. /\ \A s \in paper' : s.copy = 1 => s.seq # NoNumber
        /\ \A o \in Slips, n \in Number :
             n # NoNumber /\ (\E s \in paper' : s.of = o /\ s.seq = n) => Holds(o, n)
    BY <2>1, <2>2, NumberOnPaper DEF Counted
  <2>6. \A o \in Slips, m \in Number : Holds(o, m)' => Holds(o, m)
    BY <2>3, <2>4, <2>5 DEF Holds
  <2>7. Numbered'
    BY <2>2, <2>3, <2>5 DEF Counted, Numbered
  <2>8. QED
    BY <1>1, <2>4, <2>6, <2>7, NoNewHolder DEF Counted
<1>9. CASE DayPasses \/ \E c \in PrintSites :
             \/ UnbindPrinter(c)
             \/ \E sn \in Terminals, copies \in 1..MaxCopies, gap \in BOOLEAN : BindPrinter(c, sn, copies, gap)
  BY <1>2, <1>9 DEF DayPasses, UnbindPrinter, BindPrinter
<1>10. QED
  BY <1>2, <1>4, <1>5, <1>6, <1>7, <1>8, <1>9 DEF ReceiptsNext, receiptVars

\* The types hold, and a print never sends more copies than there are.
THEOREM ReceiptTypesHold == ReceiptsSpec => []ReceiptsTypeOK
<1>1. PrintsTyped => ReceiptsTypeOK
  BY DEF PrintsTyped
<1>2. QED
  BY <1>1, PrintsStartTyped, PrintsTypedSteps, PTL DEF ReceiptsSpec

\* A number that a campus gives out on a day is on the receipts of one order.
THEOREM NumbersAreOfOneOrder == ReceiptsSpec => []NumbersDiffer
<1>1. ReceiptsInit => Counted
  BY PrintsStartTyped DEF ReceiptsInit, Counted, Given, OneHolder, Holds, Numbered, NoPrint
<1>2. Counted => NumbersDiffer
  <2> SUFFICES ASSUME Counted, NEW s \in paper, NEW t \in paper, s.copy = 1, t.copy = 1,
                      s.seq = t.seq, soldAt[s.of] = soldAt[t.of]
               PROVE  s.of = t.of
    BY DEF NumbersDiffer
  <2>1. s.of \in Slips /\ t.of \in Slips /\ s.seq \in Number
    BY DEF Counted, PrintsTyped, ReceiptsTypeOK
  <2>2. Holds(s.of, s.seq) /\ Holds(t.of, s.seq)
    BY DEF Counted, Numbered, Holds
  <2>3. QED
    BY <2>1, <2>2 DEF Counted, OneHolder
<1>3. QED
  BY <1>1, <1>2, CountedSteps, PTL DEF ReceiptsSpec
=============================================================================
