------------------------------- MODULE Receipts -------------------------------
(***************************************************************************)
(* The receipts of paid orders: the cloud printer of each campus, the      *)
(* number of the day that the warehouse sorts by, and the printing of one  *)
(* to three copies.  A print is asked for by the payment or by a clerk and *)
(* runs beside everything else: the terminal and the order's number are    *)
(* read first, the number is taken and written back, then copies are sent. *)
(* What the copies look like is left out but for the number on the first.  *)
(***************************************************************************)
EXTENDS Naturals

CONSTANTS
  PrintSites,      \* campuses
  Terminals,       \* serial numbers of printers
  Slips,           \* orders
  Prints,          \* calls of printReceiptFor and reprintReceipt
  LastDay,         \* bound on the days
  MaxCopies        \* copies of a receipt: COPY_LABELS has 3

ASSUME ReceiptsAssumption == /\ LastDay \in Nat /\ MaxCopies \in 1..3
                             /\ "none" \notin PrintSites \cup Slips

NoTerminal == "none"    \* no row of Printer
EnvTerminal == "env"    \* XPYUN_PRINTER_SN
NoNumber == [no |-> 0, day |-> 0]    \* Order.dailySeq is null

VARIABLES
  bound,           \* Printer, by campus
  soldAt,          \* the campus of an order, or "none" until it is paid
  printDay,
  lastNumber,      \* CampusDailySeq
  dailySeq,        \* Order.dailySeq, and the day it is of, which no row holds
  print,           \* the prints under way
  paper            \* the copies that came out

receiptVars == <<bound, soldAt, printDay, lastNumber, dailySeq, print, paper>>

Unbound == [sn |-> NoTerminal, copies |-> 1, gap |-> FALSE]
Binding == [sn : Terminals \cup {NoTerminal, EnvTerminal}, copies : 1..MaxCopies, gap : BOOLEAN]
Number == [no : Nat, day : 0..LastDay]
NoPrint == [pc |-> "new", of |-> "none", to |-> Unbound, seq |-> NoNumber, copy |-> 1]

ReceiptsTypeOK ==
  /\ bound \in [PrintSites -> Binding]
  /\ soldAt \in [Slips -> PrintSites \cup {"none"}]
  /\ printDay \in 0..LastDay
  /\ lastNumber \in [PrintSites -> [0..LastDay -> Nat]]
  /\ dailySeq \in [Slips -> Number]
  /\ print \in [Prints -> [pc : {"new", "number", "keep", "send", "ended"}, of : Slips \cup {"none"},
                           to : Binding, seq : Number, copy : 1..(MaxCopies + 1)]]
  /\ paper \subseteq [of : Slips, seq : Number, copy : 1..MaxCopies]

ReceiptsInit ==
  /\ bound = [c \in PrintSites |-> Unbound]
  /\ soldAt = [o \in Slips |-> "none"]
  /\ printDay = 0
  /\ lastNumber = [c \in PrintSites |-> [d \in 0..LastDay |-> 0]]
  /\ dailySeq = [o \in Slips |-> NoNumber]
  /\ print = [p \in Prints |-> NoPrint]
  /\ paper = {}

-----------------------------------------------------------------------------
(* The printer of a campus *)

\* bindPrinter: one printer for a campus, one campus for a printer.
BindPrinter(c, sn, copies, gap) ==
  /\ \A e \in PrintSites \ {c} : bound[e].sn # sn
  /\ bound' = [bound EXCEPT ![c] = [sn |-> sn, copies |-> copies, gap |-> gap]]
  /\ UNCHANGED <<soldAt, printDay, lastNumber, dailySeq, print, paper>>

UnbindPrinter(c) ==
  /\ bound[c] # Unbound
  /\ bound' = [bound EXCEPT ![c] = Unbound]
  /\ UNCHANGED <<soldAt, printDay, lastNumber, dailySeq, print, paper>>

DayPasses ==
  /\ printDay < LastDay
  /\ printDay' = printDay + 1
  /\ UNCHANGED <<bound, soldAt, lastNumber, dailySeq, print, paper>>

-----------------------------------------------------------------------------
(* A print *)

BeginPrint(p, o, to) ==
  /\ print[p].pc = "new"
  /\ print' = [print EXCEPT ![p] = [pc |-> "number", of |-> o, to |-> to, seq |-> dailySeq[o], copy |-> 1]]

\* pay, printReceiptFor: the first print, to the campus's printer or else to
\* the one of the environment.
PrintReceipt(p, o, c) ==
  /\ soldAt[o] = "none"
  /\ soldAt' = [soldAt EXCEPT ![o] = c]
  /\ BeginPrint(p, o, IF bound[c] = Unbound THEN [Unbound EXCEPT !.sn = EnvTerminal] ELSE bound[c])
  /\ UNCHANGED <<bound, printDay, lastNumber, dailySeq, paper>>

\* reprintReceipt needs the campus's printer.
ReprintReceipt(p, o) ==
  /\ soldAt[o] \in PrintSites
  /\ bound[soldAt[o]] # Unbound
  /\ BeginPrint(p, o, bound[soldAt[o]])
  /\ UNCHANGED <<bound, soldAt, printDay, lastNumber, dailySeq, paper>>

\* INSERT ... ON CONFLICT DO UPDATE ... RETURNING.
NextNumberFirstOnly(c, d) == IF lastNumber[c][d] = 0 THEN 1 ELSE lastNumber[c][d]
NextNumber(c, d) == lastNumber[c][d] + 1

TakeNumber(p) ==
  LET c == soldAt[print[p].of] IN
  /\ print[p].pc = "number"
  /\ IF print[p].seq = NoNumber
     THEN /\ lastNumber' = [lastNumber EXCEPT ![c][printDay] = NextNumber(c, printDay)]
          /\ print' = [print EXCEPT ![p].pc = "keep",
                                    ![p].seq = [no |-> NextNumber(c, printDay), day |-> printDay]]
     ELSE /\ print' = [print EXCEPT ![p].pc = "send"]
          /\ UNCHANGED lastNumber
  /\ UNCHANGED <<bound, soldAt, printDay, dailySeq, paper>>

\* The number is written to the order; a failure of that is ignored.
KeepNumber(p) ==
  /\ print[p].pc = "keep"
  /\ dailySeq' \in {dailySeq, [dailySeq EXCEPT ![print[p].of] = print[p].seq]}
  /\ print' = [print EXCEPT ![p].pc = "send"]
  /\ UNCHANGED <<bound, soldAt, printDay, lastNumber, paper>>

\* A copy as buildReceipt makes it: the number is on the first one only.
Sheet(p, k) ==
  [of |-> print[p].of, copy |-> k, seq |-> IF k = 1 THEN print[p].seq ELSE NoNumber]

\* printRaw puts the request to the cloud, which takes it or does not.
Sent(sheets) == paper' \in {paper, paper \cup sheets}

\* Without a gap the copies are one request, which succeeds or fails.
SendAtOnce(p) ==
  /\ print[p].pc = "send" /\ (~print[p].to.gap \/ print[p].to.copies = 1)
  /\ Sent({Sheet(p, k) : k \in 1..print[p].to.copies})
  /\ print' = [print EXCEPT ![p].pc = "ended"]
  /\ UNCHANGED <<bound, soldAt, printDay, lastNumber, dailySeq>>

\* With a gap each copy is a request; the next is sent whatever became of it.
SendCopy(p) ==
  LET k == print[p].copy IN
  /\ print[p].pc = "send" /\ print[p].to.gap /\ print[p].to.copies > 1
  /\ Sent({Sheet(p, k)})
  /\ print' = [print EXCEPT ![p].copy = k + 1, ![p].pc = IF k = print[p].to.copies THEN "ended" ELSE "send"]
  /\ UNCHANGED <<bound, soldAt, printDay, lastNumber, dailySeq>>

-----------------------------------------------------------------------------

ReceiptsNext ==
  \/ DayPasses
  \/ \E c \in PrintSites :
       \/ UnbindPrinter(c)
       \/ \E sn \in Terminals, copies \in 1..MaxCopies, gap \in BOOLEAN : BindPrinter(c, sn, copies, gap)
  \/ \E p \in Prints :
       \/ \E o \in Slips, c \in PrintSites : PrintReceipt(p, o, c)
       \/ \E o \in Slips : ReprintReceipt(p, o)
       \/ TakeNumber(p) \/ KeepNumber(p) \/ SendAtOnce(p) \/ SendCopy(p)

ReceiptsSpec == ReceiptsInit /\ [][ReceiptsNext]_receiptVars

-----------------------------------------------------------------------------
(* Properties *)

\* On one campus, a number that was taken on a day is on the receipts of one
\* order only, however the prints of the day interleave and fail (the upsert
\* of CampusDailySeq in printOrderReceipt).
NumbersDiffer ==
  \A s, t \in paper :
    s.copy = 1 /\ t.copy = 1 /\ s.seq = t.seq /\ soldAt[s.of] = soldAt[t.of] => s.of = t.of

\* All the receipts of an order bear one number (reprintReceipt: "the same
\* order, the same number").  Two prints that both read the order without a
\* number break it, and so does a failure in KeepNumber; no run
\* checks it.
OneNumber ==
  \A s, t \in paper : s.of = t.of /\ s.copy = 1 /\ t.copy = 1 => s.seq = t.seq
=============================================================================
