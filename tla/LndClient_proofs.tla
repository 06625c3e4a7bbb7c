---------------------------- MODULE LndClient_proofs ----------------------------
(***************************************************************************)
(* What holds of a request for every text that lnd may send, cut into      *)
(* chunks of any size, and wherever it breaks off.                         *)
(***************************************************************************)
EXTENDS LndClient, Selection_proofs

\* What the flag of a stream stands for: its end has been reported or its caller has closed it,
\* and never both.
Accounted ==
    /\ ended \in BOOLEAN /\ quit \in BOOLEAN
    /\ reports = IF ended /\ ~quit THEN 1 ELSE 0
    /\ quit => ended

\* A promise that settles is no matter of the stream's.
LEMMA SettleKeeps == ASSUME Accounted, NEW how, Settle(how) PROVE Accounted'
  BY DEF Accounted, Settle

\* end() reports unless it has.
LEMMA ReportEndKeeps == ASSUME Accounted, ReportEnd PROVE Accounted'
  BY DEF Accounted, ReportEnd

\* A failure settles the call or reports the stream's end.
LEMMA FailsKeeps == ASSUME Accounted, Fails PROVE Accounted'
  BY SettleKeeps, ReportEndKeeps DEF Fails

\* What reports nothing.
LEMMA SilenceKeeps == ASSUME Accounted, UNCHANGED end PROVE Accounted'
  BY DEF Accounted, end

\* Every step accounts for the flag.
LEMMA AccountedKept == ASSUME Accounted, [Next]_vars PROVE Accounted'
<1>1. CASE Answered
  BY <1>1, SilenceKeeps DEF Answered
<1>2. CASE Data
  <2>1. \/ UNCHANGED end
        \/ ReportEnd
    BY <1>2 DEF Data, ReadLines, end
  <2>. QED  BY <2>1, SilenceKeeps, ReportEndKeeps
<1>3. CASE BodyEnds
  BY <1>3, SettleKeeps, ReportEndKeeps DEF BodyEnds
<1>4. CASE BreaksOff
  BY <1>4, SilenceKeeps, FailsKeeps DEF BreaksOff
<1>5. CASE RequestFails
  BY <1>5, FailsKeeps DEF RequestFails
<1>6. CASE Timeout
  BY <1>6, FailsKeeps DEF Timeout
<1>7. CASE Close
  BY <1>7 DEF Close, Accounted
<1>8. CASE UNCHANGED vars
  BY <1>8, SilenceKeeps DEF vars
<1>. QED
  BY <1>1, <1>2, <1>3, <1>4, <1>5, <1>6, <1>7, <1>8 DEF Next

\* onEnd is called at most once, and not after the caller has closed the stream (end and the
\* function that stream() returns).
THEOREM ReportedOnce == Spec => []EndIsReportedOnce
<1>1. Init => Accounted
  BY DEF Init, Accounted
<1>2. Accounted /\ [Next]_vars => Accounted'
  BY AccountedKept
<1>3. Accounted => EndIsReportedOnce
  BY DEF Accounted, EndIsReportedOnce
<1>. QED
  BY <1>1, <1>2, <1>3, PTL DEF Spec

\* A stream that fails ends.
LEMMA FailingStreamEnds == ASSUME kind = "stream", Fails PROVE ended' = TRUE
  BY DEF Fails, ReportEnd

\* Whatever closes the connection of a stream that lnd has accepted or not answered, its caller
\* is told, or has closed it himself.
THEOREM DeathsAreReported == Spec => DeathIsReported
<1>1. Init => Accounted
  BY DEF Init, Accounted
<1>2. Accounted /\ [Next]_vars => Accounted'
  BY AccountedKept
<1>3. ASSUME Accounted, Accounted', [Next]_vars
      PROVE  [kind = "stream" /\ phase \in {"sent", "ok"} /\ phase' = "closed"
                => reports' = 1 \/ quit']_vars
  <2>. SUFFICES ASSUME Next, kind = "stream", phase \in {"sent", "ok"}, phase' = "closed"
                PROVE  ended' = TRUE
    BY <1>3 DEF Accounted
  <2>1. CASE Answered
    BY <2>1 DEF Answered
  <2>2. CASE Data
    BY <2>2 DEF Data
  <2>3. CASE BodyEnds
    BY <2>3 DEF BodyEnds, ReportEnd
  <2>4. CASE BreaksOff
    BY <2>4, FailingStreamEnds DEF BreaksOff
  <2>5. CASE RequestFails
    BY <2>5, FailingStreamEnds DEF RequestFails
  <2>6. CASE Timeout
    BY <2>6 DEF Timeout
  <2>7. CASE Close
    BY <2>7 DEF Close
  <2>. QED
    BY <2>1, <2>2, <2>3, <2>4, <2>5, <2>6, <2>7 DEF Next
<1>. QED
  BY <1>1, <1>2, <1>3, PTL DEF Spec, DeathIsReported

-----------------------------------------------------------------------------
(* The contents of a text *)

\* x is r with the token e, if that is among the contents.
Adds(x, r, e, contents) == x = IF e \in contents THEN Append(r, e) ELSE r

\* f follows the recursion of Only over the first n tokens of a text.
Filters(f, text, contents, n) ==
    f[0] = <<>> /\ \A i \in 1..n : Adds(f[i], f[i - 1], text[i], contents)

\* That recursion.
Filtering(f, text, contents, n) ==
    f = [i \in 0..n |-> IF i = 0 THEN <<>>
                        ELSE IF text[i] \in contents THEN Append(f[i - 1], text[i])
                        ELSE f[i - 1]]

\* The recursion has a solution.
LEMMA FilterThereIs ==
    ASSUME NEW text, NEW contents, NEW n \in Nat
    PROVE  \E f : Filtering(f, text, contents, n)
<1>. DEFINE F(f, i) == IF i = 0 THEN <<>>
                       ELSE IF text[i] \in contents THEN Append(f[i - 1], text[i])
                       ELSE f[i - 1]
            T == {m \in Nat : \E f : f = [i \in 0..m |-> F(f, i)]}
<1>1. 0 \in T
  <2>. DEFINE g == [i \in 0..0 |-> <<>>]
  <2>1. g = [i \in 0..0 |-> F(g, i)]
    OBVIOUS
  <2>2. 0 \in Nat
    OBVIOUS
  <2>. HIDE DEF g, F
  <2>. QED
    BY <2>1, <2>2, Zenon
<1>2. ASSUME NEW m \in Nat, m \in T PROVE m + 1 \in T
  <2>1. PICK f : f = [i \in 0..m |-> F(f, i)]
    BY <1>2
  <2>. DEFINE V(i) == IF i <= m THEN f[i] ELSE F(f, i)
              g == [i \in 0..(m + 1) |-> V(i)]
  <2>2. \A i \in 0..m : g[i] = f[i] /\ f[i] = F(f, i)
    <3>1. \A i \in 0..m : f[i] = F(f, i)
      <4>. HIDE DEF F
      <4>. QED
        BY <2>1
    <3>2. \A i \in 0..m : i \in 0..(m + 1) /\ i <= m
      OBVIOUS
    <3>3. \A i \in 0..m : g[i] = f[i]
      <4>. HIDE DEF F
      <4>. QED
        BY <3>2
    <3>. HIDE DEF F, g
    <3>. QED
      BY <3>1, <3>3
  <2>3. g[m + 1] = F(f, m + 1)
    OBVIOUS
  <2>4. ASSUME NEW i \in 0..(m + 1) PROVE g[i] = F(g, i)
    <3>1. i = 0 \/ (i # 0 /\ i - 1 \in 0..m)
      OBVIOUS
    <3>2. F(g, i) = F(f, i)
      <4>. HIDE DEF g
      <4>. QED
        BY <2>2, <3>1
    <3>3. i \in 0..m \/ i = m + 1
      OBVIOUS
    <3>. HIDE DEF g, F
    <3>. QED
      BY <2>2, <2>3, <3>2, <3>3
  <2>5. DOMAIN g = 0..(m + 1) /\ g = [i \in 0..(m + 1) |-> g[i]]
    <3>1. g = [i \in 0..(m + 1) |-> V(i)] /\ \A i \in 0..(m + 1) : g[i] = V(i)
      OBVIOUS
    <3>. HIDE DEF V, g
    <3>. QED
      BY <3>1
  <2>6. g = [i \in 0..(m + 1) |-> F(g, i)]
    <3>. HIDE DEF g, F
    <3>. QED
      BY <2>4, <2>5
  <2>7. m + 1 \in Nat
    OBVIOUS
  <2>. HIDE DEF g, F
  <2>. QED
    BY <2>6, <2>7, Zenon
<1>. HIDE DEF T
<1>3. n \in T
  BY <1>1, <1>2, Induction
<1>. QED
  BY <1>3, Zenon DEF T, Filtering

\* What Only returns is what the recursion ends with.
LEMMA OnlyFilters ==
    ASSUME NEW S, NEW text \in Seq(S), NEW contents
    PROVE  \E f : /\ Filters(f, text, contents, Len(text)) /\ Only(text, contents) = f[Len(text)]
                  /\ \A i \in 0..Len(text) : f[i] \in Seq(S)
<1>. DEFINE n == Len(text)
            only[i \in 0..n] == IF i = 0 THEN <<>>
                                ELSE IF text[i] \in contents THEN Append(only[i - 1], text[i])
                                ELSE only[i - 1]
            F(i) == IF i = 0 THEN <<>>
                    ELSE IF text[i] \in contents THEN Append(only[i - 1], text[i])
                    ELSE only[i - 1]
<1>1. n \in Nat
  OBVIOUS
<1>2. only = [i \in 0..n |-> IF i = 0 THEN <<>>
                              ELSE IF text[i] \in contents THEN Append(only[i - 1], text[i])
                              ELSE only[i - 1]]
  <2>. HIDE DEF n
  <2>1. \E f : Filtering(f, text, contents, n)
    BY <1>1, FilterThereIs, Zenon
  <2>. QED
    BY <2>1, Zenon DEF Filtering
<1>3. Only(text, contents) = only[n]
  BY Zenon DEF Only
<1>. HIDE DEF only
<1>4. only = [i \in 0..n |-> F(i)]
  BY <1>2
<1>5. /\ only[0] = <<>>
      /\ \A i \in 1..n : only[i] = IF text[i] \in contents THEN Append(only[i - 1], text[i]) ELSE only[i - 1]
  <2>. HIDE DEF n
  <2>1. \A i \in 0..n : only[i] = F(i)
    <3>. HIDE DEF F
    <3>. QED
      BY <1>4
  <2>2. 0 \in 0..n /\ \A i \in 1..n : i \in 0..n /\ i # 0
    BY <1>1
  <2>. QED
    BY <2>1, <2>2, Zenon
<1>. HIDE DEF F
<1>9. Filters(only, text, contents, n)
  BY <1>5, Zenon DEF Filters, Adds
<1>. DEFINE T == {i \in Nat : i <= n => only[i] \in Seq(S)}
<1>6. 0 \in T
  <2>1. <<>> \in Seq(S) /\ 0 \in Nat
    OBVIOUS
  <2>. QED
    BY <1>5, <2>1, Zenon
<1>7. ASSUME NEW i \in Nat, i \in T PROVE i + 1 \in T
  <2>. SUFFICES ASSUME i + 1 <= n PROVE only[i + 1] \in Seq(S)
    OBVIOUS
  <2>1. i + 1 \in 1..n /\ (i + 1) - 1 = i /\ text[i + 1] \in S /\ only[i] \in Seq(S)
    BY <1>1, <1>7
  <2>2. only[i + 1] = Append(only[i], text[i + 1]) \/ only[i + 1] = only[i]
    BY <1>5, <2>1, Zenon
  <2>3. Append(only[i], text[i + 1]) \in Seq(S)
    BY <2>1
  <2>. QED
    BY <2>1, <2>2, <2>3, Zenon
<1>8. \A i \in 0..n : only[i] \in Seq(S)
  <2>1. Nat \subseteq T
    <3>. HIDE DEF T
    <3>. QED
      BY <1>6, <1>7, Induction
  <2>2. \A i \in 0..n : i \in Nat /\ i <= n
    BY <1>1
  <2>. QED
    BY <2>1, <2>2
<1>. QED
  BY <1>3, <1>8, <1>9, Zenon

\* The contents of nothing.
LEMMA OnlyOfNothing == ASSUME NEW contents PROVE Only(<<>>, contents) = <<>>
<1>1. <<>> \in Seq({}) /\ Len(<<>>) = 0
  OBVIOUS
<1>2. PICK f : Filters(f, <<>>, contents, Len(<<>>)) /\ Only(<<>>, contents) = f[Len(<<>>)]
  BY <1>1, OnlyFilters, Zenon
<1>. QED
  BY <1>1, <1>2 DEF Filters

\* r is a and then b.
Joint(r, a, b) == r = a \o b

\* Appending to the second of two sequences appends to both.
LEMMA AppendAssociates ==
    ASSUME NEW S, NEW a \in Seq(S), NEW b \in Seq(S), NEW e \in S
    PROVE  Joint(Append(a \o b, e), a, Append(b, e))
<1>1. Append(a \o b, e) = a \o Append(b, e)
  OBVIOUS
<1>. QED
  BY <1>1, Zenon DEF Joint

\* What a further token adds to b it adds to the whole.
LEMMA JointStep ==
    ASSUME NEW S, NEW a \in Seq(S), NEW b \in Seq(S), NEW e \in S, NEW contents,
           NEW r, Joint(r, a, b), NEW x, Adds(x, r, e, contents), NEW y, Adds(y, b, e, contents)
    PROVE  Joint(x, a, y)
<1>1. Joint(Append(a \o b, e), a, Append(b, e))
  BY AppendAssociates, Zenon
<1>2. CASE e \in contents
  BY <1>1, <1>2, Zenon DEF Joint, Adds
<1>3. CASE e \notin contents
  BY <1>3, Zenon DEF Joint, Adds
<1>. QED
  BY <1>2, <1>3

\* The contents of two texts in a row are those of one and then of the other.
LEMMA OnlyOfBoth ==
    ASSUME NEW S, NEW s \in Seq(S), NEW t \in Seq(S), NEW contents
    PROVE  Joint(Only(s \o t, contents), Only(s, contents), Only(t, contents))
<1>. DEFINE n == Len(s)
            m == Len(t)
            st == s \o t
<1>1. n \in Nat /\ m \in Nat /\ st \in Seq(S) /\ Len(st) = n + m
  OBVIOUS
<1>2. (\A i \in 1..n : st[i] = s[i]) /\ (\A i \in 1..m : st[n + i] = t[i] /\ t[i] \in S)
  OBVIOUS
<1>3. PICK f : Filters(f, s, contents, n) /\ Only(s, contents) = f[n] /\ \A i \in 0..n : f[i] \in Seq(S)
  BY OnlyFilters, Zenon
<1>4. PICK g : Filters(g, t, contents, m) /\ Only(t, contents) = g[m] /\ \A i \in 0..m : g[i] \in Seq(S)
  BY OnlyFilters, Zenon
<1>. HIDE DEF n, m, st
<1>5. PICK h : Filters(h, st, contents, n + m) /\ Only(st, contents) = h[n + m]
  BY <1>1, OnlyFilters, Zenon
<1>. DEFINE T == {i \in Nat : i <= n => h[i] = f[i]}
<1>6. 0 \in T
  BY <1>3, <1>5 DEF Filters
<1>7. ASSUME NEW i \in Nat, i \in T PROVE i + 1 \in T
  <2>. SUFFICES ASSUME i + 1 <= n PROVE h[i + 1] = f[i + 1]
    OBVIOUS
  <2>1. i + 1 \in 1..n /\ i + 1 \in 1..(n + m) /\ (i + 1) - 1 = i /\ h[i] = f[i]
    BY <1>1, <1>7
  <2>. HIDE DEF T
  <2>2. Adds(h[i + 1], h[i], st[i + 1], contents) /\ Adds(f[i + 1], f[i], s[i + 1], contents)
    BY <1>3, <1>5, <2>1, Zenon DEF Filters
  <2>3. st[i + 1] = s[i + 1]
    BY <1>2, <2>1
  <2>. QED
    BY <2>1, <2>2, <2>3 DEF Adds
<1>8. h[n] = f[n] /\ f[n] \in Seq(S)
  <2>1. Nat \subseteq T
    <3>. HIDE DEF T
    <3>. QED
      BY <1>6, <1>7, Induction
  <2>2. n <= n /\ n \in 0..n
    BY <1>1
  <2>. QED
    BY <1>1, <1>3, <2>1, <2>2
<1>. DEFINE U == {i \in Nat : i <= m => Joint(h[n + i], f[n], g[i])}
<1>9. 0 \in U
  <2>1. g[0] = <<>> /\ n + 0 = n
    BY <1>1, <1>4 DEF Filters
  <2>2. f[n] \o <<>> = f[n]
    BY <1>8
  <2>. QED
    BY <1>8, <2>1, <2>2 DEF Joint
<1>10. ASSUME NEW i \in Nat, i + 1 <= m, Joint(h[n + i], f[n], g[i])
       PROVE  Joint(h[n + (i + 1)], f[n], g[i + 1])
  <2>1. /\ i + 1 \in 1..m /\ n + (i + 1) \in 1..(n + m) /\ (i + 1) - 1 = i
        /\ n + (i + 1) - 1 = n + i /\ i \in 0..m
    BY <1>1, <1>10
  <2>. DEFINE e == t[i + 1]
  <2>2. st[n + (i + 1)] = e /\ e \in S /\ g[i] \in Seq(S)
    BY <1>2, <1>4, <2>1, Zenon
  <2>3. Adds(h[n + (i + 1)], h[n + i], e, contents)
    <3>. DEFINE k == n + (i + 1)
    <3>1. k \in 1..(n + m) /\ st[k] = e
      BY <2>1, <2>2, Zenon
    <3>2. k - 1 = n + i
      BY <1>1
    <3>. HIDE DEF k, e
    <3>3. Adds(h[k], h[k - 1], st[k], contents)
      BY <1>5, <3>1, Zenon DEF Filters
    <3>4. Adds(h[k], h[n + i], e, contents)
      BY <3>1, <3>2, <3>3, Zenon
    <3>. QED
      BY <3>4 DEF k
  <2>4. Adds(g[i + 1], g[i], e, contents)
    BY <1>4, <2>1, Zenon DEF Filters
  <2>. HIDE DEF e
  <2>. QED
    BY <1>8, <1>10, <2>2, <2>3, <2>4, JointStep, Zenon
<1>11. Joint(h[n + m], f[n], g[m])
  <2>1. Nat \subseteq U
    <3>1. ASSUME NEW i \in Nat, i \in U PROVE i + 1 \in U
      <4>1. i + 1 <= m => i <= m
        BY <1>1
      <4>2. i + 1 \in Nat
        OBVIOUS
      <4>. QED
        BY <1>10, <3>1, <4>1, <4>2, Zenon
    <3>. HIDE DEF U
    <3>. QED
      BY <1>9, <3>1, Induction
  <2>2. m <= m
    BY <1>1
  <2>. QED
    BY <1>1, <2>1, <2>2
<1>. QED
  BY <1>3, <1>4, <1>5, <1>11, Zenon DEF st, Joint

-----------------------------------------------------------------------------
(* Lines *)

\* The last newline of a text is its k-th token, or there is none.
EndsLinesAt(text, k) ==
    /\ k \in 0..Len(text) /\ (k # 0 => text[k] = NL)
    /\ \A i \in 1..Len(text) : k < i => text[i] # NL

\* LastNewline returns that place, and there is but one.
LEMMA LastNewlineEndsLines ==
    ASSUME NEW S, NEW text \in Seq(S)
    PROVE  EndsLinesAt(text, LastNewline(text)) /\ \A k : EndsLinesAt(text, k) => k = LastNewline(text)
<1>. DEFINE n == Len(text)
            T == {0} \cup {i \in DOMAIN text : text[i] = NL}
            l == LastNewline(text)
<1>1. n \in Nat /\ DOMAIN text = 1..n
  OBVIOUS
<1>2. T \subseteq 0..n /\ T # {}
  <2>. HIDE DEF n
  <2>. QED
    BY <1>1
<1>3. l = Max(T)
  BY Zenon DEF LastNewline
<1>. HIDE DEF T, l
<1>4. l \in T /\ \A y \in T : l >= y
  BY <1>1, <1>2, <1>3, MaxIsGreatest
<1>5. l \in 0..n
  BY <1>2, <1>4
<1>6. l # 0 => text[l] = NL
  BY <1>4 DEF T
<1>7. ASSUME NEW i \in 1..n, l < i PROVE text[i] # NL
  <2>1. i \notin T
    <3>. HIDE DEF n
    <3>. QED
      BY <1>1, <1>4, <1>5, <1>7
  <2>. QED
    BY <1>1, <2>1 DEF T
<1>8. EndsLinesAt(text, l)
  BY <1>5, <1>6, <1>7, Zenon DEF EndsLinesAt
<1>9. ASSUME NEW k, EndsLinesAt(text, k) PROVE k = l
  <2>1. k \in 0..n /\ (k # 0 => text[k] = NL) /\ \A i \in 1..n : k < i => text[i] # NL
    BY <1>9, Zenon DEF EndsLinesAt
  <2>. HIDE DEF n
  <2>2. CASE k < l
    <3>1. l \in 1..n /\ l # 0
      BY <1>1, <1>5, <2>1, <2>2
    <3>. QED
      BY <1>6, <2>1, <2>2, <3>1, Zenon
  <2>3. CASE l < k
    <3>1. k \in 1..n /\ k # 0
      BY <1>1, <1>5, <2>1, <2>3
    <3>. QED
      BY <1>7, <2>1, <2>3, <3>1, Zenon
  <2>4. k < l \/ l < k \/ k = l
    BY <1>1, <1>5, <2>1
  <2>. QED
    BY <2>2, <2>3, <2>4
<1>. QED
  BY <1>8, <1>9, Zenon DEF l

\* Sequences are equal when they agree everywhere.
LEMMA SameSeq ==
    ASSUME NEW S, NEW s \in Seq(S), NEW t \in Seq(S), Len(s) = Len(t), \A i \in 1..Len(s) : s[i] = t[i]
    PROVE  s = t
  OBVIOUS

\* What a concatenation is.
LEMMA Concatenated ==
    ASSUME NEW S, NEW s \in Seq(S), NEW t \in Seq(S)
    PROVE  /\ s \o t \in Seq(S) /\ Len(s \o t) = Len(s) + Len(t)
           /\ Len(s) \in Nat /\ Len(t) \in Nat
  OBVIOUS

\* When c follows h, the lines of both are those of h and then those of what h left open and c.
LEMMA LinesOfBoth ==
    ASSUME NEW S, NEW h \in Seq(S), NEW c \in Seq(S)
    PROVE  /\ Rest(h \o c) = Rest(Rest(h) \o c)
           /\ \A contents : Joint(Only(SubSeq(h \o c, 1, LastNewline(h \o c)), contents),
                                  Only(SubSeq(h, 1, LastNewline(h)), contents),
                                  Only(SubSeq(Rest(h) \o c, 1, LastNewline(Rest(h) \o c)), contents))
<1>. DEFINE l == LastNewline(h)
            b == Rest(h)
            hc == h \o c
            bc == b \o c
            k == LastNewline(bc)
            n == Len(h)
            m == Len(bc)
<1>1. EndsLinesAt(h, l)
  BY LastNewlineEndsLines, Zenon
<1>2. n \in Nat /\ l \in 0..n
  BY <1>1 DEF EndsLinesAt
<1>3. b \in Seq(S) /\ Len(b) = n - l /\ \A j \in 1..(n - l) : b[j] = h[l + j]
  <2>. HIDE DEF l
  <2>1. b = SubSeq(h, l + 1, Len(h))
    BY DEF Rest, l
  <2>. HIDE DEF b
  <2>. QED
    BY <1>2, <2>1
<1>. HIDE DEF l, b
<1>4. bc \in Seq(S) /\ m = n - l + Len(c) /\ m \in Nat /\ hc \in Seq(S) /\ Len(hc) = l + m /\ Len(c) \in Nat
  <2>1. bc \in Seq(S) /\ m = Len(b) + Len(c) /\ Len(c) \in Nat
    BY <1>3, Concatenated, Zenon
  <2>2. hc \in Seq(S) /\ Len(hc) = n + Len(c)
    BY Concatenated, Zenon
  <2>. HIDE DEF bc, hc, m, n
  <2>. QED
    BY <1>2, <1>3, <2>1, <2>2
<1>5. \A j \in 1..m : hc[l + j] = bc[j]
  <2>. SUFFICES ASSUME NEW j \in 1..m PROVE hc[l + j] = bc[j]
    OBVIOUS
  <2>1. CASE j <= n - l
    <3>1. j \in 1..(n - l) /\ l + j \in 1..n
      BY <1>2, <1>4, <2>1
    <3>2. bc[j] = b[j] /\ hc[l + j] = h[l + j]
      BY <1>3, <3>1
    <3>. QED
      BY <1>3, <3>1, <3>2
  <2>2. CASE n - l < j
    <3>. DEFINE i == j - (n - l)
    <3>1. i \in 1..Len(c) /\ j = (n - l) + i /\ l + j = n + i
      BY <1>2, <1>4, <2>2
    <3>. HIDE DEF i
    <3>2. bc[(n - l) + i] = c[i] /\ hc[n + i] = c[i]
      BY <1>3, <3>1
    <3>. QED
      BY <3>1, <3>2
  <2>3. j <= n - l \/ n - l < j
    BY <1>2, <1>4
  <2>. QED
    BY <2>1, <2>2, <2>3
<1>6. \A j \in 1..l : hc[j] = h[j] /\ j \in 1..n
  BY <1>2
<1>. HIDE DEF hc, bc, n, m
<1>7. EndsLinesAt(bc, k)
  BY <1>4, LastNewlineEndsLines, Zenon
<1>8. k \in 0..m
  BY <1>7 DEF EndsLinesAt, m
<1>. HIDE DEF k
<1>9. EndsLinesAt(hc, l + k)
  <2>1. l + k \in 0..Len(hc)
    BY <1>2, <1>4, <1>8
  <2>2. ASSUME l + k # 0 PROVE hc[l + k] = NL
    <3>1. CASE k = 0
      <4>1. l \in 1..l /\ l # 0 /\ l + k = l
        BY <1>2, <2>2, <3>1
      <4>. QED
        BY <1>1, <1>6, <4>1, Zenon DEF EndsLinesAt
    <3>2. CASE k # 0
      <4>1. k \in 1..m
        BY <1>4, <1>8, <3>2
      <4>. QED
        BY <1>5, <1>7, <3>2, <4>1, Zenon DEF EndsLinesAt
    <3>. QED
      BY <3>1, <3>2
  <2>3. ASSUME NEW i \in 1..Len(hc), l + k < i PROVE hc[i] # NL
    <3>. DEFINE j == i - l
    <3>1. j \in 1..m /\ k < j /\ i = l + j
      BY <1>2, <1>4, <1>8, <2>3
    <3>. HIDE DEF j
    <3>2. bc[j] # NL
      BY <1>7, <3>1, Zenon DEF EndsLinesAt, m
    <3>. QED
      BY <1>5, <3>1, <3>2, Zenon
  <2>. QED
    BY <2>1, <2>2, <2>3, Zenon DEF EndsLinesAt
<1>10. LastNewline(hc) = l + k
  BY <1>4, <1>9, LastNewlineEndsLines, Zenon
<1>11. SubSeq(hc, l + k + 1, Len(hc)) = SubSeq(bc, k + 1, m)
  <2>. DEFINE x == SubSeq(hc, l + k + 1, Len(hc))
              y == SubSeq(bc, k + 1, m)
  <2>1. x \in Seq(S) /\ Len(x) = m - k /\ \A i \in 1..(m - k) : x[i] = hc[l + k + i]
    <3>1. Len(hc) = l + m /\ l + k \in Nat /\ l + k <= Len(hc) /\ Len(hc) - (l + k) = m - k
      BY <1>2, <1>4, <1>8
    <3>. QED
      BY <1>4, <3>1
  <2>2. y \in Seq(S) /\ Len(y) = m - k /\ \A i \in 1..(m - k) : y[i] = bc[k + i]
    <3>1. Len(bc) = m
      BY DEF m
    <3>. QED
      BY <1>4, <1>8, <3>1
  <2>3. ASSUME NEW i \in 1..(m - k) PROVE hc[l + k + i] = bc[k + i]
    <3>1. k + i \in 1..m /\ l + k + i = l + (k + i)
      BY <1>2, <1>4, <1>8
    <3>. QED
      BY <1>5, <3>1, Zenon
  <2>. HIDE DEF x, y
  <2>4. \A i \in 1..(m - k) : x[i] = y[i]
    BY <2>1, <2>2, <2>3
  <2>5. Len(x) = Len(y) /\ \A i \in 1..Len(x) : x[i] = y[i]
    BY <2>1, <2>2, <2>4, Zenon
  <2>6. x = y
    BY <2>1, <2>2, <2>5, SameSeq
  <2>. QED
    BY <2>6 DEF x, y
<1>12. SubSeq(hc, 1, l + k) = SubSeq(h, 1, l) \o SubSeq(bc, 1, k)
  <2>. DEFINE x == SubSeq(hc, 1, l + k)
              y == SubSeq(h, 1, l)
              z == SubSeq(bc, 1, k)
  <2>1. x \in Seq(S) /\ Len(x) = l + k /\ \A i \in 1..(l + k) : x[i] = hc[i]
    <3>1. l + k \in Nat /\ l + k <= Len(hc)
      BY <1>2, <1>4, <1>8
    <3>. QED
      BY <1>4, <3>1
  <2>2. y \in Seq(S) /\ Len(y) = l /\ \A i \in 1..l : y[i] = h[i]
    BY <1>2 DEF n
  <2>3. z \in Seq(S) /\ Len(z) = k /\ \A i \in 1..k : z[i] = bc[i]
    BY <1>4, <1>8 DEF m
  <2>. HIDE DEF x, y, z
  <2>4. y \o z \in Seq(S) /\ Len(y \o z) = l + k
    <3>1. y \o z \in Seq(S) /\ Len(y \o z) = Len(y) + Len(z)
      BY <2>2, <2>3, Concatenated, Zenon
    <3>. QED
      BY <2>2, <2>3, <3>1
  <2>5. ASSUME NEW i \in 1..(l + k) PROVE x[i] = (y \o z)[i]
    <3>1. CASE i \in 1..l
      <4>1. (y \o z)[i] = y[i]
        BY <2>2, <2>3, <3>1
      <4>. QED
        BY <1>6, <2>1, <2>2, <3>1, <4>1, Zenon
    <3>2. CASE l < i
      <4>. DEFINE j == i - l
      <4>1. j \in 1..k /\ j \in 1..m /\ i = l + j
        BY <1>2, <1>4, <1>8, <3>2
      <4>. HIDE DEF j
      <4>2. (y \o z)[l + j] = z[j]
        BY <2>2, <2>3, <4>1
      <4>. QED
        BY <1>5, <2>1, <2>3, <4>1, <4>2, Zenon
    <3>3. i \in 1..l \/ l < i
      BY <1>2, <1>8
    <3>. QED
      BY <3>1, <3>2, <3>3
  <2>. DEFINE yz == y \o z
  <2>6. yz \in Seq(S) /\ Len(x) = Len(yz) /\ \A i \in 1..Len(x) : x[i] = yz[i]
    BY <2>1, <2>4, <2>5, Zenon
  <2>. HIDE DEF yz
  <2>7. x = yz
    BY <2>1, <2>6, SameSeq
  <2>. QED
    BY <2>7 DEF x, y, z, yz
<1>13. Rest(hc) = Rest(bc)
  BY <1>10, <1>11 DEF Rest, k, m
<1>14. ASSUME NEW contents
       PROVE  Joint(Only(SubSeq(hc, 1, LastNewline(hc)), contents), Only(SubSeq(h, 1, l), contents),
                    Only(SubSeq(bc, 1, k), contents))
  <2>1. SubSeq(h, 1, l) \in Seq(S)
    BY <1>2 DEF n
  <2>2. SubSeq(bc, 1, k) \in Seq(S)
    BY <1>4, <1>8 DEF m
  <2>3. Joint(Only(SubSeq(h, 1, l) \o SubSeq(bc, 1, k), contents), Only(SubSeq(h, 1, l), contents),
              Only(SubSeq(bc, 1, k), contents))
    BY <2>1, <2>2, OnlyOfBoth, Zenon
  <2>. QED
    BY <1>10, <1>12, <2>3, Zenon
<1>. QED
  BY <1>13, <1>14, Zenon DEF hc, bc, b, l, k

-----------------------------------------------------------------------------
(* What a stream has handed on *)

\* Texts consist of tokens.
LEMMA TextsAreTokens == Texts \subseteq Seq(Tokens)
<1>. DEFINE L == {<<m, NL>> : m \in Messages \cup Rejects} \cup {<<NL>>}
<1>1. L \subseteq Seq(Tokens)
  <2>1. \A m \in Messages \cup Rejects : m \in Tokens /\ NL \in Tokens
    BY DEF Tokens
  <2>2. NL \in Tokens
    BY DEF Tokens
  <2>. HIDE DEF Tokens
  <2>3. \A m \in Messages \cup Rejects : <<m, NL>> \in Seq(Tokens)
    <3>. SUFFICES ASSUME NEW m \in Messages \cup Rejects PROVE <<m, NL>> \in Seq(Tokens)
      OBVIOUS
    <3>. QED
      BY <2>1
  <2>4. <<NL>> \in Seq(Tokens)
    BY <2>2
  <2>. QED
    BY <2>3, <2>4
<1>2. ASSUME NEW n \in Nat, NEW ss \in [1..n -> L] PROVE FlattenSeq(ss) \in Seq(Tokens)
  <2>. HIDE DEF L
  <2>1. ss \in [1..n -> Seq(Tokens)]
    BY <1>1
  <2>2. CASE n = 0
    <3>1. ss = <<>> /\ Len(ss) = 0
      BY <1>2, <2>2
    <3>2. FlattenSeq(ss) = <<>>
      BY <3>1, Zenon DEF FlattenSeq
    <3>. QED
      BY <3>2
  <2>3. CASE n # 0
    <3>1. n \in Nat \ {0}
      BY <2>3
    <3>. QED
      BY <2>1, <3>1, Flattened, Zenon
  <2>. QED
    BY <2>2, <2>3
<1>. SUFFICES ASSUME NEW text \in Texts PROVE text \in Seq(Tokens)
  OBVIOUS
<1>3. PICK ss \in BoundedSeq(L, MaxLines) : text = FlattenSeq(ss)
  BY Zenon DEF Texts
<1>4. \E n \in 0..MaxLines : ss \in [1..n -> L]
  <2>. HIDE DEF L
  <2>. QED
    BY <1>3 DEF BoundedSeq, SeqOf
<1>5. PICK n \in 0..MaxLines : ss \in [1..n -> L]
  BY <1>4, Zenon
<1>6. n \in Nat
  BY <1>5
<1>. QED
  BY <1>2, <1>3, <1>5, <1>6, Zenon

\* The buffer is what the text that has arrived leaves open, and what was handed on are its messages.
HandledSoFar ==
    /\ buf = Rest(heard)
    /\ got = Only(Lines(heard), Messages)
    /\ Only(Lines(heard), Rejects) # <<>> => ended

Reading ==
    /\ wire \in Seq(Tokens) /\ heard \in Seq(Tokens)
    /\ kind = "stream" /\ phase = "sent" => heard = <<>> /\ buf = <<>> /\ got = <<>>
    /\ kind = "stream" /\ phase = "ok" => HandledSoFar

\* The lines of a text are tokens.
LEMMA LinesAreTokens == ASSUME NEW text \in Seq(Tokens) PROVE Lines(text) \in Seq(Tokens)
<1>. DEFINE part == SubSeq(text, 1, LastNewline(text))
<1>1. LastNewline(text) \in 0..Len(text)
  BY LastNewlineEndsLines, Zenon DEF EndsLinesAt
<1>2. part \in Seq(Tokens)
  BY <1>1
<1>. HIDE DEF part
<1>3. Len(part) \in 0..Len(part)
  BY <1>2
<1>4. Only(part, Messages \cup Rejects) \in Seq(Tokens)
  <2>1. PICK f : /\ Only(part, Messages \cup Rejects) = f[Len(part)]
                 /\ \A i \in 0..Len(part) : f[i] \in Seq(Tokens)
    BY <1>2, OnlyFilters, Zenon
  <2>. QED
    BY <1>3, <2>1, Zenon
<1>. QED
  BY <1>4, Zenon DEF Lines, part

\* What is left of a text are tokens, and the lines of a text and a further one are those of the
\* text and then those that the further one completes.
LEMMA LinesApart ==
    ASSUME NEW h \in Seq(Tokens), NEW c \in Seq(Tokens), NEW contents
    PROVE  /\ Rest(h) \in Seq(Tokens) /\ Rest(h) \o c \in Seq(Tokens)
           /\ Joint(Only(Lines(h \o c), contents), Only(Lines(h), contents),
                    Only(Lines(Rest(h) \o c), contents))
<1>. DEFINE before == Lines(h)
            now == Lines(Rest(h) \o c)
            both == Lines(h \o c)
<1>1. Joint(both, before, now)
  BY LinesOfBoth, Zenon DEF Lines
<1>2. Rest(h) \in Seq(Tokens)
  <2>1. LastNewline(h) \in 0..Len(h)
    BY LastNewlineEndsLines, Zenon DEF EndsLinesAt
  <2>2. SubSeq(h, LastNewline(h) + 1, Len(h)) \in Seq(Tokens)
    BY <2>1
  <2>. QED
    BY <2>2, Zenon DEF Rest
<1>3. Rest(h) \o c \in Seq(Tokens)
  BY <1>2, Concatenated, Zenon
<1>4. before \in Seq(Tokens) /\ now \in Seq(Tokens)
  BY <1>3, LinesAreTokens, Zenon
<1>. HIDE DEF before, now, both
<1>5. both = before \o now
  BY <1>1, Zenon DEF Joint
<1>6. Joint(Only(both, contents), Only(before, contents), Only(now, contents))
  BY <1>4, <1>5, OnlyOfBoth, Zenon
<1>. QED
  BY <1>2, <1>3, <1>6, Zenon DEF before, now, both

\* A chunk more: the loop hands on the messages among the lines that it completes.
LEMMA ChunkHandled ==
    ASSUME NEW chunk \in Seq(Tokens), heard \in Seq(Tokens), HandledSoFar, ReadLines(chunk),
           heard' = heard \o chunk, ended \in BOOLEAN
    PROVE  HandledSoFar'
<1>. DEFINE before == Lines(heard)
            now == Lines(buf \o chunk)
            both == Lines(heard \o chunk)
<1>1. Rest(heard \o chunk) = Rest(buf \o chunk)
  BY LinesOfBoth, Zenon DEF HandledSoFar
<1>2. ASSUME NEW contents PROVE Joint(Only(both, contents), Only(before, contents), Only(now, contents))
  BY LinesApart, Zenon DEF HandledSoFar
<1>. HIDE DEF before, now, both
<1>3. /\ buf' = Rest(buf \o chunk) /\ got' = got \o Only(now, Messages)
      /\ IF Only(now, Rejects) # <<>> THEN ReportEnd ELSE UNCHANGED end
  BY Zenon DEF ReadLines, now
<1>4. got = Only(before, Messages) /\ (Only(before, Rejects) # <<>> => ended)
  BY Zenon DEF HandledSoFar, before
<1>5. buf' = Rest(heard')
  BY <1>1, <1>3, Zenon
<1>6. got' = Only(both, Messages)
  BY <1>2, <1>3, <1>4, Zenon DEF Joint
<1>7. ASSUME Only(both, Rejects) # <<>> PROVE ended'
  <2>1. Only(both, Rejects) = Only(before, Rejects) \o Only(now, Rejects)
    BY <1>2, Zenon DEF Joint
  <2>2. CASE Only(now, Rejects) # <<>>
    BY <1>3, <2>2, Zenon DEF ReportEnd
  <2>3. CASE Only(now, Rejects) = <<>>
    <3>1. Only(before, Rejects) # <<>>
      <4>1. <<>> \o <<>> = <<>>
        OBVIOUS
      <4>. QED
        BY <1>7, <2>1, <2>3, <4>1, Zenon
    <3>2. ended /\ ended' = ended
      BY <1>3, <1>4, <2>3, <3>1, Zenon DEF end
    <3>. QED
      BY <3>2, Zenon
  <2>. QED
    BY <2>2, <2>3, Zenon
<1>. QED
  BY <1>5, <1>6, <1>7, Zenon DEF HandledSoFar, both

\* An empty text has no lines.
LEMMA NothingHandled == ASSUME heard = <<>>, buf = <<>>, got = <<>> PROVE HandledSoFar
<1>1. <<>> \in Seq({}) /\ Len(<<>>) = 0
  OBVIOUS
<1>2. EndsLinesAt(<<>>, 0)
  BY DEF EndsLinesAt
<1>3. LastNewline(<<>>) = 0
  BY <1>1, <1>2, LastNewlineEndsLines, Zenon
<1>4. SubSeq(<<>>, 1, 0) = <<>> /\ SubSeq(<<>>, 0 + 1, 0) = <<>>
  OBVIOUS
<1>5. Rest(<<>>) = <<>>
  BY <1>1, <1>3, <1>4, Zenon DEF Rest
<1>6. Lines(<<>>) = <<>>
  BY <1>3, <1>4, OnlyOfNothing, Zenon DEF Lines
<1>7. Only(<<>>, Messages) = <<>> /\ Only(<<>>, Rejects) = <<>>
  BY OnlyOfNothing
<1>. QED
  BY <1>5, <1>6, <1>7, Zenon DEF HandledSoFar

\* Every step hands on what has arrived.
LEMMA ReadingKept == ASSUME Accounted, Reading, [Next]_vars PROVE Reading'
<1>1. CASE Data
  <2>1. PICK n \in 1..Len(wire) :
           /\ wire' = SubSeq(wire, n + 1, Len(wire)) /\ heard' = heard \o SubSeq(wire, 1, n)
           /\ IF kind = "stream" /\ phase = "ok" THEN ReadLines(SubSeq(wire, 1, n))
                                                 ELSE UNCHANGED <<buf, got, end>>
    BY <1>1, Zenon DEF Data
  <2>2. kind' = kind /\ phase' = phase /\ phase # "sent"
    BY <1>1 DEF Data
  <2>. DEFINE chunk == SubSeq(wire, 1, n)
  <2>3. chunk \in Seq(Tokens) /\ wire' \in Seq(Tokens)
    BY <2>1 DEF Reading
  <2>. HIDE DEF chunk
  <2>4. heard \in Seq(Tokens) /\ heard' = heard \o chunk
    BY <2>1, Zenon DEF Reading, chunk
  <2>5. heard' \in Seq(Tokens)
    BY <2>3, <2>4, Concatenated, Zenon
  <2>6. ASSUME kind = "stream", phase = "ok" PROVE HandledSoFar'
    <3>1. HandledSoFar /\ ended \in BOOLEAN /\ ReadLines(chunk)
      BY <2>1, <2>6, Zenon DEF Reading, Accounted, chunk
    <3>. QED
      BY <2>3, <2>4, <3>1, ChunkHandled, Zenon
  <2>. QED
    BY <2>2, <2>3, <2>5, <2>6, Zenon DEF Reading
<1>2. CASE Answered
  <2>1. UNCHANGED <<kind, wire, heard, buf, got>> /\ phase = "sent" /\ phase' # "sent"
    BY <1>2 DEF Answered, body
  <2>2. ASSUME kind = "stream" PROVE HandledSoFar'
    <3>1. heard' = <<>> /\ buf' = <<>> /\ got' = <<>>
      BY <2>1, <2>2, Zenon DEF Reading
    <3>2. HandledSoFar
      BY <2>1, <2>2, NothingHandled, Zenon DEF Reading
    <3>3. ended' = ended
      BY <1>2, Zenon DEF Answered, end
    <3>. QED
      BY <2>1, <3>2, <3>3, Zenon DEF HandledSoFar
  <2>. QED
    BY <2>1, <2>2, Zenon DEF Reading
<1>3. CASE BodyEnds \/ BreaksOff \/ RequestFails \/ Timeout \/ Close
  <2>1. phase' = "closed" /\ UNCHANGED <<wire, heard>>
    BY <1>3, Zenon DEF BodyEnds, BreaksOff, RequestFails, Timeout, Close, body
  <2>2. phase' # "sent" /\ phase' # "ok"
    BY <2>1
  <2>. QED
    BY <2>1, <2>2, Zenon DEF Reading
<1>4. CASE UNCHANGED vars
  BY <1>4, Zenon DEF vars, body, end, Reading, HandledSoFar
<1>. QED
  BY <1>1, <1>2, <1>3, <1>4, Zenon DEF Next

\* However the answer is cut into chunks, a stream has handed on exactly the messages of the lines
\* that have arrived whole, in their order, and has ended if one of the lines was none (the loop
\* over the buffer in stream()).
THEOREM LinesAreRead == Spec => []LinesAreHandledAtOnce
<1>1. Init => Accounted
  BY DEF Init, Accounted
<1>2. Init => Reading
  <2>. SUFFICES ASSUME Init PROVE Reading
    OBVIOUS
  <2>1. wire \in Seq(Tokens)
    BY TextsAreTokens DEF Init
  <2>2. heard = <<>> /\ buf = <<>> /\ got = <<>> /\ phase = "sent" /\ heard \in Seq(Tokens)
    BY DEF Init
  <2>3. phase # "ok"
    BY <2>2
  <2>. QED
    BY <2>1, <2>2, <2>3, Zenon DEF Reading
<1>3. Accounted /\ [Next]_vars => Accounted'
  BY AccountedKept
<1>4. Accounted /\ Reading /\ [Next]_vars => Reading'
  BY ReadingKept
<1>5. Reading => LinesAreHandledAtOnce
  BY Zenon DEF Reading, HandledSoFar, LinesAreHandledAtOnce
<1>. QED
  BY <1>1, <1>2, <1>3, <1>4, <1>5, PTL DEF Spec
-----------------------------------------------------------------------------
(* The subscription *)

\* The contents that are among some are these.
LEMMA OnlyOfContents ==
    ASSUME NEW text \in Seq(Tokens), NEW contents
    PROVE  Only(text, contents) \in Seq(contents)
<1>. DEFINE n == Len(text)
<1>1. n \in Nat
  OBVIOUS
<1>2. PICK f : Filters(f, text, contents, n) /\ Only(text, contents) = f[n]
  BY OnlyFilters, Zenon
<1>. HIDE DEF n
<1>. DEFINE T == {i \in Nat : i <= n => f[i] \in Seq(contents)}
<1>3. 0 \in T
  <2>1. <<>> \in Seq(contents)
    OBVIOUS
  <2>. QED
    BY <1>2, <2>1 DEF Filters
<1>4. ASSUME NEW i \in Nat, i \in T PROVE i + 1 \in T
  <2>. SUFFICES ASSUME i + 1 <= n PROVE f[i + 1] \in Seq(contents)
    OBVIOUS
  <2>1. i + 1 \in 1..n /\ (i + 1) - 1 = i /\ f[i] \in Seq(contents)
    BY <1>1, <1>4
  <2>. HIDE DEF T
  <2>2. Adds(f[i + 1], f[i], text[i + 1], contents)
    BY <1>2, <2>1, Zenon DEF Filters
  <2>. QED
    BY <2>1, <2>2 DEF Adds
<1>5. Nat \subseteq T
  <2>. HIDE DEF T
  <2>. QED
    BY <1>3, <1>4, Induction
<1>6. n <= n
  BY <1>1
<1>. QED
  BY <1>1, <1>2, <1>5, <1>6

\* Only a stream ends, and, where no line is rejected, with its connection.
EndsClosed ==
    /\ kind \in {"call", "stream"}
    /\ ended => kind = "stream" /\ phase = "closed"

\* Three texts in a row are the first and then the other two.
LEMMA ConcatAssociates ==
    ASSUME NEW S, NEW x \in Seq(S), NEW y \in Seq(S), NEW z \in Seq(S)
    PROVE  Joint((x \o y) \o z, x, y \o z)
<1>1. (x \o y) \o z = x \o (y \o z)
  OBVIOUS
<1>. QED
  BY <1>1, Zenon DEF Joint

\* A chunk without a line that is rejected hands on what it completes of what is to come.
LEMMA ChunkIsHandedOn ==
    ASSUME Reading, kind = "stream", phase = "ok", NoLineIsRejected', Data
    PROVE  /\ UNCHANGED <<kind, phase, end>>
           /\ \E now \in Seq(Messages) : got' = got \o now /\ Joint(ToCome, now, ToCome')
           /\ got \in Seq(Messages) /\ ToCome' \in Seq(Messages)
<1>1. PICK n \in 1..Len(wire) :
         /\ wire' = SubSeq(wire, n + 1, Len(wire)) /\ heard' = heard \o SubSeq(wire, 1, n)
         /\ ReadLines(SubSeq(wire, 1, n))
  BY Zenon DEF Data
<1>2. kind' = kind /\ phase' = phase
  BY Zenon DEF Data
<1>. DEFINE chunk == SubSeq(wire, 1, n)
            bc == buf \o chunk
            now == Only(Lines(bc), Messages)
<1>3. chunk \in Seq(Tokens) /\ wire' \in Seq(Tokens) /\ wire = chunk \o wire'
  <2>1. wire \in Seq(Tokens) /\ heard \in Seq(Tokens)
    BY DEF Reading
  <2>2. chunk \in Seq(Tokens) /\ SubSeq(wire, n + 1, Len(wire)) \in Seq(Tokens)
    BY <2>1
  <2>3. wire = chunk \o SubSeq(wire, n + 1, Len(wire))
    BY <2>1
  <2>. QED
    BY <1>1, <2>2, <2>3, Zenon
<1>4. heard \in Seq(Tokens) /\ HandledSoFar
  BY Zenon DEF Reading
<1>5. heard' = heard \o chunk /\ ReadLines(chunk)
  BY <1>1, Zenon
<1>. HIDE DEF chunk
<1>6. buf \in Seq(Tokens) /\ bc \in Seq(Tokens)
  BY <1>3, <1>4, LinesApart, Zenon DEF HandledSoFar
<1>7. Only(Lines(bc), Rejects) = <<>>
  <2>1. Joint(Only(Lines(heard'), Rejects), Only(Lines(heard), Rejects), Only(Lines(bc), Rejects))
    BY <1>3, <1>4, <1>5, LinesApart, Zenon DEF HandledSoFar
  <2>2. Only(Lines(heard'), Rejects) = <<>>
    BY <1>2, Zenon DEF NoLineIsRejected
  <2>3. /\ Only(Lines(heard), Rejects) \in Seq(Rejects)
        /\ Only(Lines(bc), Rejects) \in Seq(Rejects)
    BY <1>4, <1>6, LinesAreTokens, OnlyOfContents, Zenon
  <2>4. ASSUME NEW S, NEW x \in Seq(S), NEW y \in Seq(S), x \o y = <<>> PROVE y = <<>>
    <3>1. Len(x \o y) = Len(x) + Len(y) /\ Len(x) \in Nat /\ Len(y) \in Nat /\ Len(x \o y) = 0
      BY <2>4
    <3>. QED
      BY <3>1
  <2>. QED
    BY <2>1, <2>2, <2>3, <2>4, Zenon DEF Joint
<1>8. buf' = Rest(bc) /\ got' = got \o now /\ UNCHANGED end
  BY <1>5, <1>7, Zenon DEF ReadLines
<1>9. now \in Seq(Messages) /\ got \in Seq(Messages)
  BY <1>4, <1>6, LinesAreTokens, OnlyOfContents, Zenon DEF HandledSoFar
<1>10. Joint(Only(Lines(bc \o wire'), Messages), now, Only(Lines(buf' \o wire'), Messages))
  BY <1>3, <1>6, <1>8, LinesApart, Zenon
<1>11. bc \o wire' = buf \o wire
  <2>1. Joint((buf \o chunk) \o wire', buf, chunk \o wire')
    BY <1>3, <1>6, ConcatAssociates, Zenon
  <2>. QED
    BY <1>3, <2>1, Zenon DEF Joint
<1>12. buf' \o wire' \in Seq(Tokens)
  BY <1>3, <1>6, <1>8, LinesApart, Zenon
<1>. HIDE DEF bc
<1>13. ToCome = Only(Lines(buf \o wire), Messages) /\ ToCome' = Only(Lines(buf' \o wire'), Messages)
  BY <1>2, Zenon DEF ToCome
<1>14. ToCome' \in Seq(Messages)
  BY <1>12, <1>13, LinesAreTokens, OnlyOfContents, Zenon
<1>. HIDE DEF now
<1>. QED
  BY <1>2, <1>8, <1>9, <1>10, <1>11, <1>13, <1>14, Zenon

\* Handing on some or none of what is to come is a step of a subscription.
LEMMA HandingOn ==
    ASSUME NEW now \in Seq(Messages), got \in Seq(Messages), ToCome' \in Seq(Messages),
           got' = got \o now, Joint(ToCome, now, ToCome'), ~ended, ~quit, UNCHANGED <<ended, quit>>
    PROVE  [Subscribed!Next]_(Subscribed!subscription)
<1>. DEFINE n == Len(now)
            c == ToCome
            d == ToCome'
<1>1. c = now \o d /\ d \in Seq(Messages) /\ n \in Nat
  BY DEF Joint
<1>. HIDE DEF c, d
<1>2. CASE n = 0
  <2>1. now = <<>>
    BY <1>2
  <2>2. got' = got /\ d = c
    BY <1>1, <2>1
  <2>. QED
    BY <2>2 DEF Subscribed!subscription, c, d
<1>3. CASE n # 0
  <2>1. n \in 1..Len(c) /\ SubSeq(c, 1, n) = now /\ SubSeq(c, n + 1, Len(c)) = d
    BY <1>1, <1>3
  <2>. HIDE DEF n
  <2>2. \E i \in 1..Len(c) : got' = got \o SubSeq(c, 1, i) /\ d = SubSeq(c, i + 1, Len(c))
    BY <2>1, Zenon
  <2>. QED
    BY <2>2, Zenon DEF Subscribed!Next, Subscribed!HandOn, c, d
<1>. QED
  BY <1>2, <1>3

\* Every step is one of the subscription, or none.
LEMMA SubscriptionStep ==
    ASSUME Accounted, Reading, EndsClosed, NoLineIsRejected', [Next]_vars
    PROVE  EndsClosed' /\ [Subscribed!Next]_(Subscribed!subscription)
<1>. DEFINE Step == [Subscribed!Next]_(Subscribed!subscription)
<1>1. CASE Answered
  <2>1. phase = "sent" /\ UNCHANGED <<kind, wire, buf, got, ended, quit>> /\ phase' \in {"ok", "refused"}
    BY <1>1 DEF Answered, body, end
  <2>2. ~ended /\ ~quit
    BY <2>1 DEF Accounted, EndsClosed
  <2>3. CASE phase' = "ok"
    <3>1. ToCome' = ToCome
      BY <2>1, <2>3 DEF ToCome
    <3>. QED
      BY <2>1, <2>2, <3>1 DEF EndsClosed, Subscribed!subscription
  <2>4. CASE phase' = "refused"
    <3>1. ToCome' = <<>>
      BY <2>4 DEF ToCome
    <3>. QED
      BY <2>1, <2>2, <3>1 DEF EndsClosed, Subscribed!Next, Subscribed!Withhold
  <2>. QED
    BY <2>1, <2>3, <2>4
<1>2. CASE Data
  <2>1. phase # "closed" /\ ~ended /\ ~quit
    BY <1>2 DEF Data, Accounted, EndsClosed
  <2>2. CASE kind = "stream" /\ phase = "ok"
    <3>1. UNCHANGED <<kind, phase, end>>
      BY <1>2, <2>2, ChunkIsHandedOn, Zenon
    <3>2. Step
      <4>1. PICK now \in Seq(Messages) : got' = got \o now /\ Joint(ToCome, now, ToCome')
        BY <1>2, <2>2, ChunkIsHandedOn, Zenon
      <4>2. got \in Seq(Messages) /\ ToCome' \in Seq(Messages)
        BY <1>2, <2>2, ChunkIsHandedOn, Zenon
      <4>3. UNCHANGED <<ended, quit>>
        BY <3>1 DEF end
      <4>. QED
        BY <2>1, <4>1, <4>2, <4>3, HandingOn, Zenon
    <3>3. EndsClosed'
      BY <3>1, Zenon DEF end, EndsClosed
    <3>. QED
      BY <3>2, <3>3
  <2>3. CASE ~(kind = "stream" /\ phase = "ok")
    <3>1. UNCHANGED <<kind, phase, got, ended, quit>>
      BY <1>2, <2>3 DEF Data, end
    <3>2. ToCome = <<>> /\ ToCome' = <<>>
      BY <1>2, <2>3, <3>1 DEF Data, ToCome
    <3>. QED
      BY <3>1, <3>2 DEF EndsClosed, Subscribed!subscription
  <2>. QED
    BY <2>2, <2>3
<1>3. ASSUME phase' = "closed", UNCHANGED <<kind, got>>, Fails \/ UNCHANGED end,
             phase \in {"sent", "ok"} /\ kind = "stream" => Fails, phase # "closed"
      PROVE  EndsClosed' /\ Step
  <2>1. ~ended /\ ~quit /\ ToCome' = <<>>
    BY <1>3 DEF Accounted, EndsClosed, ToCome
  <2>2. CASE kind = "stream" /\ Fails
    <3>1. ended' = TRUE /\ quit' = quit
      BY <2>2 DEF Fails, ReportEnd
    <3>. QED
      BY <1>3, <2>1, <2>2, <3>1 DEF EndsClosed, Subscribed!Next, Subscribed!Over
  <2>3. CASE ~(kind = "stream" /\ Fails)
    <3>1. ended' = ended /\ quit' = quit
      BY <1>3, <2>3 DEF Fails, Settle, end, EndsClosed
    <3>2. ToCome = <<>>
      BY <1>3, <2>3 DEF ToCome
    <3>. QED
      BY <1>3, <2>1, <3>1, <3>2 DEF EndsClosed, Subscribed!subscription
  <2>. QED
    BY <2>2, <2>3
<1>4. CASE BodyEnds
  <2>1. phase' = "closed" /\ UNCHANGED <<kind, got>> /\ phase # "closed"
    BY <1>4 DEF BodyEnds, body
  <2>2. Fails \/ (kind = "call" /\ Settle("resolved"))
    BY <1>4 DEF BodyEnds, Fails, EndsClosed
  <2>3. CASE Fails
    BY <1>3, <2>1, <2>3
  <2>4. CASE kind = "call" /\ Settle("resolved")
    <3>1. ended' = ended /\ quit' = quit /\ ToCome = <<>> /\ ToCome' = <<>>
      BY <2>1, <2>4 DEF Settle, ToCome
    <3>. QED
      BY <2>1, <2>4, <3>1 DEF EndsClosed, Subscribed!subscription
  <2>. QED
    BY <2>2, <2>3, <2>4
<1>5. CASE BreaksOff
  <2>1. phase' = "closed" /\ UNCHANGED <<kind, got>> /\ phase # "closed"
    BY <1>5 DEF BreaksOff, body
  <2>2. Fails \/ (phase = "refused" /\ UNCHANGED end)
    BY <1>5 DEF BreaksOff
  <2>. QED
    BY <1>3, <2>1, <2>2
<1>6. CASE RequestFails \/ Timeout
  <2>1. phase' = "closed" /\ UNCHANGED <<kind, got>> /\ phase # "closed" /\ Fails
    BY <1>6 DEF RequestFails, Timeout, body
  <2>. QED
    BY <1>3, <2>1
<1>7. CASE Close
  <2>1. /\ kind = "stream" /\ kind' = kind /\ got' = got /\ phase' = "closed"
        /\ ended' = TRUE /\ ~quit /\ quit' = (reports = 0) /\ ToCome' = <<>>
    BY <1>7 DEF Close, body, ToCome
  <2>2. CASE ended
    <3>1. quit' = FALSE /\ ToCome = <<>>
      BY <2>1, <2>2 DEF Accounted, EndsClosed, ToCome
    <3>. QED
      BY <2>1, <2>2, <3>1 DEF EndsClosed, Subscribed!subscription
  <2>3. CASE ~ended
    <3>1. quit' = TRUE
      BY <2>1, <2>3 DEF Accounted
    <3>. QED
      BY <2>1, <2>3, <3>1 DEF EndsClosed, Subscribed!Next, Subscribed!Over
  <2>. QED
    BY <2>2, <2>3
<1>8. CASE UNCHANGED vars
  <2>1. UNCHANGED <<kind, phase, wire, buf, got, ended, quit>>
    BY <1>8 DEF vars, body, end
  <2>. QED
    BY <2>1 DEF EndsClosed, ToCome, Subscribed!subscription
<1>. QED
  BY <1>1, <1>2, <1>4, <1>5, <1>6, <1>7, <1>8 DEF Next

\* A stream on which lnd sends no line but messages is a subscription: however the answer is cut
\* into chunks and wherever it breaks off, it hands on lnd's messages in their order, leaves none
\* out before its end and hands on none after it, and ends once, for its caller or by him
\* (stream() and the function that it returns).
THEOREM StreamIsASubscription == Spec /\ []NoLineIsRejected => Subscribed!Spec
<1>1. Init => Accounted /\ EndsClosed
  BY DEF Init, Accounted, EndsClosed
<1>2. Init => Reading /\ Subscribed!Init
  <2>. SUFFICES ASSUME Init PROVE Reading /\ Subscribed!Init
    OBVIOUS
  <2>1. wire \in Seq(Tokens)
    BY TextsAreTokens DEF Init
  <2>2. /\ heard = <<>> /\ buf = <<>> /\ got = <<>> /\ phase = "sent" /\ heard \in Seq(Tokens)
        /\ ended = FALSE /\ quit = FALSE
    BY DEF Init
  <2>3. phase # "ok"
    BY <2>2
  <2>4. Reading
    BY <2>1, <2>2, <2>3, Zenon DEF Reading
  <2>5. buf \o wire \in Seq(Tokens)
    BY <2>1, <2>2
  <2>6. Only(Lines(buf \o wire), Messages) \in Seq(Messages)
    BY <2>5, LinesAreTokens, OnlyOfContents, Zenon
  <2>7. ToCome \in Seq(Messages)
    <3>1. <<>> \in Seq(Messages)
      OBVIOUS
    <3>. QED
      BY <2>6, <3>1, Zenon DEF ToCome
  <2>. QED
    BY <2>2, <2>4, <2>7 DEF Subscribed!Init
<1>3. Accounted /\ [Next]_vars => Accounted'
  BY AccountedKept
<1>4. Accounted /\ Reading /\ [Next]_vars => Reading'
  BY ReadingKept
<1>5. Accounted /\ Reading /\ EndsClosed /\ NoLineIsRejected' /\ [Next]_vars
        => EndsClosed' /\ [Subscribed!Next]_(Subscribed!subscription)
  BY SubscriptionStep
<1>. QED
  BY <1>1, <1>2, <1>3, <1>4, <1>5, PTL DEF Spec, Subscribed!Spec
=============================================================================
