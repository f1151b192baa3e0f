----------------------------- MODULE WireProofs -----------------------------
(***************************************************************************)
(* Machine-checked facts about Wire, for every number of names, every size *)
(* of the alias range and every set of bodies:                             *)
(*                                                                         *)
(*   - an address stands for the name it was given for, or for one of      *)
(*     those that the embedder's resolver has answered it for;             *)
(*   - the client's parser makes of what is written the requests that are  *)
(*     whole, in order, however the writes are cut;                        *)
(*   - each of those goes to the host it names, or to what the address     *)
(*     that its guest connected to stands for;                             *)
(*   - the server's host is told the response that was written as soon as  *)
(*     it is whole, and never of one that is not.                          *)
(***************************************************************************)
EXTENDS WireInvariant, TLAPS, FiniteSetTheorems, FunctionTheorems,
        SequenceTheorems

(* The names.                                                              *)

(* The two parts of an alias are digits, and make up its number.           *)
LEMMA AliasFacts ==
  ASSUME NEW id \in 0..AliasMax
  PROVE  /\ id = (Base * (id \div Base)) + (id % Base)
         /\ id \div Base \in 0..(Base - 1)
         /\ (id \div Base) % Base = id \div Base
<1>1. Base \in Nat /\ Base > 1 /\ id \in Nat /\ id < Base * Base
  BY WireAssumption DEF AliasMax
<1>2. id = (Base * (id \div Base)) + (id % Base)
  BY <1>1
<1>3. id \div Base \in 0..(Base - 1)
  BY <1>1
<1>4. (id \div Base) % Base = id \div Base
  BY <1>1, <1>3
<1> QED
  BY <1>2, <1>3, <1>4

(* Two numbers of the range have two aliases.                              *)
LEMMA AliasApart ==
  ASSUME NEW i \in 0..AliasMax, NEW j \in 0..AliasMax, Alias(i) = Alias(j)
  PROVE  i = j
<1>1. i \div Base = j \div Base /\ i % Base = j % Base
  BY AliasFacts DEF Alias
<1> QED
  BY <1>1, AliasFacts

(* An alias is no address that a guest writes as such.                     *)
LEMMA KindsApart ==
  \A n, id : Host(n) # Alias(id) /\ Literal # Alias(id)
BY DEF Host, Literal, Alias

(* The numbers of the aliases used only grow.                              *)
LEMMA Widens ==
  ASSUME NEW m \in Int, NEW k \in Int, m <= k
  PROVE  \A id \in 1..(m - 1) : id \in 1..(k - 1)
OBVIOUS

(* An entry keeps the table, if it is the resolver's, or an alias for one  *)
(* name alone unless the resolver has answered it too.                     *)
LEMMA EnteredKeeps ==
  ASSUME NInv, NEW n, NEW a, NEW by, Assigned(n, a, by),
         Counter', next <= next',
         \/ by = "resolver"
         \/ /\ \E id \in 1..(next' - 1) : a = Alias(id)
            /\ a \in DOMAIN names => Resolved(a)
  PROVE  Table' /\ Entries' /\ Kept' /\ Unshared'
<1> DEFINE new == <<n, a, by>>
<1>0. /\ gave' = gave \cup {new}
      /\ DOMAIN names' = DOMAIN names \cup {a} /\ names'[a] = n
      /\ \A b \in DOMAIN names : b # a => names'[b] = names[b]
  BY DEF Assigned, Entered
<1>n. new[1] = n /\ new[2] = a /\ new[3] = by
  OBVIOUS
<1> HIDE DEF new
<1>1. Table'
  <2>1. {p[2] : p \in gave'} = {p[2] : p \in gave} \cup {a}
    BY <1>0, <1>n
  <2> QED
    BY <2>1, <1>0 DEF NInv, Table
<1>2. Entries'
  <2> SUFFICES ASSUME NEW b \in DOMAIN names'
               PROVE  \E p \in gave' : p[2] = b /\ p[1] = names'[b]
    BY DEF Entries
  <2>1. CASE b = a
    BY <2>1, <1>0, <1>n
  <2>2. CASE b # a
    <3>1. b \in DOMAIN names /\ names'[b] = names[b]
      BY <2>2, <1>0
    <3> QED
      BY <3>1, <1>0 DEF NInv, Entries
  <2> QED
    BY <2>1, <2>2
<1>3. Kept'
  <2> SUFFICES ASSUME NEW p \in gave'
               PROVE  \/ p[3] = "resolver"
                      \/ \E id \in 1..(next' - 1) : p[2] = Alias(id)
    BY DEF Kept
  <2>1. CASE p = new
    BY <2>1, <1>n
  <2>2. CASE p \in gave
    <3>1. \A id \in 1..(next - 1) : id \in 1..(next' - 1)
      <4>1. next \in Int /\ next' \in Int
        BY DEF NInv, Counter
      <4> QED
        BY <4>1, Widens
    <3> QED
      BY <2>2, <3>1 DEF NInv, Kept
  <2> QED
    BY <2>1, <2>2, <1>0
<1>4. Unshared'
  <2> SUFFICES ASSUME NEW p \in gave', NEW q \in gave', p[2] = q[2]
               PROVE  \/ p[1] = q[1]
                      \/ \E r \in gave' : r[2] = p[2] /\ r[3] = "resolver"
    BY DEF Unshared, Resolved
  <2>1. CASE p \in gave /\ q \in gave
    <3>1. p[1] = q[1] \/ \E r \in gave : r[2] = p[2] /\ r[3] = "resolver"
      BY <2>1 DEF NInv, Unshared, Resolved
    <3> QED
      BY <3>1, <1>0
  <2>2. CASE p = new /\ q = new
    BY <2>2
  <2>3. ASSUME p = new \/ q = new, p \in gave \/ q \in gave
        PROVE  \E r \in gave' : r[2] = p[2] /\ r[3] = "resolver"
    <3>1. p[2] = a /\ a \in DOMAIN names
      BY <2>3, <1>n DEF NInv, Table
    <3>2. by = "resolver" \/ \E r \in gave : r[2] = a /\ r[3] = "resolver"
      BY <3>1 DEF Resolved
    <3> QED
      BY <3>1, <3>2, <1>0, <1>n
  <2> QED
    BY <2>1, <2>2, <2>3, <1>0
<1> QED
  BY <1>1, <1>2, <1>3, <1>4

(* The embedder's resolver may give a name any address.                    *)
LEMMA ResolveGivenKeeps ==
  ASSUME NInv, NEW n \in Name, NEW a \in Given, ResolveGiven(n, a)
  PROVE  NInv'
<1>1. /\ Assigned(n, a, "resolver") /\ next' = next
      /\ UNCHANGED <<side, pc, told, dialled>>
  BY DEF ResolveGiven
<1>2. Counter' /\ next <= next'
  BY <1>1 DEF NInv, Counter
<1>3. Table' /\ Entries' /\ Kept' /\ Unshared'
  BY <1>1, <1>2, EnteredKeeps
<1>4. Dialled' /\ Parsed'
  BY <1>1 DEF NInv, Dialled, Parsed, told, dialled, Assigned
<1> QED
  BY <1>2, <1>3, <1>4 DEF NInv

(* The next alias is one that stands for no name, or one that the resolver *)
(* has answered.                                                           *)
LEMMA ResolveAliasKeeps ==
  ASSUME NInv, NEW n \in Name, ResolveAlias(n)
  PROVE  NInv'
<1>1. /\ Assigned(n, Alias(next), "alias")
      /\ next' = next + 1 /\ next <= AliasMax
      /\ UNCHANGED <<side, pc, told, dialled>>
  BY DEF ResolveAlias
<1>2. AliasMax \in Nat /\ next \in Nat \ {0}
  BY WireAssumption DEF NInv, Counter, AliasMax
<1>3. Alias(next) \in DOMAIN names => Resolved(Alias(next))
  <2> SUFFICES ASSUME NEW p \in gave, p[2] = Alias(next), p[3] # "resolver"
               PROVE  FALSE
    BY DEF NInv, Table, Resolved
  <2>1. PICK id \in 1..(next - 1) : Alias(next) = Alias(id)
    BY DEF NInv, Kept
  <2>2. id \in 0..AliasMax /\ next \in 0..AliasMax /\ id # next
    BY <1>1, <1>2
  <2> QED
    BY <2>1, <2>2, AliasApart
<1>4. /\ Counter' /\ next <= next' /\ next \in 1..(next' - 1)
  BY <1>1, <1>2 DEF Counter
<1>5. Table' /\ Entries' /\ Kept' /\ Unshared'
  BY <1>1, <1>3, <1>4, EnteredKeeps
<1>6. Dialled' /\ Parsed'
  BY <1>1 DEF NInv, Dialled, Parsed, told, dialled, Assigned
<1> QED
  BY <1>4, <1>5, <1>6 DEF NInv

(* The naming invariant is inductive.                                      *)
LEMMA NStep ==
  ASSUME NInv, [Next]_vars
  PROVE  NInv'
<1> USE DEF NInv, Counter, Table, Entries, Kept, Unshared, Resolved, Dialled,
            Parsed
<1>1. ASSUME NEW n \in Name, NEW a \in Given, ResolveGiven(n, a)
      PROVE  NInv'
  BY <1>1, ResolveGivenKeeps
<1>2. ASSUME NEW n \in Name, ResolveAlias(n)
      PROVE  NInv'
  BY <1>2, ResolveAliasKeeps
<1>3. ASSUME NEW p \in gave, Connect(p[2], Host(p[1]))
      PROVE  NInv'
  BY <1>3 DEF Connect, naming, told
<1>4. ASSUME NEW h \in {Literal, Host(1)}, Connect(h, h)
      PROVE  NInv'
  BY <1>4 DEF Connect, naming, told
<1>5. ASSUME NEW n \in 1..Len(Stream), Write(n)
      PROVE  NInv'
  BY <1>5 DEF Write, naming, dialled, told
<1>6. CASE TakeNothing
  BY <1>6 DEF TakeNothing, naming, dialled, told
<1>7. CASE TakeRequestHead
  BY <1>7 DEF TakeRequestHead, Taking, naming, dialled, told
<1>8. CASE TakeBadRequest
  BY <1>8 DEF TakeBadRequest, Taking, naming, dialled, told
<1>9. CASE TakeRequest
  BY <1>9 DEF TakeRequest, Taking, naming, dialled, told
<1>10. CASE TakeStatus
  BY <1>10 DEF TakeStatus, Taking, naming, dialled, told
<1>11. CASE TakeBadStatus
  BY <1>11 DEF TakeBadStatus, Settled, Taking, naming, dialled, told
<1>12. CASE TakeSized
  BY <1>12 DEF TakeSized, Settled, Taking, naming, dialled, told
<1>13. CASE TakeChunkBytes
  BY <1>13 DEF TakeChunkBytes, Taking, naming, dialled, told
<1>14. CASE TakeBlank
  BY <1>14 DEF TakeBlank, Taking, naming, dialled, told
<1>15. CASE TakeSize
  BY <1>15 DEF TakeSize, Taking, naming, dialled, told
<1>16. CASE TakeLastSize
  BY <1>16 DEF TakeLastSize, Settled, Taking, naming, dialled, told
<1>17. CASE TakeBadSize
  BY <1>17 DEF TakeBadSize, Settled, Taking, naming, dialled, told
<1>18. CASE TakeToClose
  BY <1>18 DEF TakeToClose, Taking, naming, dialled, told
<1>19. CASE Close
  BY <1>19 DEF Close, naming, dialled
<1>20. CASE UNCHANGED vars
  BY <1>20 DEF vars, naming, dialled, told
<1> QED
  BY <1>1, <1>2, <1>3, <1>4, <1>5, <1>6, <1>7, <1>8, <1>9, <1>10, <1>11,
     <1>12, <1>13, <1>14, <1>15, <1>16, <1>17, <1>18, <1>19, <1>20
  DEF Next, Client, Server

(* The table of names keeps its invariant, whatever is resolved between    *)
(* connecting and writing.                                                 *)
THEOREM NamingInvariance == Spec => []NInv
<1>1. Init => NInv
  <2> SUFFICES ASSUME Init PROVE NInv
    OBVIOUS
  <2>1. AliasMax \in Nat
    BY WireAssumption DEF AliasMax
  <2> QED
    BY <2>1
    DEF Init, NInv, Counter, Table, Entries, Kept, Unshared, Dialled, Parsed
<1>2. NInv /\ [Next]_vars => NInv'
  BY NStep
<1> QED
  BY <1>1, <1>2, PTL DEF Spec

(* What a dialled address stands for, of those in the table: the host it   *)
(* was given for, or one of those the resolver gave it for.                *)
LEMMA Stands ==
  ASSUME NInv, NEW p \in gave
  PROVE  NameOf(p[2]) \in StandsFor(p[2], Host(p[1]))
<1>1. p[2] \in DOMAIN names
  BY DEF NInv, Table
<1>2. PICK q \in gave : q[2] = p[2] /\ q[1] = names[p[2]]
  BY <1>1 DEF NInv, Entries
<1>3. NameOf(p[2]) = Host(q[1])
  BY <1>1, <1>2 DEF NameOf
<1>4. CASE Resolved(p[2])
  BY <1>2, <1>3, <1>4 DEF StandsFor
<1>5. CASE ~Resolved(p[2])
  BY <1>2, <1>3, <1>5 DEF StandsFor, NInv, Unshared
<1> QED
  BY <1>4, <1>5

(* nameOf() of an address that resolve() gave out is the name it was given *)
(* for, for ever after, as long as the embedder's resolver has not         *)
(* answered that address: no alias is used twice, though the two parts of  *)
(* one are taken modulo the size of the range.  Of an address that the     *)
(* resolver has answered it is one of the names it was given for, which    *)
(* need not be the one that the guest that asked meant.                    *)
THEOREM AddressesStand == Spec => []NamesStand
<1>1. NInv => NamesStand
  BY Stands DEF NamesStand
<1> QED
  BY <1>1, NamingInvariance, PTL

-----------------------------------------------------------------------------
(* Lines and heads on the wire.                                            *)

Plain(lines) == /\ lines \in Seq(Tokens) /\ Len(lines) >= 1
                /\ \A k \in 1..Len(lines) : lines[k] # CR /\ lines[k] # LF

(* What a token is made of, and which tokens are ends of lines.            *)
LEMMA TokenFacts ==
  /\ \A t, v : Token(t, v).t = t /\ Token(t, v).v = v
  /\ \A t \in Kinds, v \in Int : Token(t, v) \in Tokens
  /\ CR \in Tokens /\ LF \in Tokens /\ Byte \in Tokens
  /\ CR # LF /\ Byte # CR /\ Byte # LF
  /\ \A t, v : t # "CR" => Token(t, v) # CR
  /\ \A t, v : t # "LF" => Token(t, v) # LF
<1>1. CR.t = "CR" /\ LF.t = "LF" /\ Byte.t = "byte"
  BY DEF CR, LF, Byte, Token
<1>2. \A t, v : Token(t, v).t = t /\ Token(t, v).v = v
  BY DEF Token
<1>3. \A t \in Kinds, v \in Int : Token(t, v) \in Tokens
  BY DEF Token, Tokens
<1>4. CR \in Tokens /\ LF \in Tokens /\ Byte \in Tokens
  BY DEF CR, LF, Byte, Token, Tokens, Kinds
<1>5. "CR" # "LF" /\ "byte" # "CR" /\ "byte" # "LF"
  OBVIOUS
<1> QED
  BY <1>1, <1>2, <1>3, <1>4, <1>5

(* A part of a sequence of tokens, by its places.                          *)
LEMMA SubFacts ==
  ASSUME NEW s \in Seq(Tokens), NEW m \in 1..(Len(s) + 1),
         NEW n \in (m - 1)..Len(s)
  PROVE  /\ SubSeq(s, m, n) \in Seq(Tokens)
         /\ Len(SubSeq(s, m, n)) = (n - m) + 1
         /\ \A i \in 1..((n - m) + 1) : SubSeq(s, m, n)[i] = s[(m + i) - 1]
<1>1. \A i \in m..n : s[i] \in Tokens
  <2>1. m..n \subseteq 1..Len(s)
    BY LenProperties
  <2> QED
    BY <2>1, ElementOfSeq
<1>2. m \in Int /\ n \in Int /\ (n - m) + 1 = (IF m <= n THEN (n - m) + 1 ELSE 0)
  BY LenProperties
<1>3. /\ SubSeq(s, m, n) \in Seq(Tokens)
      /\ Len(SubSeq(s, m, n)) = IF m <= n THEN (n - m) + 1 ELSE 0
      /\ \A i \in 1..((n - m) + 1) : SubSeq(s, m, n)[i] = s[(m + i) - 1]
  BY <1>1, <1>2, SubSeqProperties
<1> QED
  BY <1>2, <1>3

(* A sequence of one.                                                      *)
LEMMA Single ==
  ASSUME NEW u \in Seq(Tokens), Len(u) = 1
  PROVE  u = <<u[1]>>
OBVIOUS

(* A head on the wire: each line is three tokens, and a blank line ends    *)
(* it.                                                                     *)
LEMMA HeadOfFacts ==
  ASSUME NEW lines \in Seq(Tokens)
  PROVE  LET n == Len(lines) IN
         /\ HeadOf(lines) \in Seq(Tokens)
         /\ Len(HeadOf(lines)) = (3 * n) + 2
         /\ HeadOf(lines)[(3 * n) + 1] = CR /\ HeadOf(lines)[(3 * n) + 2] = LF
         /\ \A k \in 1..n : /\ HeadOf(lines)[(3 * k) - 2] = lines[k]
                            /\ HeadOf(lines)[(3 * k) - 1] = CR
                            /\ HeadOf(lines)[3 * k] = LF
<1> DEFINE n == Len(lines)
           H == HeadOf(lines)
           At(i) == IF i <= 3 * n
                      THEN <<lines[(i + 2) \div 3], CR, LF>>[((i - 1) % 3) + 1]
                      ELSE <<CR, LF>>[i - (3 * n)]
<1>1. n \in Nat
  OBVIOUS
<1>2. H = [i \in 1..((3 * n) + 2) |-> At(i)]
  BY DEF HeadOf, CRLF
<1> HIDE DEF n, H
<1>3. At((3 * n) + 1) = CR /\ At((3 * n) + 2) = LF
  BY <1>1
<1>4. ASSUME NEW k \in 1..n
      PROVE  /\ At((3 * k) - 2) = lines[k] /\ At((3 * k) - 1) = CR
             /\ At(3 * k) = LF
  <2>1. /\ (((3 * k) - 2) + 2) \div 3 = k /\ (((3 * k) - 2) - 1) % 3 = 0
        /\ (((3 * k) - 1) - 1) % 3 = 1 /\ ((3 * k) - 1) % 3 = 2
        /\ (3 * k) - 2 <= 3 * n /\ (3 * k) - 1 <= 3 * n /\ 3 * k <= 3 * n
    BY <1>1
  <2> QED
    BY <2>1
<1>5. \A k \in 1..n : (3 * k) - 2 \in 1..((3 * n) + 2)
                      /\ (3 * k) - 1 \in 1..((3 * n) + 2)
                      /\ 3 * k \in 1..((3 * n) + 2)
  BY <1>1
<1>6. ASSUME NEW i \in 1..((3 * n) + 2) PROVE At(i) \in Tokens
  <2>1. CASE i <= 3 * n
    <3>1. (i + 2) \div 3 \in 1..n /\ (i - 1) % 3 \in 0..2
      BY <1>1, <2>1
    <3>2. lines[(i + 2) \div 3] \in Tokens
      BY <3>1 DEF n
    <3>3. ((i - 1) % 3) + 1 \in 1..3
      BY <3>1
    <3> QED
      BY <2>1, <3>2, <3>3, TokenFacts
  <2>2. CASE i = (3 * n) + 1 \/ i = (3 * n) + 2
    BY <2>2, <1>3, TokenFacts
  <2> QED
    BY <1>1, <2>1, <2>2
<1> HIDE DEF At
<1>7. H \in Seq(Tokens) /\ Len(H) = (3 * n) + 2
  <2>1. (3 * n) + 2 \in Nat
    BY <1>1
  <2>2. H \in [1..((3 * n) + 2) -> Tokens]
    BY <1>2, <1>6
  <2> QED
    BY <2>1, <2>2
<1>8. H[(3 * n) + 1] = CR /\ H[(3 * n) + 2] = LF
  BY <1>1, <1>2, <1>3
<1> QED
  BY <1>2, <1>4, <1>5, <1>7, <1>8 DEF n, H

(* The end that no other comes before is the first.                        *)
LEMMA FirstEnd ==
  ASSUME NEW mark \in Seq(Tokens), NEW b \in Seq(Tokens),
         NEW e \in Ends(mark, b), \A i \in Ends(mark, b) : e <= i
  PROVE  EndOf(mark, b) = e
<1>1. \A i \in Ends(mark, b) : i \in Int
  BY DEF Ends
<1>2. \A d \in Ends(mark, b) :
        (\A i \in Ends(mark, b) : d <= i) => d = e
  BY <1>1
<1> QED
  BY <1>2 DEF EndOf, Min

(* Where the first head ends in a buffer that holds a part of it or more.  *)
LEMMA HeadEnds ==
  ASSUME NEW lines, Plain(lines), NEW b \in Seq(Tokens),
         \A i \in 1..Len(b) :
           i <= (3 * Len(lines)) + 2 => b[i] = HeadOf(lines)[i]
  PROVE  EndOfHead(b) = IF Len(b) >= (3 * Len(lines)) + 2
                          THEN (3 * Len(lines)) + 2 ELSE 0
<1> DEFINE n == Len(lines)
           H == HeadOf(lines)
           top == (3 * n) + 2
<1>0. n \in Nat /\ n >= 1 /\ Len(b) \in Nat /\ lines \in Seq(Tokens)
  BY DEF Plain
<1>1. /\ H[(3 * n) + 1] = CR /\ H[top] = LF
      /\ \A k \in 1..n : /\ H[(3 * k) - 2] = lines[k]
                         /\ H[(3 * k) - 1] = CR /\ H[3 * k] = LF
  BY <1>0, HeadOfFacts
<1>2. /\ Blank[1] = CR /\ Blank[2] = LF /\ Blank[3] = CR /\ Blank[4] = LF
      /\ Len(Blank) = 4 /\ Blank \in Seq(Tokens)
  BY TokenFacts DEF Blank
<1>3. Ends(Blank, b) = {i \in 4..Len(b) : /\ b[i - 3] = CR /\ b[i - 2] = LF
                                         /\ b[i - 1] = CR /\ b[i] = LF}
  <2>1. \A i \in 4..Len(b) : /\ (i - 4) + 1 = i - 3 /\ (i - 4) + 2 = i - 2
                             /\ (i - 4) + 3 = i - 1 /\ (i - 4) + 4 = i
    BY <1>0
  <2>2. 1..4 = {1, 2, 3, 4}
    OBVIOUS
  <2>3. \A i \in 4..Len(b) :
          (\A j \in 1..4 : b[(i - 4) + j] = Blank[j])
            <=> /\ b[i - 3] = CR /\ b[i - 2] = LF
                /\ b[i - 1] = CR /\ b[i] = LF
    BY <1>2, <2>1, <2>2
  <2> QED
    BY <1>2, <2>3 DEF Ends
<1>4. b = [i \in 1..Len(b) |-> b[i]] /\ \A i \in 1..Len(b) : i <= top => b[i] = H[i]
  OBVIOUS
<1> HIDE DEF n, H
<1>5. ASSUME NEW i \in Ends(Blank, b), i < top PROVE FALSE
  <2>0. i \in 4..Len(b) /\ b[i - 2] = LF /\ b[i] = LF
    BY <1>3
  <2>1. i - 2 \in 1..Len(b) /\ i \in 1..Len(b) /\ i <= top /\ i - 2 <= top
    BY <2>0, <1>0, <1>5
  <2>2. H[i] = LF /\ H[i - 2] = LF
    BY <2>0, <2>1, <1>4
  <2>3. i # (3 * n) + 1
    BY <2>2, <1>1, TokenFacts
  <2>4. i \in 1..(3 * n)
    BY <2>0, <2>3, <1>5, <1>0
  <2>5. PICK k \in 1..n : i = (3 * k) - 2 \/ i = (3 * k) - 1 \/ i = 3 * k
    <3>1. /\ (i + 2) \div 3 \in 1..n
          /\ \/ i = (3 * ((i + 2) \div 3)) - 2 \/ i = (3 * ((i + 2) \div 3)) - 1
             \/ i = 3 * ((i + 2) \div 3)
      BY <2>4, <1>0
    <3> QED
      BY <3>1
  <2>6. lines[k] # LF /\ lines[k] # CR
    BY DEF Plain, n
  <2>7. CASE i = 3 * k
    BY <2>2, <2>6, <2>7, <1>1
  <2>8. CASE i = (3 * k) - 2
    BY <2>2, <2>6, <2>8, <1>1
  <2>9. CASE i = (3 * k) - 1
    BY <2>2, <2>9, <1>1, TokenFacts
  <2> QED
    BY <2>5, <2>7, <2>8, <2>9
<1>6. CASE Len(b) >= top
  <2>1. top \in 4..Len(b) /\ top - 3 \in 1..Len(b) /\ top - 2 \in 1..Len(b)
        /\ top - 1 \in 1..Len(b) /\ top - 3 = (3 * n) - 1 /\ top - 2 = 3 * n
        /\ top - 1 = (3 * n) + 1 /\ n \in 1..n /\ top \in 1..Len(b)
        /\ top - 3 <= top /\ top - 2 <= top /\ top - 1 <= top /\ top <= top
    BY <1>0, <1>6
  <2>2. b[top - 3] = H[(3 * n) - 1] /\ b[top - 2] = H[3 * n]
        /\ b[top - 1] = H[(3 * n) + 1] /\ b[top] = H[top]
    BY <2>1, <1>4
  <2>3. top \in Ends(Blank, b)
    BY <2>1, <2>2, <1>1, <1>3
  <2>4. ASSUME NEW i \in Ends(Blank, b) PROVE top <= i
    <3>1. i \in Int /\ top \in Int
      BY <1>0, <1>3
    <3> QED
      BY <3>1, <1>5
  <2>5. EndOf(Blank, b) = top
    BY <2>3, <2>4, <1>2, FirstEnd
  <2> QED
    BY <2>5, <1>6 DEF EndOfHead, n
<1>7. CASE ~(Len(b) >= top)
  <2>1. Ends(Blank, b) = {}
    BY <1>3, <1>5, <1>7, <1>0
  <2> QED
    BY <2>1, <1>7 DEF EndOfHead, EndOf, n
<1> QED
  BY <1>6, <1>7

(* How many multiples of three there are.                                  *)
LEMMA Multiples ==
  ASSUME NEW n \in Nat, NEW k \in 0..n
  PROVE  /\ IsFiniteSet({3 * j : j \in 1..k})
         /\ Cardinality({3 * j : j \in 1..k}) = k
<1> DEFINE f == [j \in 1..k |-> 3 * j]
           S == {3 * j : j \in 1..k}
<1>1. f \in Bijection(1..k, S)
  <2>1. f \in [1..k -> S] /\ \A x \in S : \E j \in 1..k : f[j] = x
    OBVIOUS
  <2>2. \A i, j \in 1..k : f[i] = f[j] => i = j
    OBVIOUS
  <2> QED
    BY <2>1, <2>2, Fun_IsBij
<1>2. IsFiniteSet(1..k) /\ Cardinality(1..k) = k
  BY FS_Interval
<1>3. ExistsBijection(1..k, S)
  BY <1>1 DEF ExistsBijection
<1> HIDE DEF S, f
<1>4. IsFiniteSet(S) /\ Cardinality(S) = k
  BY <1>2, <1>3, FS_Bijection
<1> QED
  BY <1>4 DEF S

(* The lines of a head's text are those it was made of.                    *)
LEMMA LinesOf ==
  ASSUME NEW lines, Plain(lines), NEW b \in Seq(Tokens),
         Len(b) >= (3 * Len(lines)) + 2,
         \A i \in 1..Len(b) :
           i <= (3 * Len(lines)) + 2 => b[i] = HeadOf(lines)[i]
  PROVE  Lines(SubSeq(b, 1, 3 * Len(lines))) = Split(lines)
<1> DEFINE n == Len(lines)
           H == HeadOf(lines)
           text == SubSeq(b, 1, 3 * n)
           ends == Ends(CRLF, text)
<1>0. n \in Nat /\ n >= 1 /\ Len(b) \in Nat /\ lines \in Seq(Tokens)
  BY DEF Plain
<1>1. \A k \in 1..n : /\ H[(3 * k) - 2] = lines[k]
                     /\ H[(3 * k) - 1] = CR /\ H[3 * k] = LF
  BY <1>0, HeadOfFacts
<1>2. CRLF[1] = CR /\ CRLF[2] = LF /\ Len(CRLF) = 2
  BY DEF CRLF
<1>3. /\ text \in Seq(Tokens) /\ Len(text) = 3 * n
      /\ \A i \in 1..(3 * n) : text[i] = H[i]
  <2>1. 3 * n \in 0..Len(b)
    BY <1>0
  <2>2. text \in Seq(Tokens) /\ Len(text) = 3 * n
        /\ \A i \in 1..(3 * n) : text[i] = b[i]
    BY <2>1
  <2> QED
    BY <2>2, <1>0
<1> HIDE DEF n, H, text
<1>4. ends = {i \in 2..(3 * n) : text[i - 1] = CR /\ text[i] = LF}
  <2>1. \A i \in 2..(3 * n) : (i - 2) + 1 = i - 1 /\ (i - 2) + 2 = i
    BY <1>0
  <2>2. 1..2 = {1, 2}
    OBVIOUS
  <2> QED
    BY <1>2, <1>3, <2>1, <2>2 DEF Ends
<1>5. ends = {3 * k : k \in 1..n}
  <2>1. ASSUME NEW i \in ends PROVE i \in {3 * k : k \in 1..n}
    <3>1. i \in 2..(3 * n) /\ text[i] = LF
      BY <1>4
    <3>2. i \in 1..(3 * n) /\ H[i] = LF
      BY <3>1, <1>3, <1>0
    <3>5. PICK k \in 1..n : i = (3 * k) - 2 \/ i = (3 * k) - 1 \/ i = 3 * k
      <4>1. /\ (i + 2) \div 3 \in 1..n
            /\ \/ i = (3 * ((i + 2) \div 3)) - 2 \/ i = (3 * ((i + 2) \div 3)) - 1
               \/ i = 3 * ((i + 2) \div 3)
        BY <3>2, <1>0
      <4> QED
        BY <4>1
    <3>6. lines[k] # LF /\ lines[k] # CR
      BY DEF Plain, n
    <3>7. i = 3 * k
      BY <3>5, <3>2, <3>6, <1>1, TokenFacts
    <3> QED
      BY <3>7
  <2>2. ASSUME NEW k \in 1..n PROVE 3 * k \in ends
    <3>1. 3 * k \in 2..(3 * n) /\ (3 * k) - 1 \in 1..(3 * n) /\ 3 * k \in 1..(3 * n)
      BY <1>0
    <3>2. text[(3 * k) - 1] = CR /\ text[3 * k] = LF
      BY <3>1, <1>1, <1>3
    <3> QED
      BY <3>1, <3>2, <1>4
  <2> QED
    BY <2>1, <2>2
<1>6. Cardinality(ends) = n
  <2>1. n \in 0..n
    BY <1>0
  <2> QED
    BY <1>0, <1>5, <2>1, Multiples
<1>7. ASSUME NEW k \in 1..n PROVE Nth(ends, k) = 3 * k
  <2>1. ASSUME NEW j \in 1..n
        PROVE  Cardinality({i \in ends : i <= 3 * j}) = j
    <3>1. {i \in ends : i <= 3 * j} = {3 * i : i \in 1..j}
      BY <1>0, <1>5
    <3>2. j \in 0..n
      BY <1>0
    <3> QED
      BY <3>1, <3>2, <1>0, Multiples
  <2>2. \A i \in ends : Cardinality({d \in ends : d <= i}) = k => i = 3 * k
    BY <2>1, <1>5
  <2>3. 3 * k \in ends
    BY <1>5
  <2> QED
    BY <2>1, <2>2, <2>3 DEF Nth
<1> DEFINE End(k) == IF k = 0 THEN 0 ELSE Nth(ends, k)
<1>8. \A k \in 0..n : End(k) = 3 * k
  BY <1>0, <1>7
<1>9. Lines(text) = [k \in 1..n |-> SubSeq(text, End(k - 1) + 1, End(k) - 2)]
  BY <1>6 DEF Lines
<1> HIDE DEF ends, End
<1>10. ASSUME NEW k \in 1..n
       PROVE  SubSeq(text, End(k - 1) + 1, End(k) - 2) = <<lines[k]>>
  <2>1. End(k - 1) + 1 = (3 * k) - 2 /\ End(k) - 2 = (3 * k) - 2
        /\ (3 * k) - 2 \in 1..(3 * n)
    BY <1>0, <1>8
  <2>2. text[(3 * k) - 2] = lines[k]
    BY <2>1, <1>1, <1>3
  <2>3. SubSeq(text, (3 * k) - 2, (3 * k) - 2) = <<text[(3 * k) - 2]>>
    <3> DEFINE i == (3 * k) - 2
    <3>1. i \in 1..Len(text) /\ i \in Int
      BY <2>1, <1>3
    <3> HIDE DEF i
    <3>2. SubSeq(text, i, i) = <<text[i]>>
      <4>1. /\ SubSeq(text, i, i) \in Seq(Tokens)
            /\ Len(SubSeq(text, i, i)) = 1 /\ SubSeq(text, i, i)[1] = text[i]
        BY <3>1, <1>3, SubFacts
      <4> QED
        BY <4>1, Single
    <3> QED
      BY <3>2 DEF i
  <2> QED
    BY <2>1, <2>2, <2>3
<1>11. Lines(text) = [k \in 1..n |-> <<lines[k]>>]
  BY <1>9, <1>10
<1> QED
  BY <1>11 DEF Split, text, n

HeaderNames == {"host", "length", "encoding", "other"}

(* headerValue() of a name that no line has.                               *)
LEMMA ValueNone ==
  ASSUME NEW lines \in Seq(Tokens), NEW name, NEW none,
         \A k \in 2..Len(lines) : lines[k].t # name
  PROVE  HeaderValue(Split(lines), name, none) = none
<1>1. /\ Len(Split(lines)) = Len(lines)
      /\ \A k \in 1..Len(lines) : Split(lines)[k] = <<lines[k]>>
  BY DEF Split
<1>2. {k \in 2..Len(Split(lines)) : HeaderLine(Split(lines)[k])
                                      /\ Split(lines)[k][1].t = name} = {}
  BY <1>1
<1> QED
  BY <1>2 DEF HeaderValue

(* headerValue() of a name is the value of the first line that has it,     *)
(* unless the next goes on with that.                                      *)
LEMMA ValueIs ==
  ASSUME NEW lines \in Seq(Tokens), NEW name \in HeaderNames, NEW none,
         NEW k \in 2..Len(lines), lines[k].t = name,
         \A j \in 2..(k - 1) : lines[j].t # name,
         k < Len(lines) => lines[k + 1].t # "fold"
  PROVE  HeaderValue(Split(lines), name, none) = lines[k].v
<1> DEFINE ls == Split(lines)
           at == {j \in 2..Len(ls) : HeaderLine(ls[j]) /\ ls[j][1].t = name}
<1>1. /\ Len(ls) = Len(lines)
      /\ \A j \in 1..Len(lines) :
           ls[j] = <<lines[j]>> /\ Len(ls[j]) = 1 /\ ls[j][1] = lines[j]
  BY DEF Split
<1> HIDE DEF ls
<1>2. at = {j \in 2..Len(lines) : lines[j].t = name}
  BY <1>1 DEF HeaderLine, HeaderNames
<1> HIDE DEF at
<1>3. k \in at /\ \A j \in at : k <= j /\ j \in Int
  BY <1>2
<1>4. Min(at) = k
  <2>1. \A d \in at : (\A j \in at : d <= j) => d = k
    BY <1>3
  <2> QED
    BY <1>3, <2>1 DEF Min
<1>5. ~(k < Len(ls) /\ FoldLine(ls[k + 1]))
  <2> SUFFICES ASSUME k < Len(ls) PROVE ~FoldLine(ls[k + 1])
    OBVIOUS
  <2>1. k + 1 \in 1..Len(lines)
    BY <1>1
  <2> QED
    BY <1>1, <2>1 DEF FoldLine
<1>6. HeaderValue(ls, name, none) = ls[k][1].v
  BY <1>3, <1>4, <1>5 DEF HeaderValue, at
<1> QED
  BY <1>1, <1>6 DEF ls

(* parseHead() and parseStatus(): which heads are well formed.             *)
LEMMA OkIs ==
  ASSUME NEW lines \in Seq(Tokens), Len(lines) >= 1, NEW first
  PROVE  HeadOk(Split(lines), first) <=>
           /\ lines[1].t = first
           /\ \A k \in 2..Len(lines) :
                lines[k].t \in HeaderNames \/ (lines[k].t = "fold" /\ k > 2)
<1> DEFINE ls == Split(lines)
<1>1. /\ Len(ls) = Len(lines)
      /\ \A j \in 1..Len(lines) :
           ls[j] # <<>> /\ Len(ls[j]) = 1 /\ ls[j][1] = lines[j]
  BY DEF Split
<1> HIDE DEF ls
<1>2. 1 \in 1..Len(lines) /\ \A k \in 2..Len(lines) : k \in 1..Len(lines)
  OBVIOUS
<1>3. HeadOk(ls, first) <=>
           /\ lines[1].t = first
           /\ \A k \in 2..Len(lines) :
                lines[k].t \in HeaderNames \/ (lines[k].t = "fold" /\ k > 2)
  BY <1>1, <1>2 DEF HeadOk, HeaderLine, FoldLine, HeaderNames
<1> QED
  BY <1>3 DEF ls

(* What the lines that a message is made of are.                           *)
LEMMA LineFacts ==
  /\ \A n : Length(n).t = "length" /\ Length(n).v = n
  /\ \A n \in Int : Length(n) \in Tokens
  /\ Status.t = "status" /\ Status.v = 200 /\ Status \in Tokens
  /\ Encoding.t = "encoding" /\ Encoding \in Tokens
  /\ CR.t = "CR" /\ LF.t = "LF"
BY DEF Length, Status, Encoding, CR, LF, Token, Tokens, Kinds

(* A head of three lines or fewer, none of which goes on with another.     *)
Short(lines) == /\ lines \in Seq(Tokens) /\ Len(lines) \in 1..3
                /\ \A k \in 1..Len(lines) : lines[k].t \notin {"CR", "LF", "fold"}

(* What the parser makes of a head of at most two headers.                 *)
LEMMA ShortHeads ==
  ASSUME NEW lines, Short(lines)
  PROVE  /\ Plain(lines)
         /\ \A first : HeadOk(Split(lines), first) <=>
              /\ lines[1].t = first
              /\ Len(lines) >= 2 => lines[2].t \in HeaderNames
              /\ Len(lines) = 3 => lines[3].t \in HeaderNames
         /\ \A name \in HeaderNames : \A none :
              HeaderValue(Split(lines), name, none) =
                IF Len(lines) >= 2 /\ lines[2].t = name THEN lines[2].v
                ELSE IF Len(lines) = 3 /\ lines[3].t = name THEN lines[3].v
                ELSE none
<1>1. /\ Len(lines) \in {1, 2, 3} /\ lines \in Seq(Tokens)
      /\ \A k \in 1..Len(lines) : lines[k].t \notin {"CR", "LF", "fold"}
  BY DEF Short
<1>2. Plain(lines)
  <2>1. \A k \in 1..Len(lines) : lines[k] # CR /\ lines[k] # LF
    BY <1>1, LineFacts
  <2> QED
    BY <1>1, <2>1 DEF Plain
<1>3. \A k \in 2..Len(lines) : k = 2 \/ (k = 3 /\ Len(lines) = 3)
  BY <1>1
<1>4. (Len(lines) >= 2 => 2 \in 2..Len(lines) /\ 2 \in 1..Len(lines))
      /\ (Len(lines) = 3 => 3 \in 2..Len(lines) /\ 3 \in 1..Len(lines))
  BY <1>1
<1>5. ASSUME NEW first
      PROVE  HeadOk(Split(lines), first) <=>
              /\ lines[1].t = first
              /\ Len(lines) >= 2 => lines[2].t \in HeaderNames
              /\ Len(lines) = 3 => lines[3].t \in HeaderNames
  <2>1. Len(lines) >= 1
    BY <1>1
  <2>2. HeadOk(Split(lines), first) <=>
           /\ lines[1].t = first
           /\ \A k \in 2..Len(lines) :
                lines[k].t \in HeaderNames \/ (lines[k].t = "fold" /\ k > 2)
    BY <2>1, <1>1, OkIs
  <2>3. \A k \in 2..Len(lines) : lines[k].t # "fold"
    BY <1>1
  <2> QED
    BY <2>2, <2>3, <1>1, <1>3, <1>4
<1>6. ASSUME NEW name \in HeaderNames, NEW none
      PROVE  HeaderValue(Split(lines), name, none) =
                IF Len(lines) >= 2 /\ lines[2].t = name THEN lines[2].v
                ELSE IF Len(lines) = 3 /\ lines[3].t = name THEN lines[3].v
                ELSE none
  <2>1. CASE Len(lines) >= 2 /\ lines[2].t = name
    <3>1. /\ 2 \in 2..Len(lines) /\ \A j \in 2..(2 - 1) : lines[j].t # name
          /\ 2 < Len(lines) => lines[2 + 1].t # "fold"
      BY <2>1, <1>1, <1>4
    <3> QED
      BY <3>1, <2>1, <1>1, ValueIs
  <2>2. CASE lines[2].t # name /\ Len(lines) = 3 /\ lines[3].t = name
    <3>1. /\ 3 \in 2..Len(lines) /\ \A j \in 2..(3 - 1) : lines[j].t # name
          /\ 3 < Len(lines) => lines[3 + 1].t # "fold"
      BY <2>2, <1>1, <1>4
    <3> QED
      BY <3>1, <2>2, <1>1, ValueIs
  <2>3. CASE ~(Len(lines) >= 2 /\ lines[2].t = name)
             /\ ~(Len(lines) = 3 /\ lines[3].t = name)
    <3>1. \A k \in 2..Len(lines) : lines[k].t # name
      BY <2>3, <1>3, <1>1
    <3> QED
      BY <3>1, <2>3, <1>1, ValueNone
  <2> QED
    BY <2>1, <2>2, <2>3
<1> QED
  BY <1>2, <1>5, <1>6

-----------------------------------------------------------------------------
(* The messages of a client, and what the parser makes of them.            *)

(* Sequences of two and of three.                                          *)
LEMMA Tuples ==
  ASSUME NEW u \in Seq(Tokens)
  PROVE  /\ Len(u) = 2 => u = <<u[1], u[2]>>
         /\ Len(u) = 3 => u = <<u[1], u[2], u[3]>>
OBVIOUS

(* Short sequences, joined.                                                *)
LEMMA Joins ==
  ASSUME NEW x \in Tokens, NEW y \in Tokens, NEW z \in Tokens
  PROVE  /\ <<x>> \o <<>> = <<x>> /\ <<x, y>> \o <<>> = <<x, y>>
         /\ <<x>> \o <<y>> = <<x, y>> /\ <<x, y>> \o <<z>> = <<x, y, z>>
<1>1. /\ <<x>> \in Seq(Tokens) /\ <<x, y>> \in Seq(Tokens)
      /\ <<y>> \in Seq(Tokens) /\ <<z>> \in Seq(Tokens)
  OBVIOUS
<1>2. <<x>> \o <<>> = <<x>> /\ <<x, y>> \o <<>> = <<x, y>>
  BY <1>1, ConcatEmptySeq
<1>3. <<x>> \o <<y>> = <<x, y>>
  <2> DEFINE u == <<x>> \o <<y>>
  <2>1. /\ u \in Seq(Tokens) /\ Len(u) = 2
        /\ \A i \in 1..2 : u[i] = IF i <= 1 THEN <<x>>[i] ELSE <<y>>[i - 1]
    BY <1>1, ConcatProperties
  <2> HIDE DEF u
  <2>2. u[1] = x /\ u[2] = y
    BY <2>1
  <2>3. u = <<x, y>>
    BY <2>1, <2>2, Tuples
  <2> QED
    BY <2>3 DEF u
<1>4. <<x, y>> \o <<z>> = <<x, y, z>>
  <2> DEFINE u == <<x, y>> \o <<z>>
  <2>1. /\ u \in Seq(Tokens) /\ Len(u) = 3
        /\ \A i \in 1..3 : u[i] = IF i <= 2 THEN <<x, y>>[i] ELSE <<z>>[i - 2]
    BY <1>1, ConcatProperties
  <2> HIDE DEF u
  <2>2. u[1] = x /\ u[2] = y /\ u[3] = z
    BY <2>1
  <2>3. u = <<x, y, z>>
    BY <2>1, <2>2, Tuples
  <2> QED
    BY <2>3 DEF u
<1> QED
  BY <1>2, <1>3, <1>4

(* What the parser makes of the head of a request.                         *)
LEMMA RequestFacts ==
  ASSUME NEW target \in Nat, NEW host \in Nat, NEW bytes \in Seq(Tokens)
  PROVE  LET lines == Request(target, host, bytes).lines IN
         /\ Plain(lines) /\ RequestOk(Split(lines))
         /\ HeaderValue(Split(lines), "length", 0) = Len(bytes)
         /\ HeaderValue(Split(lines), "host", 0) = host
         /\ lines[1].v = target
<1> DEFINE lines == Request(target, host, bytes).lines
           R == Token("request", target)
           H == Token("host", host)
           L == Length(Len(bytes))
           hs == IF host = 0 THEN <<>> ELSE <<H>>
           ls == IF bytes = <<>> THEN <<>> ELSE <<L>>
<1>1. lines = (<<R>> \o hs) \o ls
  BY DEF Request, Message
<1>2. /\ R.t = "request" /\ H.t = "host" /\ L.t = "length"
      /\ R.v = target /\ H.v = host /\ L.v = Len(bytes)
      /\ R \in Tokens /\ H \in Tokens /\ L \in Tokens
  <2>1. Len(bytes) \in Int
    OBVIOUS
  <2> QED
    BY <2>1, LineFacts DEF Token, Tokens, Kinds
<1>3. (bytes = <<>> <=> Len(bytes) = 0) /\ Len(bytes) \in Nat
  OBVIOUS
<1> HIDE DEF lines, R, H, L
<1>4. \/ lines = <<R>> /\ host = 0 /\ bytes = <<>>
      \/ lines = <<R, H>> /\ host # 0 /\ bytes = <<>>
      \/ lines = <<R, L>> /\ host = 0 /\ bytes # <<>>
      \/ lines = <<R, H, L>> /\ host # 0 /\ bytes # <<>>
  <2>1. /\ host = 0 => <<R>> \o hs = <<R>>
        /\ host # 0 => <<R>> \o hs = <<R, H>>
    BY <1>2, Joins
  <2>2. /\ host = 0 => lines = <<R>> \o ls
        /\ host # 0 => lines = <<R, H>> \o ls
    BY <2>1, <1>1, <1>2, Joins
  <2> QED
    BY <2>2, <1>2, Joins
<1>5. "length" \in HeaderNames /\ "host" \in HeaderNames
      /\ "encoding" \in HeaderNames
  BY DEF HeaderNames
<1>6. CASE lines = <<R>> /\ host = 0 /\ bytes = <<>>
  <2>1. lines \in Seq(Tokens) /\ Len(lines) = 1 /\ lines[1] = R
    BY <1>6, <1>2
  <2>2. Short(lines)
    BY <2>1, <1>2 DEF Short
  <2>3. Plain(lines) /\ HeadOk(Split(lines), "request")
    BY <2>1, <2>2, <1>2, <1>5, ShortHeads
  <2>4. HeaderValue(Split(lines), "length", 0) = Len(bytes)
    BY <2>1, <2>2, <1>2, <1>3, <1>5, <1>6, ShortHeads
  <2>5. HeaderValue(Split(lines), "host", 0) = host
    BY <2>1, <2>2, <1>2, <1>5, <1>6, ShortHeads
  <2>6. HeaderValue(Split(lines), "encoding", None) = None
    BY <2>1, <2>2, <1>2, <1>5, ShortHeads
  <2>7. RequestOk(Split(lines)) /\ lines[1].v = target
    BY <2>1, <2>3, <2>4, <2>6, <1>2, <1>3 DEF RequestOk
  <2> QED
    BY <2>3, <2>4, <2>5, <2>7 DEF lines
<1>7. CASE lines = <<R, H>> /\ host # 0 /\ bytes = <<>>
  <2>1. lines \in Seq(Tokens) /\ Len(lines) = 2 /\ lines[1] = R /\ lines[2] = H
    BY <1>7, <1>2
  <2>2. Short(lines)
    BY <2>1, <1>2 DEF Short
  <2>3. Plain(lines) /\ HeadOk(Split(lines), "request")
    BY <2>1, <2>2, <1>2, <1>5, ShortHeads
  <2>4. HeaderValue(Split(lines), "length", 0) = Len(bytes)
    BY <2>1, <2>2, <1>2, <1>3, <1>5, <1>7, ShortHeads
  <2>5. HeaderValue(Split(lines), "host", 0) = host
    BY <2>1, <2>2, <1>2, <1>5, <1>7, ShortHeads
  <2>6. HeaderValue(Split(lines), "encoding", None) = None
    BY <2>1, <2>2, <1>2, <1>5, ShortHeads
  <2>7. RequestOk(Split(lines)) /\ lines[1].v = target
    BY <2>1, <2>3, <2>4, <2>6, <1>2, <1>3 DEF RequestOk
  <2> QED
    BY <2>3, <2>4, <2>5, <2>7 DEF lines
<1>8. CASE lines = <<R, L>> /\ host = 0 /\ bytes # <<>>
  <2>1. lines \in Seq(Tokens) /\ Len(lines) = 2 /\ lines[1] = R /\ lines[2] = L
    BY <1>8, <1>2
  <2>2. Short(lines)
    BY <2>1, <1>2 DEF Short
  <2>3. Plain(lines) /\ HeadOk(Split(lines), "request")
    BY <2>1, <2>2, <1>2, <1>5, ShortHeads
  <2>4. HeaderValue(Split(lines), "length", 0) = Len(bytes)
    BY <2>1, <2>2, <1>2, <1>3, <1>5, <1>8, ShortHeads
  <2>5. HeaderValue(Split(lines), "host", 0) = host
    BY <2>1, <2>2, <1>2, <1>5, <1>8, ShortHeads
  <2>6. HeaderValue(Split(lines), "encoding", None) = None
    BY <2>1, <2>2, <1>2, <1>5, ShortHeads
  <2>7. RequestOk(Split(lines)) /\ lines[1].v = target
    BY <2>1, <2>3, <2>4, <2>6, <1>2, <1>3 DEF RequestOk
  <2> QED
    BY <2>3, <2>4, <2>5, <2>7 DEF lines
<1>9. CASE lines = <<R, H, L>> /\ host # 0 /\ bytes # <<>>
  <2>1. lines \in Seq(Tokens) /\ Len(lines) = 3 /\ lines[1] = R /\ lines[2] = H /\ lines[3] = L
    BY <1>9, <1>2
  <2>2. Short(lines)
    BY <2>1, <1>2 DEF Short
  <2>3. Plain(lines) /\ HeadOk(Split(lines), "request")
    BY <2>1, <2>2, <1>2, <1>5, ShortHeads
  <2>4. HeaderValue(Split(lines), "length", 0) = Len(bytes)
    BY <2>1, <2>2, <1>2, <1>3, <1>5, <1>9, ShortHeads
  <2>5. HeaderValue(Split(lines), "host", 0) = host
    BY <2>1, <2>2, <1>2, <1>5, <1>9, ShortHeads
  <2>6. HeaderValue(Split(lines), "encoding", None) = None
    BY <2>1, <2>2, <1>2, <1>5, ShortHeads
  <2>7. RequestOk(Split(lines)) /\ lines[1].v = target
    BY <2>1, <2>3, <2>4, <2>6, <1>2, <1>3 DEF RequestOk
  <2> QED
    BY <2>3, <2>4, <2>5, <2>7 DEF lines
<1> QED
  BY <1>4, <1>6, <1>7, <1>8, <1>9

(* What the parser makes of the head that has a folded line.               *)
LEMMA FoldedFacts ==
  LET lines == Folded.lines IN
  /\ Plain(lines) /\ RequestOk(Split(lines)) /\ lines[1].v = 0
  /\ HeaderValue(Split(lines), "length", 0) = 1
  /\ HeaderValue(Split(lines), "host", 0) = 0
<1> DEFINE lines == Folded.lines
           R == Token("request", 0)
           O == Token("other", 0)
           F == Token("fold", 0)
           L == Length(1)
<1>1. lines = <<R, O, F, L>>
  BY DEF Folded, Message
<1>2. /\ R.t = "request" /\ O.t = "other" /\ F.t = "fold" /\ L.t = "length"
      /\ R.v = 0 /\ L.v = 1
      /\ R \in Tokens /\ O \in Tokens /\ F \in Tokens /\ L \in Tokens
  BY LineFacts DEF Token, Tokens, Kinds
<1> HIDE DEF lines, R, O, F, L
<1>3. /\ lines \in Seq(Tokens) /\ Len(lines) = 4
      /\ lines[1] = R /\ lines[2] = O /\ lines[3] = F /\ lines[4] = L
  BY <1>1, <1>2
<1>4. 1..4 = {1, 2, 3, 4} /\ 2..4 = {2, 3, 4} /\ 2..(4 - 1) = {2, 3}
  OBVIOUS
<1>5. Plain(lines)
  BY <1>2, <1>3, <1>4, LineFacts DEF Plain
<1>6. HeadOk(Split(lines), "request")
  <2>1. \A k \in 2..Len(lines) :
          lines[k].t \in HeaderNames \/ (lines[k].t = "fold" /\ k > 2)
    BY <1>2, <1>3, <1>4 DEF HeaderNames
  <2> QED
    BY <2>1, <1>2, <1>3, OkIs
<1>7. HeaderValue(Split(lines), "encoding", None) = None
  BY <1>2, <1>3, <1>4, ValueNone
<1>8. HeaderValue(Split(lines), "host", 0) = 0
  BY <1>2, <1>3, <1>4, ValueNone
<1>9. HeaderValue(Split(lines), "length", 0) = 1
  <2>1. /\ 4 \in 2..Len(lines) /\ lines[4].t = "length"
        /\ \A j \in 2..(4 - 1) : lines[j].t # "length"
        /\ 4 < Len(lines) => lines[4 + 1].t # "fold"
        /\ "length" \in HeaderNames
    BY <1>2, <1>3, <1>4 DEF HeaderNames
  <2> QED
    BY <2>1, <1>2, <1>3, ValueIs
<1>10. RequestOk(Split(lines)) /\ lines[1].v = 0
  BY <1>2, <1>3, <1>6, <1>7, <1>9 DEF RequestOk
<1> QED
  BY <1>5, <1>8, <1>9, <1>10 DEF lines

(* The bodies are sequences of tokens.                                     *)
LEMMA BodyFacts ==
  /\ \A b \in Bodies : b \in Seq(Tokens)
  /\ <<>> \in Seq(Tokens) /\ <<Byte>> \in Seq(Tokens) /\ Blank \in Seq(Tokens)
<1>1. {Byte, CR, LF} \subseteq Tokens
  BY TokenFacts
<1>2. \A b \in Bodies : b \in Seq({Byte, CR, LF})
  BY WireAssumption
<1>3. \A b \in Bodies : b \in Seq(Tokens)
  BY <1>1, <1>2, SeqMonotonic
<1> QED
  BY <1>3, TokenFacts DEF Blank

(* The parser refuses each head that is written to be refused.             *)
LEMMA RefusedRequests ==
  ASSUME NEW m \in BadRequests
  PROVE  Plain(m.lines) /\ ~RequestOk(Split(m.lines))
<1> DEFINE R == Token("request", 0)
<1>1. R.t = "request" /\ R \in Tokens
  BY DEF Token, Tokens, Kinds
<1>2. /\ \A t, v : Token(t, v).t = t /\ Token(t, v).v = v
      /\ \A t \in Kinds, v \in Int : Token(t, v) \in Tokens
      /\ NaN = -1 /\ None = -2
  BY TokenFacts DEF NaN, None
<1>3. "length" \in HeaderNames /\ "encoding" \in HeaderNames
      /\ "junk" \notin HeaderNames /\ "fold" \notin HeaderNames
  BY DEF HeaderNames
<1> HIDE DEF R
<1>4. \/ m.lines = <<Token("other", 0)>>
      \/ \E line \in {Token("junk", 0), Token("fold", 0), Token("encoding", 0),
                      Length(NaN)} : m.lines = <<R, line>>
  BY DEF BadRequests, Refused, Message, R
<1>5. CASE m.lines = <<Token("other", 0)>>
  <2>1. Token("other", 0) \in Tokens /\ Token("other", 0).t = "other"
    BY <1>2 DEF Kinds
  <2>2. Short(m.lines) /\ Len(m.lines) = 1 /\ m.lines[1].t = "other"
    BY <2>1, <1>5 DEF Short
  <2>3. Plain(m.lines) /\ ~HeadOk(Split(m.lines), "request")
    BY <2>2, ShortHeads
  <2> QED
    BY <2>3 DEF RequestOk
<1>6. CASE m.lines = <<R, Token("fold", 0)>>
  <2>1. Token("fold", 0) \in Tokens /\ Token("fold", 0).t = "fold"
    BY <1>2 DEF Kinds
  <2>2. /\ m.lines \in Seq(Tokens) /\ Len(m.lines) = 2
        /\ m.lines[1] = R /\ m.lines[2].t = "fold" /\ 1..2 = {1, 2} /\ 2..2 = {2}
    BY <2>1, <1>1, <1>6
  <2>3. Plain(m.lines)
    BY <2>2, <1>1, LineFacts DEF Plain
  <2>4. ~HeadOk(Split(m.lines), "request")
    BY <2>2, <1>3, OkIs
  <2> QED
    BY <2>3, <2>4 DEF RequestOk
<1>7. ASSUME NEW line \in {Token("junk", 0), Token("encoding", 0), Length(NaN)},
             m.lines = <<R, line>>
      PROVE  Plain(m.lines) /\ ~RequestOk(Split(m.lines))
  <2>1. /\ line \in Tokens
        /\ \/ line.t = "junk"
           \/ line.t = "encoding" /\ line.v = 0
           \/ line.t = "length" /\ line.v = -1
    BY <1>2 DEF Kinds, Length
  <2>2. /\ Short(m.lines) /\ Len(m.lines) = 2
        /\ m.lines[1] = R /\ m.lines[2] = line
    BY <2>1, <1>1, <1>7 DEF Short
  <2>3. Plain(m.lines)
    BY <2>2, ShortHeads
  <2>4. CASE line.t = "junk"
    <3>1. ~HeadOk(Split(m.lines), "request")
      BY <2>2, <2>4, <1>3, ShortHeads
    <3> QED
      BY <2>3, <3>1 DEF RequestOk
  <2>5. CASE line.t = "encoding" /\ line.v = 0
    <3>1. HeaderValue(Split(m.lines), "encoding", None) # None
      BY <2>2, <2>5, <1>2, <1>3, ShortHeads
    <3> QED
      BY <2>3, <3>1 DEF RequestOk
  <2>6. CASE line.t = "length" /\ line.v = -1
    <3>1. HeaderValue(Split(m.lines), "length", 0) = -1
      BY <2>2, <2>6, <1>3, ShortHeads
    <3> QED
      BY <2>3, <3>1 DEF RequestOk
  <2> QED
    BY <2>1, <2>4, <2>5, <2>6
<1> QED
  BY <1>4, <1>5, <1>6, <1>7

Well(m) == Plain(m.lines) /\ m.tail \in Seq(Tokens)

Understood(m) ==
  LET lines == Split(m.lines) IN
  /\ Well(m)
  /\ \/ /\ m.is = "request" /\ RequestOk(lines)
        /\ m.ends = Len(m.tail) /\ m.payload = m.tail
        /\ HeaderValue(lines, "length", 0) = Len(m.tail)
        /\ m.lines[1].v \in Nat /\ HeaderValue(lines, "host", 0) \in Nat
        /\ m.host = IF m.lines[1].v # 0 THEN m.lines[1].v
                                        ELSE HeaderValue(lines, "host", 0)
     \/ m.is = "error" /\ ~RequestOk(lines) /\ m.ends = 0 /\ m.tail = <<>>

(* Each message that a client writes is one the parser understands, or     *)
(* refuses by its head alone.                                              *)
LEMMA ClientMessages ==
  ASSUME NEW m \in First("client") \cup Second("client")
  PROVE  Understood(m)
<1>1. ASSUME NEW target \in Nat, NEW host \in Nat, NEW bytes \in Seq(Tokens),
             m = Request(target, host, bytes)
      PROVE  Understood(m)
  <2>1. /\ m.tail = bytes /\ m.ends = Len(bytes) /\ m.payload = bytes
        /\ m.is = "request" /\ m.host = IF target # 0 THEN target ELSE host
    BY <1>1 DEF Request, Message
  <2>2. /\ Plain(m.lines) /\ RequestOk(Split(m.lines))
        /\ HeaderValue(Split(m.lines), "length", 0) = Len(bytes)
        /\ HeaderValue(Split(m.lines), "host", 0) = host
        /\ m.lines[1].v = target
    BY <1>1, RequestFacts
  <2> QED
    BY <2>1, <2>2 DEF Understood, Well
<1>2. CASE m = Folded
  <2>1. /\ m.tail = <<Byte>> /\ m.ends = 1 /\ m.payload = <<Byte>>
        /\ m.is = "request" /\ m.host = 0
    BY <1>2 DEF Folded, Message
  <2>2. <<Byte>> \in Seq(Tokens) /\ Len(<<Byte>>) = 1
    BY BodyFacts
  <2> QED
    BY <2>1, <2>2, <1>2, FoldedFacts DEF Understood, Well
<1>3. CASE m \in BadRequests
  <2>1. m.tail = <<>> /\ m.ends = 0 /\ m.is = "error"
    BY <1>3 DEF BadRequests, Refused, Message
  <2> QED
    BY <2>1, <1>3, RefusedRequests, BodyFacts DEF Understood, Well
<1>4. \/ \E h \in 0..1, b \in Bodies : m = Request(0, h, b)
      \/ m = Request(2, 1, <<>>) \/ m = Folded \/ m \in BadRequests
      \/ m = Request(0, 0, Blank)
  <2>1. Refused(<<Token("other", 0)>>) \in BadRequests
    BY DEF BadRequests
  <2> QED
    BY <2>1 DEF First, Second, GoodRequests
<1>5. CASE \E h \in 0..1, b \in Bodies : m = Request(0, h, b)
  BY <1>5, <1>1, BodyFacts
<1>6. CASE m = Request(2, 1, <<>>) \/ m = Request(0, 0, Blank)
  BY <1>6, <1>1, BodyFacts
<1> QED
  BY <1>2, <1>3, <1>4, <1>5, <1>6

(* A message on the wire is its head and then the rest.                    *)
LEMMA WiredFacts ==
  ASSUME NEW m, Well(m)
  PROVE  /\ Wired(m) \in Seq(Tokens) /\ HeadLen(m) = (3 * Len(m.lines)) + 2
         /\ HeadLen(m) \in Nat /\ Len(m.tail) \in Nat
         /\ Len(Wired(m)) = HeadLen(m) + Len(m.tail)
         /\ \A j \in 1..HeadLen(m) : Wired(m)[j] = HeadOf(m.lines)[j]
         /\ \A j \in 1..Len(m.tail) : Wired(m)[HeadLen(m) + j] = m.tail[j]
<1>1. m.lines \in Seq(Tokens) /\ m.tail \in Seq(Tokens)
  BY DEF Well, Plain
<1>2. HeadOf(m.lines) \in Seq(Tokens) /\ HeadLen(m) = (3 * Len(m.lines)) + 2
  BY <1>1, HeadOfFacts DEF HeadLen
<1>3. HeadLen(m) \in Nat /\ Len(m.tail) \in Nat
  BY <1>1, <1>2
<1>4. /\ Wired(m) \in Seq(Tokens) /\ Len(Wired(m)) = HeadLen(m) + Len(m.tail)
      /\ \A j \in 1..(HeadLen(m) + Len(m.tail)) :
           Wired(m)[j] = IF j <= HeadLen(m) THEN HeadOf(m.lines)[j]
                                            ELSE m.tail[j - HeadLen(m)]
  BY <1>1, <1>2, ConcatProperties DEF Wired, HeadLen
<1>5. \A j \in 1..HeadLen(m) : Wired(m)[j] = HeadOf(m.lines)[j]
  BY <1>3, <1>4
<1>6. ASSUME NEW j \in 1..Len(m.tail)
      PROVE  Wired(m)[HeadLen(m) + j] = m.tail[j]
  <2>1. /\ HeadLen(m) + j \in 1..(HeadLen(m) + Len(m.tail))
        /\ ~(HeadLen(m) + j <= HeadLen(m)) /\ (HeadLen(m) + j) - HeadLen(m) = j
    BY <1>3
  <2> QED
    BY <2>1, <1>4
<1> QED
  BY <1>2, <1>3, <1>4, <1>5, <1>6

(* Where each of the two messages is in the stream.                        *)
LEMMA StreamFacts ==
  ASSUME Well(sending[1]), Well(sending[2])
  PROVE  /\ Stream \in Seq(Tokens) /\ Begin(1) = 0 /\ Begin(3) = Len(Stream)
         /\ \A i \in 1..3 : Begin(i) \in Nat /\ Begin(i) <= Len(Stream)
         /\ \A i \in 1..2 :
              LET m == sending[i] IN
              /\ Begin(i) = Start(i)
              /\ Begin(i + 1) = Begin(i) + HeadLen(m) + Len(m.tail)
              /\ \A j \in 1..HeadLen(m) :
                   Stream[Begin(i) + j] = HeadOf(m.lines)[j]
              /\ \A j \in 1..Len(m.tail) :
                   Stream[Begin(i) + HeadLen(m) + j] = m.tail[j]
<1> DEFINE v == Wired(sending[1])
           w == Wired(sending[2])
           V == Len(v)
           W == Len(w)
<1>1. \A i \in 1..2 :
        LET m == sending[i] IN
        /\ Wired(m) \in Seq(Tokens) /\ HeadLen(m) \in Nat /\ Len(m.tail) \in Nat
        /\ Len(Wired(m)) = HeadLen(m) + Len(m.tail)
        /\ \A j \in 1..HeadLen(m) : Wired(m)[j] = HeadOf(m.lines)[j]
        /\ \A j \in 1..Len(m.tail) : Wired(m)[HeadLen(m) + j] = m.tail[j]
  <2>1. \A i \in 1..2 : Well(sending[i])
    OBVIOUS
  <2> QED
    BY <2>1, WiredFacts
<1>2. v \in Seq(Tokens) /\ w \in Seq(Tokens) /\ V \in Nat /\ W \in Nat
  BY <1>1
<1>3. /\ Stream \in Seq(Tokens) /\ Len(Stream) = V + W
      /\ \A j \in 1..(V + W) : Stream[j] = IF j <= V THEN v[j] ELSE w[j - V]
  BY <1>2, ConcatProperties DEF Stream
<1>4. Begin(1) = 0 /\ Begin(2) = V /\ Begin(3) = V + W
      /\ Start(1) = 0 /\ Start(2) = V
  BY <1>3 DEF Begin, Start
<1>5. \A j \in 1..V : Stream[0 + j] = v[j]
  BY <1>2, <1>3
<1>6. \A j \in 1..W : Stream[V + j] = w[j]
  <2> TAKE j \in 1..W
  <2>1. V + j \in 1..(V + W) /\ ~(V + j <= V) /\ (V + j) - V = j
    BY <1>2
  <2> QED
    BY <2>1, <1>3
<1> HIDE DEF V, W, v, w
<1>7. ASSUME NEW i \in 1..2, NEW m, m = sending[i]
      PROVE  /\ Begin(i) = Start(i)
             /\ Begin(i + 1) = Begin(i) + HeadLen(m) + Len(m.tail)
             /\ \A j \in 1..HeadLen(m) :
                   Stream[Begin(i) + j] = HeadOf(m.lines)[j]
             /\ \A j \in 1..Len(m.tail) :
                   Stream[Begin(i) + HeadLen(m) + j] = m.tail[j]
  <2> DEFINE u == Wired(m)
  <2>1. /\ HeadLen(m) \in Nat /\ Len(m.tail) \in Nat
        /\ Len(u) = HeadLen(m) + Len(m.tail)
        /\ \A j \in 1..HeadLen(m) : u[j] = HeadOf(m.lines)[j]
        /\ \A j \in 1..Len(m.tail) : u[HeadLen(m) + j] = m.tail[j]
    BY <1>1, <1>7
  <2>2. i = 1 \/ i = 2
    OBVIOUS
  <2>3. /\ Begin(i) = Start(i) /\ Begin(i) \in Nat
        /\ Begin(i + 1) = Begin(i) + Len(u)
        /\ \A j \in 1..Len(u) : Stream[Begin(i) + j] = u[j]
    <3>1. CASE i = 1
      BY <3>1, <1>2, <1>4, <1>5, <1>7 DEF v, V
    <3>2. CASE i = 2
      BY <3>2, <1>2, <1>4, <1>6, <1>7 DEF w, W
    <3> QED
      BY <2>2, <3>1, <3>2
  <2> HIDE DEF u
  <2>4. \A j \in 1..HeadLen(m) : Stream[Begin(i) + j] = HeadOf(m.lines)[j]
    BY <2>1, <2>3
  <2>5. ASSUME NEW j \in 1..Len(m.tail)
        PROVE  Stream[Begin(i) + HeadLen(m) + j] = m.tail[j]
    <3>1. /\ HeadLen(m) + j \in 1..Len(u)
          /\ Begin(i) + HeadLen(m) + j = Begin(i) + (HeadLen(m) + j)
      BY <2>1, <2>3
    <3> QED
      BY <3>1, <2>1, <2>3
  <2>6. Begin(i + 1) = Begin(i) + HeadLen(m) + Len(m.tail)
    BY <2>1, <2>3
  <2> QED
    BY <2>3, <2>4, <2>5, <2>6
<1>8. \A i \in 1..3 : Begin(i) \in Nat /\ Begin(i) <= Len(Stream)
  BY <1>2, <1>3, <1>4
<1> QED
  BY <1>3, <1>4, <1>7, <1>8

-----------------------------------------------------------------------------
(* Both parsers: the buffer is a stretch of the stream.                    *)

(* A stretch of a sequence and the one that follows it.                    *)
LEMMA Grow ==
  ASSUME NEW s \in Seq(Tokens), NEW p \in 0..Len(s), NEW at \in 0..p,
         NEW n \in Nat, p + n <= Len(s)
  PROVE  SubSeq(s, at + 1, p) \o SubSeq(s, p + 1, p + n) = SubSeq(s, at + 1, p + n)
<1>1. /\ at + 1 \in 1..(Len(s) + 1) /\ p \in ((at + 1) - 1)..Len(s)
      /\ p + n \in p..Len(s)
  BY LenProperties
<1> QED
  BY <1>1, ConcatAdjacentSubSeq

(* A stretch of a sequence, by its places.                                 *)
LEMMA Rest ==
  ASSUME NEW s \in Seq(Tokens), NEW p \in 0..Len(s), NEW at \in 0..p
  PROVE  LET b == SubSeq(s, at + 1, p) IN
         /\ b \in Seq(Tokens) /\ Len(b) = p - at
         /\ \A i \in 1..(p - at) : b[i] = s[at + i]
<1>1. /\ at + 1 \in 1..(Len(s) + 1) /\ p \in ((at + 1) - 1)..Len(s)
      /\ (p - (at + 1)) + 1 = p - at
      /\ \A i \in 1..(p - at) : ((at + 1) + i) - 1 = at + i
  BY LenProperties
<1> QED
  BY <1>1, SubFacts

(* What is left of a stretch once some of it has been taken, and what was  *)
(* taken.                                                                  *)
LEMMA Consume ==
  ASSUME NEW s \in Seq(Tokens), NEW p \in 0..Len(s), NEW at \in 0..p,
         NEW n \in 0..(p - at)
  PROVE  /\ After(SubSeq(s, at + 1, p), n) = SubSeq(s, (at + n) + 1, p)
         /\ SubSeq(SubSeq(s, at + 1, p), 1, n) = SubSeq(s, at + 1, at + n)
<1> DEFINE b == SubSeq(s, at + 1, p)
           c == SubSeq(b, n + 1, Len(b))
           d == SubSeq(b, 1, n)
           e == SubSeq(s, (at + n) + 1, p)
           f == SubSeq(s, at + 1, at + n)
<1>0. p \in Nat /\ at \in Nat /\ n \in Nat /\ at + n \in 0..p /\ at \in 0..(at + n)
      /\ Len(s) \in Nat /\ at + n \in 0..Len(s) /\ (at + n) - at = n
  BY LenProperties
<1>1. b \in Seq(Tokens) /\ Len(b) = p - at
      /\ \A i \in 1..(p - at) : b[i] = s[at + i]
  BY Rest
<1>2. e \in Seq(Tokens) /\ Len(e) = p - (at + n)
      /\ \A i \in 1..(p - (at + n)) : e[i] = s[(at + n) + i]
  BY <1>0, Rest
<1>3. f \in Seq(Tokens) /\ Len(f) = n /\ \A i \in 1..n : f[i] = s[at + i]
  <2>1. /\ f \in Seq(Tokens) /\ Len(f) = (at + n) - at
        /\ \A i \in 1..((at + n) - at) : f[i] = s[at + i]
    BY <1>0, Rest
  <2> QED
    BY <2>1, <1>0
<1> HIDE DEF b, e, f
<1>4. c \in Seq(Tokens) /\ Len(c) = p - (at + n)
      /\ \A i \in 1..(p - (at + n)) : c[i] = b[n + i]
  <2>1. n \in 0..Len(b) /\ Len(b) \in 0..Len(b) /\ Len(b) - n = p - (at + n)
    BY <1>0, <1>1
  <2> QED
    BY <2>1, <1>1, Rest
<1>5. d \in Seq(Tokens) /\ Len(d) = n /\ \A i \in 1..n : d[i] = b[i]
  <2>1. /\ 1 \in 1..(Len(b) + 1) /\ n \in (1 - 1)..Len(b) /\ (n - 1) + 1 = n
        /\ \A i \in 1..n : (1 + i) - 1 = i
    BY <1>0, <1>1
  <2> QED
    BY <2>1, <1>1, SubFacts
<1> HIDE DEF c, d
<1>6. c = e
  <2>1. ASSUME NEW i \in 1..Len(c) PROVE c[i] = e[i]
    <3>1. i \in 1..(p - (at + n)) /\ n + i \in 1..(p - at)
          /\ at + (n + i) = (at + n) + i
      BY <1>0, <1>4
    <3> QED
      BY <3>1, <1>1, <1>2, <1>4
  <2> QED
    BY <2>1, <1>2, <1>4, SeqEqual
<1>7. d = f
  <2>1. ASSUME NEW i \in 1..Len(d) PROVE d[i] = f[i]
    <3>1. i \in 1..n /\ i \in 1..(p - at)
      BY <1>0, <1>5
    <3> QED
      BY <3>1, <1>1, <1>3, <1>5
  <2> QED
    BY <2>1, <1>3, <1>5, SeqEqual
<1> QED
  BY <1>6, <1>7 DEF After, b, c, d, e, f

-----------------------------------------------------------------------------
(* The client's half of the invariant is inductive.                        *)

(* What a state of the client's half gives: its messages, and where each   *)
(* begins.                                                                 *)
LEMMA ClientState ==
  ASSUME Sent, CInv, side = "client"
  PROVE  /\ Understood(sending[1]) /\ Understood(sending[2])
         /\ Stream \in Seq(Tokens) /\ Len(Stream) \in Nat
         /\ Begin(1) = 0 /\ Begin(3) = Len(Stream)
         /\ \A i \in 1..3 : Begin(i) \in Nat /\ Begin(i) <= Len(Stream)
         /\ Len(pending) \in Nat /\ ClientAt \in 0..pos /\ pos \in 0..Len(Stream)
         /\ buf \in Seq(Tokens) /\ Len(buf) = pos - ClientAt
         /\ \A i \in 1..Len(buf) : buf[i] = Stream[ClientAt + i]
<1>1. sending[1] \in First("client") /\ sending[2] \in Second("client")
  BY DEF Sent
<1>2. Understood(sending[1]) /\ Understood(sending[2])
  BY <1>1, ClientMessages
<1>3. Well(sending[1]) /\ Well(sending[2])
  BY <1>2 DEF Understood
<1>4. /\ Stream \in Seq(Tokens) /\ Begin(1) = 0 /\ Begin(3) = Len(Stream)
      /\ \A i \in 1..3 : Begin(i) \in Nat /\ Begin(i) <= Len(Stream)
  BY <1>3, StreamFacts
<1>5. Len(Stream) \in Nat
  BY <1>4
<1>6. /\ ClientAt \in 0..pos /\ pos \in 0..Len(Stream)
      /\ buf = SubSeq(Stream, ClientAt + 1, pos) /\ Len(pending) \in Nat
  BY DEF CInv, Buffered, Answered, Sent
<1>7. /\ buf \in Seq(Tokens) /\ Len(buf) = pos - ClientAt
      /\ \A i \in 1..Len(buf) : buf[i] = Stream[ClientAt + i]
  BY <1>4, <1>6, Rest
<1> QED
  BY <1>2, <1>4, <1>5, <1>6, <1>7

(* The message being parsed.                                               *)
LEMMA ClientCurrent ==
  ASSUME Sent, CInv, side = "client", Len(pending) < 2
  PROVE  LET i == Len(pending) + 1 IN
         /\ i \in 1..2 /\ i + 1 \in 1..3 /\ Current = sending[i] /\ Understood(Current)
         /\ Begin(i) \in Nat /\ Start(i) = Begin(i)
         /\ HeadLen(Current) = (3 * Len(Current.lines)) + 2
         /\ HeadLen(Current) \in Nat /\ Len(Current.tail) \in Nat
         /\ Begin(i + 1) = Begin(i) + HeadLen(Current) + Len(Current.tail)
         /\ \A j \in 1..HeadLen(Current) :
              Stream[Begin(i) + j] = HeadOf(Current.lines)[j]
         /\ \A j \in 1..Len(Current.tail) :
              Stream[Begin(i) + HeadLen(Current) + j] = Current.tail[j]
<1> DEFINE i == Len(pending) + 1
<1>1. i \in 1..2 /\ i + 1 \in 1..3
  BY ClientState
<1>2. Current = sending[i] /\ Understood(Current)
  <2>1. i = 1 \/ i = 2
    BY <1>1
  <2> QED
    BY <2>1, ClientState DEF Current
<1>3. Well(sending[1]) /\ Well(sending[2]) /\ Well(Current)
  BY <1>2, ClientState DEF Understood
<1> HIDE DEF i
<1>4. /\ Begin(i) \in Nat /\ Begin(i) = Start(i)
      /\ Begin(i + 1) = Begin(i) + HeadLen(sending[i]) + Len(sending[i].tail)
      /\ \A j \in 1..HeadLen(sending[i]) :
           Stream[Begin(i) + j] = HeadOf(sending[i].lines)[j]
      /\ \A j \in 1..Len(sending[i].tail) :
           Stream[Begin(i) + HeadLen(sending[i]) + j] = sending[i].tail[j]
  <2>1. i \in 1..3
    BY <1>1
  <2> QED
    BY <1>1, <1>3, <2>1, StreamFacts
<1>5. /\ HeadLen(Current) = (3 * Len(Current.lines)) + 2
      /\ HeadLen(Current) \in Nat /\ Len(Current.tail) \in Nat
  BY <1>3, WiredFacts
<1> QED
  BY <1>1, <1>2, <1>4, <1>5 DEF i

(* Where the head of the message being parsed ends in the buffer.          *)
LEMMA ClientHead ==
  ASSUME Sent, CInv, side = "client", head = <<>>, ~error
  PROVE  /\ Len(pending) = 2 => buf = <<>> /\ EndOfHead(buf) = 0
         /\ Len(pending) < 2 =>
              /\ ClientAt = Begin(Len(pending) + 1)
              /\ EndOfHead(buf) = IF Len(buf) >= HeadLen(Current)
                                    THEN HeadLen(Current) ELSE 0
              /\ EndOfHead(buf) # 0 => HeadLines = Split(Current.lines)
<1>1. ClientAt = Begin(Len(pending) + 1)
  <2>1. ClientAt = Begin(Len(pending) + 1) + 0
    BY DEF ClientAt
  <2>2. Len(pending) + 1 \in 1..3
    BY DEF CInv, Answered
  <2>3. Begin(Len(pending) + 1) \in Nat
    BY <2>2, ClientState
  <2> QED
    BY <2>1, <2>3
<1>2. ASSUME Len(pending) = 2
      PROVE  buf = <<>> /\ EndOfHead(buf) = 0
  <2>1. ClientAt = Len(Stream)
    BY <1>1, <1>2, ClientState
  <2>2. buf = <<>>
    BY <2>1, ClientState
  <2>3. Ends(Blank, <<>>) = {}
    BY DEF Ends, Blank
  <2> QED
    BY <2>2, <2>3 DEF EndOfHead, EndOf
<1>3. ASSUME Len(pending) < 2
      PROVE  /\ EndOfHead(buf) = IF Len(buf) >= HeadLen(Current)
                                    THEN HeadLen(Current) ELSE 0
             /\ EndOfHead(buf) # 0 => HeadLines = Split(Current.lines)
  <2> DEFINE lines == Current.lines
             n == Len(lines)
  <2>1. Plain(lines) /\ HeadLen(Current) = (3 * n) + 2 /\ n \in Nat
    BY <1>3, ClientCurrent DEF Understood, Well, Plain
  <2>2. buf \in Seq(Tokens) /\ \A i \in 1..Len(buf) : buf[i] = Stream[ClientAt + i]
    BY ClientState
  <2>3. \A i \in 1..HeadLen(Current) : Stream[ClientAt + i] = HeadOf(lines)[i]
    BY <1>1, <1>3, ClientCurrent
  <2> HIDE DEF lines, n
  <2>4. ASSUME NEW i \in 1..Len(buf), i <= (3 * n) + 2
        PROVE  buf[i] = HeadOf(lines)[i]
    <3>1. i \in 1..HeadLen(Current)
      BY <2>1, <2>4
    <3> QED
      BY <3>1, <2>2, <2>3
  <2>5. EndOfHead(buf) = IF Len(buf) >= (3 * n) + 2 THEN (3 * n) + 2 ELSE 0
    BY <2>1, <2>2, <2>4, HeadEnds DEF n
  <2>6. ASSUME EndOfHead(buf) # 0
        PROVE  HeadLines = Split(lines)
    <3>1. Len(buf) >= (3 * n) + 2 /\ EndOfHead(buf) = (3 * n) + 2
      BY <2>5, <2>6
    <3>2. Lines(SubSeq(buf, 1, 3 * n)) = Split(lines)
      BY <3>1, <2>1, <2>2, <2>4, LinesOf DEF n
    <3>3. EndOfHead(buf) - 2 = 3 * n
      BY <3>1, <2>1
    <3> QED
      BY <3>2, <3>3 DEF HeadLines
  <2> QED
    BY <2>1, <2>5, <2>6 DEF lines
<1> QED
  BY <1>1, <1>2, <1>3

(* A head that is in the buffer is the one of the next message.            *)
LEMMA ClientHeadIn ==
  ASSUME Sent, CInv, side = "client", head = <<>>, ~error, EndOfHead(buf) # 0
  PROVE  /\ Len(pending) < 2 /\ EndOfHead(buf) = HeadLen(Current)
         /\ HeadLines = Split(Current.lines) /\ Len(buf) >= HeadLen(Current)
         /\ ClientAt = Begin(Len(pending) + 1)
<1>1. Len(pending) < 2
  <2>1. Len(pending) \in 0..2 /\ Len(pending) # 2
    BY ClientHead DEF CInv, Answered
  <2> QED
    BY <2>1
<1>2. EndOfHead(buf) = IF Len(buf) >= HeadLen(Current)
                         THEN HeadLen(Current) ELSE 0
  BY <1>1, ClientHead
<1> QED
  BY <1>1, <1>2, ClientHead

(* To take from the buffer keeps it in its place on the wire.              *)
LEMMA ClientConsumes ==
  ASSUME Sent, CInv, side = "client", NEW n \in 0..Len(buf),
         buf' = After(buf, n), UNCHANGED <<pos, Stream>>, ClientAt' = ClientAt + n
  PROVE  Buffered(ClientAt)'
<1>1. /\ Stream \in Seq(Tokens) /\ pos \in 0..Len(Stream)
      /\ ClientAt \in 0..pos /\ Len(buf) = pos - ClientAt
      /\ buf = SubSeq(Stream, ClientAt + 1, pos)
  BY ClientState DEF CInv, Buffered
<1>2. n \in 0..(pos - ClientAt) /\ ClientAt + n \in 0..pos
  BY <1>1
<1>3. After(SubSeq(Stream, ClientAt + 1, pos), n) =
        SubSeq(Stream, (ClientAt + n) + 1, pos)
  BY <1>1, <1>2, Consume
<1>4. buf' = SubSeq(Stream, (ClientAt + n) + 1, pos)
  BY <1>1, <1>3
<1> QED
  BY <1>2, <1>4 DEF Buffered

(* The client takes the head of a request.                                 *)
LEMMA TakeRequestHeadKeeps ==
  ASSUME Sent, CInv, TakeRequestHead
  PROVE  CInv'
<1>1. /\ side = "client" /\ pc = "take" /\ head = <<>> /\ EndOfHead(buf) # 0
      /\ RequestOk(HeadLines) /\ head' = HeadLines
      /\ needed' = HeaderValue(HeadLines, "length", 0)
      /\ buf' = After(buf, EndOfHead(buf))
      /\ UNCHANGED <<side, sending, pos, pc, mode, body, closed>>
      /\ UNCHANGED <<pending, error, answer>>
  BY DEF TakeRequestHead, Taking, HeadIn, told
<1>2. ~error /\ error \in BOOLEAN /\ Len(pending) \in 0..2
  BY <1>1 DEF CInv, HeadKnown, Answered
<1>3. /\ Len(pending) < 2 /\ EndOfHead(buf) = HeadLen(Current)
      /\ HeadLines = Split(Current.lines) /\ Len(buf) >= HeadLen(Current)
      /\ ClientAt = Begin(Len(pending) + 1)
  BY <1>1, <1>2, ClientHeadIn
<1>4. /\ Understood(Current) /\ HeadLen(Current) \in Nat
  BY <1>1, <1>3, ClientCurrent
<1>5. /\ Current.is = "request" /\ needed' = Len(Current.tail)
      /\ head' = Split(Current.lines) /\ head' # <<>>
  <2>1. Len(Current.lines) >= 1 /\ Len(Current.lines) \in Nat
    BY <1>4 DEF Understood, Well, Plain
  <2>2. Len(Split(Current.lines)) = Len(Current.lines)
    BY <2>1 DEF Split
  <2>3. Split(Current.lines) # <<>>
    BY <2>1, <2>2
  <2> QED
    BY <2>3, <1>1, <1>3, <1>4 DEF Understood
<1>6. UNCHANGED <<Stream, Current>> /\ \A i : Begin(i)' = Begin(i)
  BY <1>1 DEF Stream, Current, Begin, Start
<1>7. ClientAt' = ClientAt + HeadLen(Current)
  BY <1>1, <1>3, <1>5, <1>6 DEF ClientAt
<1>8. Buffered(ClientAt)'
  <2>1. HeadLen(Current) \in 0..Len(buf)
    BY <1>1, <1>3, <1>4, ClientState
  <2> QED
    BY <2>1, <1>1, <1>3, <1>6, <1>7, ClientConsumes
<1>9. Answered' /\ mode' = "none" /\ body' = <<>> /\ answer' = <<>> /\ ~closed'
  BY <1>1 DEF CInv, Answered, AsksFor
<1>10. HeadKnown' /\ ClientWaits'
  BY <1>1, <1>2, <1>3, <1>5, <1>6 DEF HeadKnown, ClientWaits
<1> QED
  BY <1>8, <1>9, <1>10 DEF CInv

(* The client takes a head it cannot use, and is poisoned.                 *)
LEMMA TakeBadRequestKeeps ==
  ASSUME Sent, CInv, TakeBadRequest
  PROVE  CInv'
<1>1. /\ side = "client" /\ pc = "take" /\ head = <<>> /\ EndOfHead(buf) # 0
      /\ ~RequestOk(HeadLines) /\ error' = TRUE /\ pc' = "out"
      /\ buf' = After(buf, EndOfHead(buf))
      /\ UNCHANGED <<side, sending, pos, head, needed, mode, body, closed>>
      /\ UNCHANGED <<pending, answer>>
  BY DEF TakeBadRequest, Taking, HeadIn
<1>2. ~error /\ error \in BOOLEAN /\ Len(pending) \in 0..2 /\ needed = 0
  BY <1>1 DEF CInv, HeadKnown, Answered
<1>3. /\ Len(pending) < 2 /\ EndOfHead(buf) = HeadLen(Current)
      /\ HeadLines = Split(Current.lines) /\ Len(buf) >= HeadLen(Current)
      /\ ClientAt = Begin(Len(pending) + 1)
  BY <1>1, <1>2, ClientHeadIn
<1>4. Understood(Current) /\ HeadLen(Current) \in Nat
  BY <1>1, <1>3, ClientCurrent
<1>5. Current.is = "error"
  BY <1>1, <1>3, <1>4 DEF Understood
<1>6. UNCHANGED <<Stream, Current>> /\ \A i : Begin(i)' = Begin(i)
  BY <1>1 DEF Stream, Current, Begin, Start
<1>7. ClientAt' = ClientAt + HeadLen(Current)
  BY <1>1, <1>3, <1>5, <1>6 DEF ClientAt
<1>8. Buffered(ClientAt)'
  <2>1. HeadLen(Current) \in 0..Len(buf)
    BY <1>1, <1>3, <1>4, ClientState
  <2> QED
    BY <2>1, <1>1, <1>3, <1>6, <1>7, ClientConsumes
<1>9. Answered' /\ mode' = "none" /\ body' = <<>> /\ answer' = <<>> /\ ~closed'
  BY <1>1 DEF CInv, Answered, AsksFor
<1>10. HeadKnown' /\ ClientWaits'
  BY <1>1, <1>2, <1>3, <1>5, <1>6 DEF HeadKnown, ClientWaits
<1> QED
  BY <1>8, <1>9, <1>10 DEF CInv

(* The client takes the body of a request, and with it the request.        *)
LEMMA TakeRequestKeeps ==
  ASSUME Sent, CInv, TakeRequest
  PROVE  CInv'
<1> DEFINE i == Len(pending) + 1
           r == [target |-> head[1][1].v, host |-> HeaderValue(head, "host", 0),
                 body |-> SubSeq(buf, 1, needed)]
<1>1. /\ side = "client" /\ pc = "take" /\ head # <<>> /\ Len(buf) >= needed
      /\ pending' = Append(pending, r) /\ buf' = After(buf, needed)
      /\ head' = <<>> /\ needed' = 0
      /\ UNCHANGED <<side, sending, pos, pc, mode, body, closed>>
      /\ UNCHANGED <<error, answer>>
  BY DEF TakeRequest, Taking
<1>2. /\ error = FALSE /\ Len(pending) \in 0..2 /\ Len(pending) < 2
      /\ Current.is = "request" /\ head = Split(Current.lines)
      /\ needed = Len(Current.tail) /\ pending \in Seq(Asking)
      /\ \A k \in 1..Len(pending) :
           /\ sending[k].is = "request" /\ AsksFor(pending[k]) = sending[k].host
           /\ pending[k].body = sending[k].payload
  BY <1>1 DEF CInv, HeadKnown, Answered
<1>3. /\ i \in 1..2 /\ i + 1 \in 1..3 /\ Current = sending[i]
      /\ Understood(Current) /\ HeadLen(Current) \in Nat /\ Begin(i) \in Nat
      /\ Begin(i + 1) = Begin(i) + HeadLen(Current) + Len(Current.tail)
      /\ \A j \in 1..Len(Current.tail) :
           Stream[Begin(i) + HeadLen(Current) + j] = Current.tail[j]
      /\ Len(Current.tail) \in Nat
  BY <1>1, <1>2, ClientCurrent
<1>4. ClientAt = Begin(i) + HeadLen(Current)
  BY <1>1, <1>2, <1>3 DEF ClientAt
<1>5. /\ buf \in Seq(Tokens) /\ needed \in 0..Len(buf)
      /\ \A j \in 1..Len(buf) : buf[j] = Stream[ClientAt + j]
  BY <1>1, <1>2, <1>3, ClientState
<1> HIDE DEF i
<1>6. SubSeq(buf, 1, needed) = Current.tail
  <2> DEFINE s == SubSeq(buf, 1, needed)
  <2>1. s \in Seq(Tokens) /\ Len(s) = needed /\ \A j \in 1..needed : s[j] = buf[j]
    <3>1. /\ 1 \in 1..(Len(buf) + 1) /\ needed \in (1 - 1)..Len(buf)
          /\ (needed - 1) + 1 = needed /\ \A j \in 1..needed : (1 + j) - 1 = j
      BY <1>5
    <3> QED
      BY <3>1, <1>5, SubFacts
  <2> HIDE DEF s
  <2>2. ASSUME NEW j \in 1..Len(s) PROVE s[j] = Current.tail[j]
    <3>1. j \in 1..Len(Current.tail) /\ j \in 1..Len(buf) /\ s[j] = buf[j]
      BY <2>1, <1>2, <1>5
    <3> QED
      BY <3>1, <1>3, <1>4, <1>5
  <2>3. Current.tail \in Seq(Tokens)
    BY <1>3 DEF Understood, Well
  <2>4. s = Current.tail
    BY <2>1, <2>2, <2>3, <1>2, SeqEqual
  <2> QED
    BY <2>4 DEF s
<1>7. /\ Current.payload = Current.tail /\ Current.tail \in Seq(Tokens)
      /\ Current.lines[1].v \in Nat
      /\ HeaderValue(Split(Current.lines), "host", 0) \in Nat
      /\ Current.host = IF Current.lines[1].v # 0 THEN Current.lines[1].v
                        ELSE HeaderValue(Split(Current.lines), "host", 0)
  BY <1>2, <1>3 DEF Understood, Well
<1>8. head[1][1] = Current.lines[1]
  <2>1. Len(Current.lines) \in Nat /\ Len(Current.lines) >= 1
    BY <1>3 DEF Understood, Well, Plain
  <2> QED
    BY <2>1, <1>2 DEF Split
<1>9. /\ r \in Asking /\ AsksFor(r) = Current.host
      /\ r.body = Current.payload
  BY <1>2, <1>6, <1>7, <1>8 DEF AsksFor, Asking
<1> HIDE DEF r
<1>10. /\ pending' \in Seq(Asking) /\ Len(pending') = i
       /\ pending'[i] = r
       /\ \A k \in 1..Len(pending) : pending'[k] = pending[k]
  BY <1>1, <1>2, <1>9, AppendProperties DEF i
<1>11. Answered'
  <2>1. ASSUME NEW k \in 1..Len(pending')
        PROVE  /\ sending[k].is = "request"
               /\ AsksFor(pending'[k]) = sending[k].host
               /\ pending'[k].body = sending[k].payload
    <3>1. CASE k = i
      BY <3>1, <1>2, <1>3, <1>9, <1>10
    <3>2. CASE k # i
      <4>1. k \in 1..Len(pending)
        BY <3>2, <1>2, <1>10 DEF i
      <4> QED
        BY <4>1, <1>2, <1>10
    <3> QED
      BY <3>1, <3>2
  <2>2. Len(pending') \in 0..2
    BY <1>3, <1>10
  <2> QED
    BY <2>1, <2>2, <1>1, <1>10 DEF Answered, AsksFor
<1>12. Stream' = Stream /\ \A k : Begin(k)' = Begin(k)
  BY <1>1 DEF Stream, Begin, Start
<1>13. ClientAt' = ClientAt + needed
  <2>1. ClientAt' = Begin(Len(pending') + 1) + 0
    BY <1>1, <1>2, <1>12 DEF ClientAt
  <2>2. ClientAt' = Begin(i + 1)
    BY <2>1, <1>3, <1>10
  <2> QED
    BY <2>2, <1>2, <1>3, <1>4
<1>14. Buffered(ClientAt)'
  BY <1>1, <1>5, <1>12, <1>13, ClientConsumes
<1>15. HeadKnown' /\ ClientWaits'
  BY <1>1, <1>2 DEF HeadKnown, ClientWaits
<1>16. mode' = "none" /\ body' = <<>> /\ answer' = <<>> /\ ~closed'
  BY <1>1 DEF CInv
<1> QED
  BY <1>11, <1>14, <1>15, <1>16 DEF CInv

(* The client writes.                                                      *)
LEMMA ClientWrites ==
  ASSUME Sent, CInv, side = "client", NEW n \in 1..Len(Stream), Write(n)
  PROVE  CInv'
<1>1. /\ pc = "out" /\ ~error /\ pos + n <= Len(Stream) /\ pos' = pos + n
      /\ pc' = "take" /\ buf' = buf \o SubSeq(Stream, pos + 1, pos + n)
      /\ UNCHANGED <<side, sending, head, needed, mode, body, closed>>
      /\ UNCHANGED <<pending, error, answer>>
  BY DEF Write, CInv, told
<1>2. UNCHANGED <<Stream, Current, ClientAt>>
  BY <1>1 DEF Stream, Current, ClientAt, Begin, Start
<1>3. Buffered(ClientAt)'
  <2>1. /\ Stream \in Seq(Tokens) /\ pos \in 0..Len(Stream)
        /\ ClientAt \in 0..pos /\ n \in Nat
        /\ buf = SubSeq(Stream, ClientAt + 1, pos)
    BY ClientState DEF CInv, Buffered
  <2>2. buf' = SubSeq(Stream, ClientAt + 1, pos + n)
    BY <2>1, <1>1, Grow
  <2>3. ClientAt \in 0..(pos + n)
    BY <2>1
  <2> QED
    BY <2>2, <2>3, <1>1, <1>2 DEF Buffered
<1>4. Answered' /\ mode' = "none" /\ body' = <<>> /\ answer' = <<>> /\ ~closed'
  BY <1>1 DEF CInv, Answered, AsksFor
<1>5. HeadKnown' /\ ClientWaits'
  BY <1>1, <1>2 DEF CInv, HeadKnown, ClientWaits
<1> QED
  BY <1>3, <1>4, <1>5 DEF CInv

(* A step that leaves both parsers alone, or only leaves the call.         *)
LEMMA ClientReturns ==
  ASSUME Sent, CInv, side = "client",
         UNCHANGED <<side, sending, pos, parsing, told, closed>>,
         pc' = pc \/ TakeNothing
  PROVE  CInv'
<1>1. UNCHANGED <<side, sending, pos, buf, head, needed, mode, body, closed>>
      /\ UNCHANGED <<pending, error, answer>>
  BY DEF parsing, told
<1>2. UNCHANGED <<Stream, Current, ClientAt>>
  BY <1>1 DEF Stream, Current, ClientAt, Begin, Start
<1>3. ClientWaits'
  <2>1. CASE pc' = pc
    BY <2>1, <1>1 DEF CInv, ClientWaits
  <2>2. CASE TakeNothing
    <3>1. IF head = <<>> THEN EndOfHead(buf) = 0 ELSE Len(buf) < needed
      BY <2>2 DEF TakeNothing, Incomplete, CInv
    <3> QED
      BY <3>1, <1>1 DEF ClientWaits
  <2> QED
    BY <2>1, <2>2
<1>4. HeadKnown'
  BY <1>1, <1>2 DEF CInv, HeadKnown, TakeNothing
<1>5. Answered' /\ mode' = "none" /\ body' = <<>> /\ answer' = <<>> /\ ~closed'
  BY <1>1 DEF CInv, Answered, AsksFor
<1>6. Buffered(ClientAt)'
  BY <1>1, <1>2 DEF CInv, Buffered
<1> QED
  BY <1>3, <1>4, <1>5, <1>6 DEF CInv

(* Nothing but a write moves along the wire, and none goes past its end.   *)
LEMMA SentStep ==
  ASSUME Sent, [Next]_vars
  PROVE  Sent'
<1>0. pos \in Nat /\ side \in {"client", "server"} /\ pc \in {"out", "take"}
      /\ sending \in First(side) \X Second(side) /\ pos \in 0..Len(Stream)
  BY DEF Sent
<1>a. ASSUME UNCHANGED <<side, sending>>, pc' \in {"out", "take"},
             pos' \in 0..Len(Stream)
      PROVE  Sent'
  <2>1. Stream' = Stream
    BY <1>a DEF Stream
  <2> QED
    BY <2>1, <1>0, <1>a DEF Sent, First, Second
<1>b. ASSUME UNCHANGED <<side, sending, pos>>, pc' \in {"out", "take"}
      PROVE  Sent'
  BY <1>a, <1>b, <1>0
<1>1. ASSUME NEW n \in Name, NEW a \in Given, ResolveGiven(n, a)
      PROVE  Sent'
  BY <1>1, <1>0, <1>b DEF ResolveGiven
<1>2. ASSUME NEW n \in Name, ResolveAlias(n)
      PROVE  Sent'
  BY <1>2, <1>0, <1>b DEF ResolveAlias
<1>3. ASSUME NEW p \in gave, Connect(p[2], Host(p[1]))
      PROVE  Sent'
  BY <1>3, <1>0, <1>b DEF Connect
<1>4. ASSUME NEW h \in {Literal, Host(1)}, Connect(h, h)
      PROVE  Sent'
  BY <1>4, <1>0, <1>b DEF Connect
<1>5. ASSUME NEW n \in 1..Len(Stream), Write(n)
      PROVE  Sent'
  <2>1. pos' = pos + n /\ pos + n <= Len(Stream) /\ UNCHANGED <<side, sending>>
    BY <1>5 DEF Write
  <2>2. pc' \in {"out", "take"}
    BY <1>5 DEF Write
  <2>3. pos' \in 0..Len(Stream)
    BY <2>1, <1>0
  <2> QED
    BY <2>1, <2>2, <2>3, <1>a
<1>6. CASE TakeNothing
  BY <1>6, <1>b DEF TakeNothing
<1>7. CASE TakeRequestHead
  BY <1>7, <1>0, <1>b DEF TakeRequestHead, Taking
<1>8. CASE TakeBadRequest
  BY <1>8, <1>b DEF TakeBadRequest, Taking
<1>9. CASE TakeRequest
  BY <1>9, <1>0, <1>b DEF TakeRequest, Taking
<1>10. CASE TakeStatus
  BY <1>10, <1>0, <1>b DEF TakeStatus, Taking
<1>11. CASE TakeBadStatus
  BY <1>11, <1>b DEF TakeBadStatus, Settled, Taking
<1>12. CASE TakeSized
  BY <1>12, <1>b DEF TakeSized, Settled, Taking
<1>13. CASE TakeChunkBytes
  BY <1>13, <1>0, <1>b DEF TakeChunkBytes, Taking
<1>14. CASE TakeBlank
  BY <1>14, <1>0, <1>b DEF TakeBlank, Taking
<1>15. CASE TakeSize
  BY <1>15, <1>0, <1>b DEF TakeSize, Taking
<1>16. CASE TakeLastSize
  BY <1>16, <1>b DEF TakeLastSize, Settled, Taking
<1>17. CASE TakeBadSize
  BY <1>17, <1>b DEF TakeBadSize, Settled, Taking
<1>18. CASE TakeToClose
  BY <1>18, <1>b DEF TakeToClose, Taking
<1>19. CASE Close
  BY <1>19, <1>0, <1>b DEF Close
<1>20. CASE UNCHANGED vars
  BY <1>20, <1>0, <1>b DEF vars
<1> QED
  BY <1>1, <1>2, <1>3, <1>4, <1>5, <1>6, <1>7, <1>8, <1>9, <1>10, <1>11,
     <1>12, <1>13, <1>14, <1>15, <1>16, <1>17, <1>18, <1>19, <1>20
  DEF Next, Client, Server

(* The client's invariant is inductive: the server's steps are not its.    *)
LEMMA CStep ==
  ASSUME Sent, CInv, [Next]_vars
  PROVE  CInv'
<1>0. CASE side = "server"
  <2>1. side' = "server"
    BY <1>0 DEF Next, vars, Client, Server, ResolveGiven, ResolveAlias, Connect,
            Askable, Write, TakeNothing, TakeRequestHead, TakeBadRequest,
            TakeRequest, TakeStatus, TakeBadStatus, TakeSized, TakeChunkBytes,
            TakeBlank, TakeSize, TakeLastSize, TakeBadSize, TakeToClose, Taking,
            Close
  <2> QED
    BY <2>1 DEF CInv
<1>1. CASE side = "client"
  <2>0. \/ \E n \in 1..Len(Stream) : Write(n)
        \/ TakeRequestHead \/ TakeBadRequest \/ TakeRequest
        \/ /\ UNCHANGED <<side, sending, pos, parsing, told, closed>>
           /\ pc' = pc \/ TakeNothing
    <3>1. ~Server /\ ~Close
      BY <1>1 DEF Server, Close, TakeStatus, TakeBadStatus, TakeSized,
              TakeChunkBytes, TakeBlank, TakeSize, TakeLastSize, TakeBadSize,
              TakeToClose, Taking
    <3>2. ASSUME NEW n, NEW a, ResolveGiven(n, a) \/ ResolveAlias(n)
          PROVE  UNCHANGED <<side, sending, pos, pc, parsing, told, closed>>
      BY <3>2 DEF ResolveGiven, ResolveAlias
    <3>3. ASSUME NEW a, NEW h, Connect(a, h)
          PROVE  UNCHANGED <<side, sending, pos, pc, parsing, told, closed>>
      BY <3>3 DEF Connect
    <3>4. TakeNothing => UNCHANGED <<side, sending, pos, parsing, told, closed>>
      BY DEF TakeNothing
    <3>5. UNCHANGED vars =>
            UNCHANGED <<side, sending, pos, pc, parsing, told, closed>>
      BY DEF vars
    <3> QED
      BY <3>1, <3>2, <3>3, <3>4, <3>5 DEF Next, Client
  <2> QED
    BY <2>0, <1>1, ClientWrites, TakeRequestHeadKeeps, TakeBadRequestKeeps,
       TakeRequestKeeps, ClientReturns
<1> QED
  BY <1>0, <1>1 DEF Sent

(* The empty buffer holds no head.                                         *)
LEMMA NoHead == EndOfHead(<<>>) = 0
<1>1. Ends(Blank, <<>>) = {}
  BY DEF Ends, Blank
<1> QED
  BY <1>1 DEF EndOfHead, EndOf

(* A client that has written nothing.                                      *)
LEMMA CInit ==
  ASSUME Init, side = "client"
  PROVE  Sent /\ CInv
<1>0. /\ sending \in First(side) \X Second(side)
      /\ pos = 0 /\ pc = "out"
      /\ buf = <<>> /\ head = <<>> /\ needed = 0 /\ mode = "none" /\ body = <<>>
      /\ pending = <<>> /\ error = FALSE /\ answer = <<>> /\ closed = FALSE
  BY DEF Init
<1>1. Understood(sending[1]) /\ Understood(sending[2])
  <2>1. sending[1] \in First("client") /\ sending[2] \in Second("client")
    BY <1>0
  <2> QED
    BY <2>1, ClientMessages
<1>2. Stream \in Seq(Tokens) /\ Len(Stream) \in Nat /\ Begin(1) = 0
  <2>1. Well(sending[1]) /\ Well(sending[2])
    BY <1>1 DEF Understood
  <2>2. Stream \in Seq(Tokens) /\ Begin(1) = 0
    BY <2>1, StreamFacts
  <2> QED
    BY <2>2
<1>3. Sent
  BY <1>0, <1>2 DEF Sent, Init
<1>4. ClientAt = 0
  <2>1. Len(pending) + 1 = 1
    BY <1>0
  <2> QED
    BY <2>1, <1>0, <1>2 DEF ClientAt
<1>5. Buffered(ClientAt)
  <2>1. 0 \in 0..Len(Stream) /\ 0 \in 0..0
    BY <1>2
  <2> DEFINE b == SubSeq(Stream, 0 + 1, 0)
  <2>2. b \in Seq(Tokens) /\ Len(b) = 0 - 0
    BY <1>2, <2>1, Rest
  <2> HIDE DEF b
  <2>3. b = <<>>
    BY <2>2
  <2> QED
    BY <2>1, <2>3, <1>0, <1>4 DEF Buffered, b
<1>6. Answered
  BY <1>0 DEF Answered
<1>7. HeadKnown /\ ClientWaits
  BY <1>0, NoHead DEF HeadKnown, ClientWaits
<1> QED
  BY <1>0, <1>3, <1>5, <1>6, <1>7 DEF CInv

(* Between two calls the client's requests are those that are all in.      *)
LEMMA ClientExact ==
  ASSUME Sent, CInv
  PROVE  RequestsExact
<1> SUFFICES ASSUME side = "client", pc = "out"
             PROVE  LET in == {i \in 1..2 : Reached(i) /\ Whole(i)}
                        good == {i \in in : sending[i].is = "request"}
                    IN /\ 1..Len(pending) = good /\ HostsParsed
                       /\ \A i \in good : pending[i].body = sending[i].payload
                       /\ error <=> in # good
  BY DEF RequestsExact
<1> DEFINE in == {i \in 1..2 : Reached(i) /\ Whole(i)}
           good == {i \in in : sending[i].is = "request"}
           p == Len(pending)
<1>1. /\ p \in {0, 1, 2} /\ error \in BOOLEAN
      /\ \A i \in 1..p : /\ sending[i].is = "request"
                          /\ AsksFor(pending[i]) = sending[i].host
                          /\ pending[i].body = sending[i].payload
      /\ error => p < 2 /\ head = <<>> /\ Current.is = "error"
  BY DEF CInv, Answered, HeadKnown
<1>2. /\ ClientAt \in Nat /\ pos \in Nat /\ ClientAt <= pos
      /\ Len(buf) = pos - ClientAt /\ Begin(1) = 0
      /\ \A i \in 1..3 : Begin(i) \in Nat
  BY ClientState
<1>3. ASSUME NEW i \in 1..2
      PROVE  /\ HeadLen(sending[i]) \in Nat /\ Len(sending[i].tail) \in Nat
             /\ Begin(i) = Start(i) /\ Understood(sending[i])
             /\ Begin(i + 1) = Begin(i) + HeadLen(sending[i]) + Len(sending[i].tail)
  <2>1. Understood(sending[1]) /\ Understood(sending[2])
    BY ClientState
  <2>2. Well(sending[1]) /\ Well(sending[2])
    BY <2>1 DEF Understood
  <2> QED
    BY <2>1, <2>2, StreamFacts, WiredFacts
<1>4. /\ Begin(1) <= Begin(2) /\ Begin(2) <= Begin(3)
      /\ \A i \in 1..2 : sending[i].is = "request" =>
            (Whole(i) <=> Begin(i + 1) <= pos)
      /\ \A i \in 1..2 : sending[i].is = "error" =>
            (Whole(i) <=> Begin(i) + HeadLen(sending[i]) <= pos)
  <2>1. 1 \in 1..2 /\ 2 \in 1..2 /\ 1 + 1 = 2 /\ 2 + 1 = 3
    OBVIOUS
  <2>2. Begin(1) <= Begin(2) /\ Begin(2) <= Begin(3)
    BY <2>1, <1>2, <1>3
  <2>3. ASSUME NEW i \in 1..2, sending[i].is = "request"
        PROVE  Whole(i) <=> Begin(i + 1) <= pos
    <3>1. sending[i].ends = Len(sending[i].tail)
      BY <2>3, <1>3 DEF Understood
    <3> QED
      BY <3>1, <1>2, <1>3 DEF Whole
  <2>4. ASSUME NEW i \in 1..2, sending[i].is = "error"
        PROVE  Whole(i) <=> Begin(i) + HeadLen(sending[i]) <= pos
    <3>1. sending[i].ends = 0
      BY <2>4, <1>3 DEF Understood
    <3>2. Begin(i) \in Nat /\ Start(i) = Begin(i)
          /\ HeadLen(sending[i]) \in Nat
      <4>1. i \in 1..3
        OBVIOUS
      <4> QED
        BY <4>1, <1>2, <1>3
    <3>3. Start(i) + HeadLen(sending[i]) + sending[i].ends
            = Begin(i) + HeadLen(sending[i])
      BY <3>1, <3>2
    <3> QED
      BY <3>2, <3>3, <1>2 DEF Whole
  <2> QED
    BY <2>2, <2>3, <2>4
<1>5. Begin(p + 1) <= ClientAt
  <2>1. CASE p = 2
    BY <2>1, <1>1, <1>2 DEF ClientAt, CInv, HeadKnown
  <2>2. CASE p < 2
    <3>1. HeadLen(Current) \in Nat /\ Begin(p + 1) \in Nat
      BY <2>2, ClientCurrent
    <3> QED
      BY <3>1 DEF ClientAt
  <2> QED
    BY <1>1, <2>1, <2>2
<1>6. ASSUME NEW i \in 1..p PROVE i \in 1..2 /\ i \in good
  <2>1. i \in 1..2 /\ i + 1 \in 2..3 /\ p + 1 \in 2..3 /\ i + 1 <= p + 1
    BY <1>1
  <2>2. Begin(i + 1) <= Begin(p + 1)
    <3>1. Begin(2) \in Nat /\ Begin(3) \in Nat
      BY <1>2
    <3>2. CASE i + 1 = p + 1
      <4>1. i + 1 = 2 \/ i + 1 = 3
        BY <2>1
      <4> QED
        BY <3>1, <3>2, <4>1
    <3>3. CASE i + 1 = 2 /\ p + 1 = 3
      BY <3>3, <1>4
    <3>4. i + 1 = p + 1 \/ (i + 1 = 2 /\ p + 1 = 3)
      BY <2>1
    <3> QED
      BY <3>2, <3>3, <3>4
  <2>3. Begin(i + 1) <= pos
    <3>1. Begin(i + 1) \in Nat /\ Begin(p + 1) \in Nat
      BY <2>1, <1>2
    <3> QED
      BY <3>1, <2>2, <1>2, <1>5
  <2>4. Whole(i) /\ sending[i].is = "request"
    BY <2>1, <2>3, <1>1, <1>4
  <2>5. Reached(i)
    BY <2>1, <1>1 DEF Reached
  <2> QED
    BY <2>1, <2>4, <2>5
<1>7. ASSUME p < 2
      PROVE  /\ p + 1 \in 1..2 /\ p + 1 \notin good
             /\ p + 1 \in in <=> error
             /\ \A i \in 1..2 : i > p + 1 => i \notin in
  <2> DEFINE c == p + 1
  <2>1. /\ c \in 1..2 /\ Current = sending[c] /\ c + 1 \in 1..3
    BY <1>7, ClientCurrent
  <2>2. /\ HeadLen(Current) \in Nat /\ Len(Current.tail) \in Nat
        /\ Begin(c) \in Nat /\ Begin(c + 1) \in Nat
        /\ Begin(c + 1) = Begin(c) + HeadLen(Current) + Len(Current.tail)
        /\ Understood(Current)
    BY <1>7, ClientCurrent, <2>1, <1>2
  <2>3. Reached(c)
    BY <2>1, <1>1 DEF Reached
  <2>4. Current.is = "request" \/ Current.is = "error"
    BY <2>2 DEF Understood
  <2>5. CASE error
    <3>1. ClientAt = Begin(c) + HeadLen(Current)
      BY <2>5 DEF ClientAt
    <3>2. Whole(c)
      BY <3>1, <2>1, <2>5, <1>1, <1>2, <1>4
    <3>3. \A i \in 1..2 : i > c => ~Reached(i)
      <4> SUFFICES ASSUME NEW i \in 1..2, i > c PROVE ~Reached(i)
        OBVIOUS
      <4>1. c \in 1..(i - 1)
        BY <2>1
      <4>2. sending[c].is # "request"
        BY <2>1, <2>5, <1>1
      <4> QED
        BY <4>1, <4>2 DEF Reached
    <3> QED
      BY <3>2, <3>3, <2>1, <2>3, <2>5, <1>1
  <2>6. CASE ~error
    <3>1. pos < Begin(c + 1) /\ (Current.is = "error" => pos < Begin(c) + HeadLen(Current))
      <4>1. CASE head = <<>>
        <5>1. EndOfHead(buf) = 0 /\ ClientAt = Begin(c)
              /\ EndOfHead(buf) = IF Len(buf) >= HeadLen(Current)
                                    THEN HeadLen(Current) ELSE 0
          BY <4>1, <2>6, <1>7, ClientHead DEF CInv, ClientWaits
        <5>2. HeadLen(Current) = (3 * Len(Current.lines)) + 2
              /\ Len(Current.lines) \in Nat
          BY <1>7, <2>2, ClientCurrent DEF Understood, Well, Plain
        <5>3. Len(buf) < HeadLen(Current)
          BY <5>1, <5>2, <1>2
        <5> QED
          BY <5>1, <5>3, <2>2, <1>2
      <4>2. CASE head # <<>>
        <5>1. /\ Current.is = "request" /\ needed = Len(Current.tail)
              /\ Len(buf) < needed /\ ClientAt = Begin(c) + HeadLen(Current)
          BY <4>2, <2>6 DEF CInv, HeadKnown, ClientWaits, ClientAt
        <5> QED
          BY <5>1, <2>2, <1>2
      <4> QED
        BY <4>1, <4>2
    <3>2. ~Whole(c)
      <4>1. CASE Current.is = "request"
        BY <4>1, <3>1, <2>1, <2>2, <1>2, <1>4
      <4>2. CASE Current.is = "error"
        BY <4>2, <3>1, <2>1, <2>2, <1>2, <1>4
      <4> QED
        BY <2>4, <4>1, <4>2
    <3>3. ASSUME NEW i \in 1..2, i > c PROVE i \notin in
      <4>1. i = 2 /\ c = 1 /\ i \in 1..2
        BY <3>3, <2>1
      <4>2. /\ Begin(2) = Start(2) /\ HeadLen(sending[2]) \in Nat
            /\ Len(sending[2].tail) \in Nat /\ Understood(sending[2])
        BY <4>1, <1>3
      <4>3. Begin(2) \in Nat /\ pos < Begin(2)
        BY <4>1, <3>1, <2>2
      <4>4. ~Whole(2)
        <5>1. sending[2].ends \in Nat
          BY <4>2 DEF Understood
        <5> QED
          BY <5>1, <4>2, <4>3, <1>2 DEF Whole
      <4> QED
        BY <4>1, <4>4
    <3> QED
      BY <3>2, <3>3, <2>1, <2>6
  <2> QED
    BY <2>5, <2>6, <1>1
<1> HIDE DEF in, good
<1>8. in \subseteq 1..2 /\ good = {i \in in : sending[i].is = "request"}
  BY DEF in, good
<1>9. 1..p = good /\ (error <=> in # good)
  <2>1. CASE p = 2
    <3>1. \A i \in 1..p : i \in good
      BY <1>6
    <3>2. 1..p = 1..2 /\ good \subseteq in
      BY <2>1, <1>8
    <3>3. 1..p = good /\ in = good
      BY <3>1, <3>2, <1>8
    <3> QED
      BY <3>3, <2>1, <1>1
  <2>2. CASE p < 2
    <3>1. ASSUME NEW i \in in PROVE i \in 1..p \/ i = p + 1
      BY <1>1, <1>7, <1>8, <2>2
    <3>2. 1..p = good
      BY <3>1, <1>6, <1>7, <1>8, <2>2
    <3> QED
      BY <3>1, <3>2, <1>6, <1>7, <1>8, <2>2
  <2> QED
    BY <1>1, <2>1, <2>2
<1>10. HostsParsed /\ \A i \in good : pending[i].body = sending[i].payload
  BY <1>1, <1>9 DEF HostsParsed
<1> QED
  BY <1>9, <1>10 DEF in, good

-----------------------------------------------------------------------------
(* The messages of a server.                                               *)

(* A response as its parser has it: nonsense, or one of a known length, or *)
(* one that ends with the connection, or chunks.                           *)
Answers(m) ==
  LET lines == Split(m.lines) IN
  /\ Well(m)
  /\ \/ /\ ~ResponseOk(lines) /\ m.is = "error" /\ m.ends = 0
        /\ m.payload = <<>>
     \/ /\ ResponseOk(lines)
        /\ \/ /\ ModeOf(lines) = "length" /\ LengthOf(lines) = m.ends
              /\ m.is = "response" /\ m.tail = m.payload
              /\ m.ends = Len(m.payload)
           \/ /\ ModeOf(lines) = "close" /\ LengthOf(lines) = 0
              /\ m.is = "response" /\ m.ends = None
           \/ /\ ModeOf(lines) = "chunked" /\ LengthOf(lines) = 0
              /\ \E cs \in Chunkings : Layout(m, cs)

(* What a short head says of the body that follows it.                     *)
LEMMA StatusHeads ==
  ASSUME NEW lines, Short(lines)
  PROVE  LET ls == Split(lines)
             bodiless == lines[1].v < 200 \/ lines[1].v \in {204, 304}
             two == Len(lines) >= 2
             three == Len(lines) = 3
             At(k, name) == Len(lines) >= k /\ lines[k].t = name
         IN /\ Plain(lines)
            /\ HeadOk(ls, "status") <=>
                 /\ lines[1].t = "status"
                 /\ Len(lines) >= 2 => lines[2].t \in HeaderNames
                 /\ Len(lines) = 3 => lines[3].t \in HeaderNames
            /\ bodiless => ModeOf(ls) = "length" /\ LengthOf(ls) = 0
            /\ ~bodiless /\ Len(lines) = 1 =>
                 ModeOf(ls) = "close" /\ LengthOf(ls) = 0
            /\ ~bodiless /\ Len(lines) = 2 /\ lines[2].t = "length"
               /\ lines[2].v # None =>
                 ModeOf(ls) = "length" /\ LengthOf(ls) = lines[2].v
            /\ ~bodiless /\ Len(lines) >= 2 /\ lines[2].t = "encoding"
               /\ lines[2].v # None =>
                 ModeOf(ls) = "chunked" /\ LengthOf(ls) = 0
<1> DEFINE ls == Split(lines)
           bodiless == lines[1].v < 200 \/ lines[1].v \in {204, 304}
<1>1. /\ Plain(lines)
      /\ HeadOk(ls, "status") <=>
           /\ lines[1].t = "status"
           /\ Len(lines) >= 2 => lines[2].t \in HeaderNames
           /\ Len(lines) = 3 => lines[3].t \in HeaderNames
      /\ \A name \in HeaderNames : \A none :
              HeaderValue(ls, name, none) =
                IF Len(lines) >= 2 /\ lines[2].t = name THEN lines[2].v
                ELSE IF Len(lines) = 3 /\ lines[3].t = name THEN lines[3].v
                ELSE none
  BY ShortHeads
<1>2. ls[1][1].v = lines[1].v /\ Len(lines) \in {1, 2, 3}
  BY DEF Split, Short
<1>3. NoBody(ls) <=> bodiless
  BY <1>2 DEF NoBody
<1>4. "length" \in HeaderNames /\ "encoding" \in HeaderNames
  BY DEF HeaderNames
<1> HIDE DEF ls, bodiless
<1>5. bodiless => ModeOf(ls) = "length" /\ LengthOf(ls) = 0
  BY <1>3 DEF ModeOf, LengthOf
<1>6. ASSUME ~bodiless, Len(lines) = 1
      PROVE  ModeOf(ls) = "close" /\ LengthOf(ls) = 0
  <2>1. HeaderValue(ls, "encoding", None) = None
        /\ HeaderValue(ls, "length", None) = None
    BY <1>1, <1>4, <1>6
  <2>2. ModeOf(ls) = "close"
    BY <2>1, <1>3, <1>6 DEF ModeOf
  <2> QED
    BY <2>2 DEF LengthOf
<1>7. ASSUME ~bodiless, Len(lines) = 2, lines[2].t = "length",
             lines[2].v # None
      PROVE  ModeOf(ls) = "length" /\ LengthOf(ls) = lines[2].v
  <2>1. HeaderValue(ls, "encoding", None) = None
        /\ HeaderValue(ls, "length", None) = lines[2].v
    BY <1>1, <1>4, <1>7
  <2>2. ModeOf(ls) = "length"
    BY <2>1, <1>3, <1>7 DEF ModeOf
  <2> QED
    BY <2>1, <2>2, <1>3, <1>7 DEF LengthOf
<1>8. ASSUME ~bodiless, Len(lines) >= 2, lines[2].t = "encoding",
             lines[2].v # None
      PROVE  ModeOf(ls) = "chunked" /\ LengthOf(ls) = 0
  <2>1. HeaderValue(ls, "encoding", None) = lines[2].v
    BY <1>1, <1>4, <1>8
  <2>2. ModeOf(ls) = "chunked"
    BY <2>1, <1>3, <1>8 DEF ModeOf
  <2> QED
    BY <2>2 DEF LengthOf
<1> QED
  BY <1>1, <1>5, <1>6, <1>7, <1>8 DEF ls, bodiless

(* The responses that are not in chunks.                                   *)
LEMMA PlainResponses ==
  ASSUME NEW m,
         \/ \E b \in Seq(Tokens) : m = Sized(b) \/ m = ToClose(b)
         \/ m = Bodiless(100) \/ m = Bodiless(204)
         \/ m = Refused(<<Token("junk", 0)>>)
         \/ m = Refused(<<Status, Token("junk", 0)>>)
         \/ m = Refused(<<Status, Length(NaN)>>)
  PROVE  Answers(m)
<1>1. /\ \A t, v : Token(t, v).t = t /\ Token(t, v).v = v
      /\ \A t \in Kinds, v \in Int : Token(t, v) \in Tokens
      /\ NaN = -1 /\ None = -2 /\ <<>> \in Seq(Tokens)
  BY TokenFacts, BodyFacts DEF NaN, None
<1>2. /\ \A n \in Int : Length(n).t = "length" /\ Length(n).v = n
                        /\ Length(n) \in Tokens
      /\ Status.t = "status" /\ Status.v = 200 /\ Status \in Tokens
  BY LineFacts
<1>3. "length" \in HeaderNames /\ "junk" \notin HeaderNames
  BY DEF HeaderNames
<1>4. ASSUME NEW b \in Seq(Tokens), m = Sized(b)
      PROVE  Answers(m)
  <2>1. /\ m.lines = <<Status, Length(Len(b))>> /\ m.tail = b
        /\ m.ends = Len(b) /\ m.is = "response" /\ m.payload = b
    BY <1>4 DEF Sized, Message
  <2>2. Len(b) \in Nat /\ Len(b) \in Int /\ Len(b) # None
    BY <1>1
  <2>3. /\ Short(m.lines) /\ Len(m.lines) = 2
        /\ m.lines[1] = Status /\ m.lines[2] = Length(Len(b))
    BY <2>1, <2>2, <1>2 DEF Short
  <2>4. /\ Plain(m.lines) /\ HeadOk(Split(m.lines), "status")
        /\ ModeOf(Split(m.lines)) = "length"
        /\ LengthOf(Split(m.lines)) = Len(b)
    <3>1. /\ m.lines[1].v = 200 /\ m.lines[1].t = "status"
          /\ m.lines[2].t = "length" /\ m.lines[2].v = Len(b)
          /\ Short(m.lines) /\ Len(m.lines) = 2
      BY <2>2, <2>3, <1>2
    <3>2. Plain(m.lines) /\ HeadOk(Split(m.lines), "status")
      BY <3>1, <1>3, StatusHeads
    <3>3. /\ ModeOf(Split(m.lines)) = "length"
          /\ LengthOf(Split(m.lines)) = Len(b)
      BY <3>1, <2>2, <2>3, StatusHeads
    <3> QED
      BY <3>2, <3>3
  <2> QED
    BY <2>1, <2>2, <2>4 DEF Answers, Well, ResponseOk
<1>5. ASSUME NEW b \in Seq(Tokens), m = ToClose(b)
      PROVE  Answers(m)
  <2>1. /\ m.lines = <<Status>> /\ m.tail = b
        /\ m.ends = None /\ m.is = "response"
    BY <1>5 DEF ToClose, Message
  <2>3. /\ Short(m.lines) /\ Len(m.lines) = 1 /\ m.lines[1] = Status
    BY <2>1, <1>2 DEF Short
  <2>4. /\ Plain(m.lines) /\ HeadOk(Split(m.lines), "status")
        /\ ModeOf(Split(m.lines)) = "close"
        /\ LengthOf(Split(m.lines)) = 0
    BY <2>3, <1>2, StatusHeads
  <2> QED
    BY <2>1, <2>4 DEF Answers, Well, ResponseOk
<1>6. ASSUME NEW s \in {100, 204}, m = Bodiless(s)
      PROVE  Answers(m)
  <2>1. /\ m.lines = <<Token("status", s), Length(2)>> /\ m.tail = <<>>
        /\ m.ends = 0 /\ m.is = "response" /\ m.payload = <<>>
    BY <1>6 DEF Bodiless, Message
  <2>2. /\ Token("status", s) \in Tokens /\ Token("status", s).t = "status"
        /\ Token("status", s).v = s
    BY <1>1 DEF Kinds
  <2>3. /\ Short(m.lines) /\ Len(m.lines) = 2
        /\ m.lines[1].t = "status" /\ m.lines[2].t = "length"
        /\ m.lines[1].v = s
    BY <2>1, <2>2, <1>2 DEF Short
  <2>4. /\ Plain(m.lines) /\ HeadOk(Split(m.lines), "status")
        /\ ModeOf(Split(m.lines)) = "length"
        /\ LengthOf(Split(m.lines)) = 0
    <3>1. Plain(m.lines) /\ HeadOk(Split(m.lines), "status")
      BY <2>3, <1>3, StatusHeads
    <3>2. /\ ModeOf(Split(m.lines)) = "length"
          /\ LengthOf(Split(m.lines)) = 0
      BY <2>3, StatusHeads
    <3> QED
      BY <3>1, <3>2
  <2>5. Len(m.payload) = 0
    BY <2>1
  <2> QED
    BY <2>1, <2>4, <2>5, <1>1 DEF Answers, Well, ResponseOk
<1>7. ASSUME m = Refused(<<Token("junk", 0)>>)
      PROVE  Answers(m)
  <2>1. /\ m.lines = <<Token("junk", 0)>> /\ m.tail = <<>>
        /\ m.ends = 0 /\ m.is = "error" /\ m.payload = <<>>
    BY <1>7 DEF Refused, Message
  <2>2. Token("junk", 0) \in Tokens /\ Token("junk", 0).t = "junk"
    BY <1>1 DEF Kinds
  <2>3. /\ Short(m.lines) /\ Len(m.lines) = 1 /\ m.lines[1].t = "junk"
    BY <2>1, <2>2 DEF Short
  <2>4. Plain(m.lines) /\ ~HeadOk(Split(m.lines), "status")
    BY <2>3, StatusHeads
  <2> QED
    BY <2>1, <2>4, <1>1 DEF Answers, Well, ResponseOk
<1>8. ASSUME m = Refused(<<Status, Token("junk", 0)>>)
      PROVE  Answers(m)
  <2>1. /\ m.lines = <<Status, Token("junk", 0)>> /\ m.tail = <<>>
        /\ m.ends = 0 /\ m.is = "error" /\ m.payload = <<>>
    BY <1>8 DEF Refused, Message
  <2>2. Token("junk", 0) \in Tokens /\ Token("junk", 0).t = "junk"
    BY <1>1 DEF Kinds
  <2>3. /\ Short(m.lines) /\ Len(m.lines) = 2 /\ m.lines[2].t = "junk"
    BY <2>1, <2>2, <1>2 DEF Short
  <2>4. Plain(m.lines) /\ ~HeadOk(Split(m.lines), "status")
    BY <2>3, <1>3, StatusHeads
  <2> QED
    BY <2>1, <2>4, <1>1 DEF Answers, Well, ResponseOk
<1>9. ASSUME m = Refused(<<Status, Length(NaN)>>)
      PROVE  Answers(m)
  <2>1. /\ m.lines = <<Status, Length(NaN)>> /\ m.tail = <<>>
        /\ m.ends = 0 /\ m.is = "error" /\ m.payload = <<>>
    BY <1>9 DEF Refused, Message
  <2>2. Length(NaN).t = "length" /\ Length(NaN).v = -1 /\ Length(NaN) \in Tokens
    BY <1>1, <1>2
  <2>3. /\ Short(m.lines) /\ Len(m.lines) = 2 /\ m.lines[1] = Status
        /\ m.lines[2].t = "length" /\ m.lines[2].v = -1
    BY <2>1, <2>2, <1>2 DEF Short
  <2>4. Plain(m.lines) /\ LengthOf(Split(m.lines)) = -1
    BY <2>3, <1>1, <1>2, StatusHeads
  <2> QED
    BY <2>1, <2>4, <1>1 DEF Answers, Well, ResponseOk
<1> QED
  BY <1>4, <1>5, <1>6, <1>7, <1>8, <1>9

(* Two parts of a wire, one after the other.                               *)
LEMMA Parts ==
  ASSUME NEW u \in Seq(Tokens), NEW w \in Seq(Tokens)
  PROVE  /\ u \o w \in Seq(Tokens) /\ Len(u \o w) = Len(u) + Len(w)
         /\ Len(u) \in Nat /\ Len(w) \in Nat
         /\ \A i \in 1..Len(u) : (u \o w)[i] = u[i]
         /\ \A i \in 1..Len(w) : (u \o w)[Len(u) + i] = w[i]
<1> DEFINE s == u \o w
<1>1. /\ s \in Seq(Tokens) /\ Len(s) = Len(u) + Len(w)
      /\ \A i \in 1..(Len(u) + Len(w)) :
           s[i] = IF i <= Len(u) THEN u[i] ELSE w[i - Len(u)]
  BY ConcatProperties
<1> HIDE DEF s
<1>2. Len(u) \in Nat /\ Len(w) \in Nat
  OBVIOUS
<1>3. \A i \in 1..Len(u) : s[i] = u[i]
  BY <1>1, <1>2
<1>4. ASSUME NEW i \in 1..Len(w) PROVE s[Len(u) + i] = w[i]
  <2>1. /\ Len(u) + i \in 1..(Len(u) + Len(w)) /\ ~(Len(u) + i <= Len(u))
        /\ (Len(u) + i) - Len(u) = i
    BY <1>2
  <2> QED
    BY <2>1, <1>1
<1> QED
  BY <1>1, <1>2, <1>3, <1>4 DEF s

(* A line on the wire.                                                     *)
LEMMA LineFactsOf ==
  ASSUME NEW x \in Tokens
  PROVE  /\ <<x, CR, LF>> \in Seq(Tokens) /\ Len(<<x, CR, LF>>) = 3
         /\ <<x, CR, LF>>[1] = x /\ <<x, CR, LF>>[2] = CR
         /\ <<x, CR, LF>>[3] = LF
BY TokenFacts

(* A chunk on the wire.                                                    *)
LEMMA ChunkFacts ==
  ASSUME NEW b \in Seq(Tokens)
  PROVE  LET s == Chunk(b) IN
         /\ s \in Seq(Tokens) /\ Len(s) = 5 + Len(b) /\ Len(b) \in Nat
         /\ s[1] = Token("size", Len(b)) /\ s[2] = CR /\ s[3] = LF
         /\ \A j \in 1..Len(b) : s[3 + j] = b[j]
         /\ s[4 + Len(b)] = CR /\ s[5 + Len(b)] = LF
<1> DEFINE x == Token("size", Len(b))
           h == <<x, CR, LF>>
           u == h \o b
           s == u \o CRLF
<1>1. Len(b) \in Nat /\ x \in Tokens
  <2>1. Len(b) \in Int
    OBVIOUS
  <2> QED
    BY <2>1, TokenFacts DEF Kinds
<1>2. /\ h \in Seq(Tokens) /\ Len(h) = 3 /\ h[1] = x /\ h[2] = CR /\ h[3] = LF
  BY <1>1, LineFactsOf
<1>3. CRLF \in Seq(Tokens) /\ Len(CRLF) = 2 /\ CRLF[1] = CR /\ CRLF[2] = LF
  BY TokenFacts DEF CRLF
<1>4. Chunk(b) = s
  BY DEF Chunk
<1> HIDE DEF x, h
<1>5. /\ u \in Seq(Tokens) /\ Len(u) = 3 + Len(b)
      /\ u[1] = x /\ u[2] = CR /\ u[3] = LF
      /\ \A j \in 1..Len(b) : u[3 + j] = b[j]
  <2>1. /\ u \in Seq(Tokens) /\ Len(u) = Len(h) + Len(b)
        /\ \A i \in 1..Len(h) : u[i] = h[i]
        /\ \A i \in 1..Len(b) : u[Len(h) + i] = b[i]
    BY <1>2, Parts
  <2> HIDE DEF u
  <2>2. 1 \in 1..3 /\ 2 \in 1..3 /\ 3 \in 1..3
    OBVIOUS
  <2> QED
    BY <2>1, <2>2, <1>2
<1> HIDE DEF u
<1>6. /\ s \in Seq(Tokens) /\ Len(s) = (3 + Len(b)) + 2
      /\ \A i \in 1..(3 + Len(b)) : s[i] = u[i]
      /\ s[(3 + Len(b)) + 1] = CR /\ s[(3 + Len(b)) + 2] = LF
  <2>1. /\ s \in Seq(Tokens) /\ Len(s) = Len(u) + Len(CRLF)
        /\ \A i \in 1..Len(u) : s[i] = u[i]
        /\ \A i \in 1..Len(CRLF) : s[Len(u) + i] = CRLF[i]
    BY <1>3, <1>5, Parts
  <2> HIDE DEF s
  <2>2. 1 \in 1..2 /\ 2 \in 1..2
    OBVIOUS
  <2> QED
    BY <2>1, <2>2, <1>3, <1>5
<1> HIDE DEF s
<1>7. \A j \in 1..Len(b) : s[3 + j] = b[j]
  <2> TAKE j \in 1..Len(b)
  <2>1. 3 + j \in 1..(3 + Len(b))
    BY <1>1
  <2> QED
    BY <2>1, <1>5, <1>6
<1>8. s[1] = x /\ s[2] = CR /\ s[3] = LF
  <2>1. 1 \in 1..(3 + Len(b)) /\ 2 \in 1..(3 + Len(b)) /\ 3 \in 1..(3 + Len(b))
    BY <1>1
  <2> QED
    BY <2>1, <1>5, <1>6
<1>9. (3 + Len(b)) + 2 = 5 + Len(b) /\ (3 + Len(b)) + 1 = 4 + Len(b)
  BY <1>1
<1> QED
  BY <1>1, <1>4, <1>6, <1>7, <1>8, <1>9 DEF x

(* Where a chunk is on a wire that it is part of.                          *)
LEMMA ChunkIn ==
  ASSUME NEW b \in Seq({Byte, CR, LF}), b # <<>>, NEW s, NEW c \in Nat,
         Len(s) \in Nat, Len(s) >= c + 5 + Len(b),
         \A j \in 1..(5 + Len(b)) : s[c + j] = Chunk(b)[j]
  PROVE  ChunkAt(s, c, b)
<1>1. b \in Seq(Tokens)
  <2>1. {Byte, CR, LF} \subseteq Tokens
    BY TokenFacts
  <2> QED
    BY <2>1, SeqMonotonic
<1> DEFINE n == Len(b)
           k == Chunk(b)
<1>2. /\ n \in Nat /\ k[1] = Token("size", n) /\ k[2] = CR /\ k[3] = LF
      /\ \A j \in 1..n : k[3 + j] = b[j]
      /\ k[4 + n] = CR /\ k[5 + n] = LF
  BY <1>1, ChunkFacts
<1>3. \A j \in 1..(5 + n) : s[c + j] = k[j]
  OBVIOUS
<1>4. Len(s) >= c + 5 + n
  OBVIOUS
<1> HIDE DEF n, k
<1>5. LineAt(s, c, Token("size", n))
  <2>1. 1 \in 1..(5 + n) /\ 2 \in 1..(5 + n) /\ 3 \in 1..(5 + n)
        /\ Len(s) >= c + 3
    BY <1>2, <1>4
  <2> QED
    BY <2>1, <1>2, <1>3 DEF LineAt
<1>6. ASSUME NEW j \in 1..n PROVE s[(c + 3) + j] = b[j]
  <2>1. 3 + j \in 1..(5 + n) /\ c + (3 + j) = (c + 3) + j
    BY <1>2
  <2> QED
    BY <2>1, <1>2, <1>3
<1>7. s[c + 4 + n] = CR /\ s[c + 5 + n] = LF
  <2>1. \A m \in Nat : /\ 4 + m \in 1..(5 + m) /\ c + (4 + m) = c + 4 + m
                       /\ 5 + m \in 1..(5 + m) /\ c + (5 + m) = c + 5 + m
    OBVIOUS
  <2>2. n \in Nat
    BY <1>2
  <2> QED
    BY <2>1, <2>2, <1>2, <1>3
<1> QED
  BY <1>4, <1>5, <1>6, <1>7 DEF ChunkAt, n

(* A response in two chunks.                                               *)
LEMMA ChunkedResponses ==
  ASSUME NEW a \in Bodies \ {<<>>}, NEW b \in Bodies \ {<<>>},
         NEW hs \in {<<>>, <<Length(1)>>}
  PROVE  Answers(Chunked(a, b, hs))
<1> DEFINE m == Chunked(a, b, hs)
           A == Chunk(a)
           B == Chunk(b)
           C == LastChunk
           u == A \o B
           w == u \o C
           t == w \o CRLF
           cs == <<a, b>>
<1>1. /\ a \in Seq({Byte, CR, LF}) /\ b \in Seq({Byte, CR, LF})
      /\ a \in Seq(Tokens) /\ b \in Seq(Tokens) /\ a # <<>> /\ b # <<>>
      /\ Len(a) \in Nat /\ Len(b) \in Nat
  BY WireAssumption, BodyFacts
<1>2. /\ m.lines = <<Status, Encoding>> \o hs /\ m.tail = t
      /\ m.ends = Len(w) /\ m.is = "response" /\ m.payload = a \o b
  BY DEF Chunked, Message
<1>3. /\ C \in Seq(Tokens) /\ Len(C) = 3
      /\ C[1] = Token("size", 0) /\ C[2] = CR /\ C[3] = LF
  <2>1. Token("size", 0) \in Tokens
    BY TokenFacts DEF Kinds
  <2> QED
    BY <2>1, LineFactsOf DEF LastChunk
<1>4. /\ A \in Seq(Tokens) /\ Len(A) = 5 + Len(a)
      /\ B \in Seq(Tokens) /\ Len(B) = 5 + Len(b)
      /\ CRLF \in Seq(Tokens) /\ Len(CRLF) = 2
  BY <1>1, ChunkFacts, TokenFacts DEF CRLF
<1> HIDE DEF A, B, C
<1>5. /\ u \in Seq(Tokens) /\ Len(u) = (5 + Len(a)) + (5 + Len(b))
      /\ \A i \in 1..(5 + Len(a)) : u[i] = A[i]
      /\ \A i \in 1..(5 + Len(b)) : u[(5 + Len(a)) + i] = B[i]
  <2>1. /\ u \in Seq(Tokens) /\ Len(u) = Len(A) + Len(B)
        /\ \A i \in 1..Len(A) : u[i] = A[i]
        /\ \A i \in 1..Len(B) : u[Len(A) + i] = B[i]
    BY <1>4, Parts
  <2> HIDE DEF u
  <2> QED
    BY <2>1, <1>4
<1> HIDE DEF u
<1>6. /\ w \in Seq(Tokens) /\ Len(w) = ((5 + Len(a)) + (5 + Len(b))) + 3
      /\ \A i \in 1..((5 + Len(a)) + (5 + Len(b))) : w[i] = u[i]
      /\ \A i \in 1..3 : w[((5 + Len(a)) + (5 + Len(b))) + i] = C[i]
  <2>1. /\ w \in Seq(Tokens) /\ Len(w) = Len(u) + Len(C)
        /\ \A i \in 1..Len(u) : w[i] = u[i]
        /\ \A i \in 1..Len(C) : w[Len(u) + i] = C[i]
    BY <1>3, <1>5, Parts
  <2> HIDE DEF w
  <2> QED
    BY <2>1, <1>3, <1>5
<1> HIDE DEF w
<1>7. /\ t \in Seq(Tokens) /\ Len(t) = (((5 + Len(a)) + (5 + Len(b))) + 3) + 2
      /\ \A i \in 1..(((5 + Len(a)) + (5 + Len(b))) + 3) : t[i] = w[i]
  <2>1. /\ t \in Seq(Tokens) /\ Len(t) = Len(w) + Len(CRLF)
        /\ \A i \in 1..Len(w) : t[i] = w[i]
        /\ \A i \in 1..Len(CRLF) : t[Len(w) + i] = CRLF[i]
    BY <1>4, <1>6, Parts
  <2> HIDE DEF t
  <2> QED
    BY <2>1, <1>4, <1>6
<1> HIDE DEF t, m
<1>8. ChunkAt(t, 0, a)
  <2>1. ASSUME NEW j \in 1..(5 + Len(a)) PROVE t[0 + j] = A[j]
    <3>1. /\ j \in 1..((5 + Len(a)) + (5 + Len(b))) /\ 0 + j = j
          /\ j \in 1..(((5 + Len(a)) + (5 + Len(b))) + 3)
      BY <1>1
    <3> QED
      BY <3>1, <1>5, <1>6, <1>7
  <2>2. Len(t) \in Nat /\ Len(t) >= 0 + 5 + Len(a)
    BY <1>1, <1>7
  <2> QED
    BY <2>1, <2>2, <1>1, ChunkIn DEF A
<1>9. ChunkAt(t, 5 + Len(a), b)
  <2>1. ASSUME NEW j \in 1..(5 + Len(b)) PROVE t[(5 + Len(a)) + j] = B[j]
    <3>1. /\ (5 + Len(a)) + j \in 1..((5 + Len(a)) + (5 + Len(b)))
          /\ (5 + Len(a)) + j \in 1..(((5 + Len(a)) + (5 + Len(b))) + 3)
      BY <1>1
    <3> QED
      BY <3>1, <1>5, <1>6, <1>7
  <2>2. Len(t) \in Nat /\ Len(t) >= (5 + Len(a)) + 5 + Len(b) /\ 5 + Len(a) \in Nat
    BY <1>1, <1>7
  <2> QED
    BY <2>1, <2>2, <1>1, ChunkIn DEF B
<1>10. LineAt(t, 10 + Len(a) + Len(b), Token("size", 0))
  <2> DEFINE c == (5 + Len(a)) + (5 + Len(b))
  <2>1. c = 10 + Len(a) + Len(b) /\ c \in Nat
    BY <1>1
  <2>2. \A i \in 1..3 : w[c + i] = C[i]
    BY <1>6
  <2>3. Len(t) = (c + 3) + 2 /\ \A i \in 1..(c + 3) : t[i] = w[i]
    BY <1>7
  <2> HIDE DEF c
  <2>4. c + 1 \in 1..(c + 3) /\ c + 2 \in 1..(c + 3) /\ c + 3 \in 1..(c + 3)
        /\ Len(t) >= c + 3 /\ 1 \in 1..3 /\ 2 \in 1..3 /\ 3 \in 1..3
    BY <2>1, <2>3
  <2>5. t[c + 1] = Token("size", 0) /\ t[c + 2] = CR /\ t[c + 3] = LF
    BY <2>2, <2>3, <2>4, <1>3
  <2> QED
    BY <2>1, <2>4, <2>5 DEF LineAt
<1>11. Layout(m, cs)
  <2>1. Len(cs) = 2 /\ cs[1] = a /\ cs[2] = b /\ 2 + 1 = 3
    OBVIOUS
  <2>2. /\ Off(cs, 1) = 0 /\ Off(cs, 2) = 5 + Len(a)
        /\ Off(cs, 3) = 10 + Len(a) + Len(b) /\ Joined(cs, 2) = a \o b
    BY <2>1 DEF Off, Joined
  <2>3. m.ends = Off(cs, 3) + 3
    BY <2>2, <1>1, <1>2, <1>6
  <2> HIDE DEF cs
  <2>4. \A k \in 1..2 : cs[k] \in Seq({Byte, CR, LF})
                        /\ ChunkAt(m.tail, Off(cs, k), cs[k])
    <3>1. \A k \in 1..2 : k = 1 \/ k = 2
      OBVIOUS
    <3> QED
      BY <3>1, <2>1, <2>2, <1>1, <1>2, <1>8, <1>9
  <2> QED
    BY <2>1, <2>2, <2>3, <2>4, <1>2, <1>10 DEF Layout
<1>12. cs \in Chunkings
  BY DEF Chunkings
<1> HIDE DEF cs
<1>13. /\ Plain(m.lines) /\ HeadOk(Split(m.lines), "status")
       /\ ModeOf(Split(m.lines)) = "chunked" /\ LengthOf(Split(m.lines)) = 0
  <2>1. /\ Status \in Tokens /\ Encoding \in Tokens /\ Length(1) \in Tokens
        /\ Status.t = "status" /\ Encoding.t = "encoding" /\ Length(1).t = "length"
        /\ Status.v = 200 /\ Encoding.v # None
    BY LineFacts DEF Encoding, Token, None
  <2>2. m.lines = <<Status, Encoding>> \/ m.lines = <<Status, Encoding, Length(1)>>
    <3>1. /\ <<Status, Encoding>> \o <<>> = <<Status, Encoding>>
          /\ <<Status, Encoding>> \o <<Length(1)>>
               = <<Status, Encoding, Length(1)>>
      <4> DEFINE x == Status
                 y == Encoding
                 z == Length(1)
      <4>1. x \in Tokens /\ y \in Tokens /\ z \in Tokens
        BY <2>1
      <4> HIDE DEF x, y, z
      <4>2. <<x, y>> \o <<>> = <<x, y>> /\ <<x, y>> \o <<z>> = <<x, y, z>>
        BY <4>1, Joins
      <4> QED
        BY <4>2 DEF x, y, z
    <3> QED
      BY <3>1, <1>2
  <2>3. /\ Short(m.lines) /\ Len(m.lines) >= 2
        /\ m.lines[1].t = "status" /\ m.lines[1].v = 200
        /\ m.lines[2].t = "encoding" /\ m.lines[2].v # None
        /\ Len(m.lines) = 3 => m.lines[3].t = "length"
    <3>1. CASE m.lines = <<Status, Encoding>>
      BY <3>1, <2>1 DEF Short
    <3>2. CASE m.lines = <<Status, Encoding, Length(1)>>
      BY <3>2, <2>1 DEF Short
    <3> QED
      BY <2>2, <3>1, <3>2
  <2>4. "encoding" \in HeaderNames /\ "length" \in HeaderNames
    BY DEF HeaderNames
  <2>5. Plain(m.lines) /\ HeadOk(Split(m.lines), "status")
    BY <2>3, <2>4, StatusHeads
  <2>6. ModeOf(Split(m.lines)) = "chunked" /\ LengthOf(Split(m.lines)) = 0
    BY <2>3, StatusHeads
  <2> QED
    BY <2>5, <2>6
<1>14. Answers(m)
  <2>1. ResponseOk(Split(m.lines))
    BY <1>13 DEF ResponseOk
  <2>2. Well(m)
    BY <1>2, <1>7, <1>13 DEF Well
  <2> QED
    BY <2>1, <2>2, <1>11, <1>12, <1>13 DEF Answers
<1> QED
  BY <1>14 DEF m

(* One in chunks, the second of which has no size.                         *)
LEMMA MischunkedResponse == Answers(Mischunked)
<1> DEFINE m == Mischunked
           a == <<Byte>>
           A == Chunk(a)
           J == <<Token("junk", 0), CR, LF>>
           t == A \o J
           cs == << <<Byte>> >>
<1>1. a \in Seq({Byte, CR, LF}) /\ a \in Seq(Tokens) /\ a # <<>> /\ Len(a) = 1
  BY BodyFacts
<1>2. /\ m.lines = <<Status, Encoding>> /\ m.tail = t
      /\ m.ends = Len(t) /\ m.is = "error" /\ m.payload = <<>>
  BY DEF Mischunked, Message
<1>3. /\ J \in Seq(Tokens) /\ Len(J) = 3
      /\ J[1] = Token("junk", 0) /\ J[2] = CR /\ J[3] = LF
  <2>1. Token("junk", 0) \in Tokens
    BY TokenFacts DEF Kinds
  <2> QED
    BY <2>1, LineFactsOf
<1>4. A \in Seq(Tokens) /\ Len(A) = 6
  <2> HIDE DEF a
  <2>1. A \in Seq(Tokens) /\ Len(A) = 5 + Len(a)
    BY <1>1, ChunkFacts
  <2> QED
    BY <2>1, <1>1
<1>10. cs = <<a>>
  OBVIOUS
<1> HIDE DEF A, J, a
<1>5. /\ t \in Seq(Tokens) /\ Len(t) = 9
      /\ \A i \in 1..6 : t[i] = A[i]
      /\ \A i \in 1..3 : t[6 + i] = J[i]
  <2>1. /\ t \in Seq(Tokens) /\ Len(t) = Len(A) + Len(J)
        /\ \A i \in 1..Len(A) : t[i] = A[i]
        /\ \A i \in 1..Len(J) : t[Len(A) + i] = J[i]
    BY <1>3, <1>4, Parts
  <2> HIDE DEF t
  <2> QED
    BY <2>1, <1>3, <1>4
<1> HIDE DEF t, m
<1>6. ChunkAt(t, 0, a)
  <2>1. \A j \in 1..(5 + Len(a)) : t[0 + j] = A[j]
    BY <1>1, <1>5
  <2>2. Len(t) \in Nat /\ Len(t) >= 0 + 5 + Len(a)
    BY <1>1, <1>5
  <2> QED
    BY <2>1, <2>2, <1>1, ChunkIn DEF A
<1>7. LineAt(t, 6, Token("junk", 0))
  <2>1. 1 \in 1..3 /\ 2 \in 1..3 /\ 3 \in 1..3
    OBVIOUS
  <2>2. t[6 + 1] = Token("junk", 0) /\ t[6 + 2] = CR /\ t[6 + 3] = LF
    BY <2>1, <1>3, <1>5
  <2> QED
    BY <2>2, <1>5 DEF LineAt
<1>8. Layout(m, cs) /\ cs \in Chunkings
  <2>0. cs \in Chunkings
    BY DEF Chunkings
  <2>1. Len(cs) = 1 /\ cs[1] = a /\ 1 + 1 = 2
    BY <1>10
  <2> HIDE DEF cs
  <2>2. Off(cs, 1) = 0 /\ Off(cs, 2) = 6
    BY <2>1, <1>1 DEF Off
  <2>3. m.ends = Off(cs, 2) + 3
    BY <2>2, <1>2, <1>5
  <2>4. \A k \in 1..1 : cs[k] \in Seq({Byte, CR, LF})
                        /\ ChunkAt(m.tail, Off(cs, k), cs[k])
    <3>1. \A k \in 1..1 : k = 1
      OBVIOUS
    <3> QED
      BY <3>1, <2>1, <2>2, <1>1, <1>2, <1>6
  <2> QED
    BY <2>0, <2>1, <2>2, <2>3, <2>4, <1>2, <1>7 DEF Layout
<1> HIDE DEF cs
<1>9. /\ Plain(m.lines) /\ HeadOk(Split(m.lines), "status")
      /\ ModeOf(Split(m.lines)) = "chunked" /\ LengthOf(Split(m.lines)) = 0
  <2>1. /\ Status \in Tokens /\ Encoding \in Tokens
        /\ Status.t = "status" /\ Encoding.t = "encoding"
        /\ Status.v = 200 /\ Encoding.v # None
    BY LineFacts DEF Encoding, Token, None
  <2>3. /\ Short(m.lines) /\ Len(m.lines) = 2
        /\ m.lines[1].t = "status" /\ m.lines[1].v = 200
        /\ m.lines[2].t = "encoding" /\ m.lines[2].v # None
    BY <2>1, <1>2 DEF Short
  <2>4. "encoding" \in HeaderNames
    BY DEF HeaderNames
  <2>5. Plain(m.lines) /\ HeadOk(Split(m.lines), "status")
    BY <2>3, <2>4, StatusHeads
  <2>6. ModeOf(Split(m.lines)) = "chunked" /\ LengthOf(Split(m.lines)) = 0
    BY <2>3, StatusHeads
  <2> QED
    BY <2>5, <2>6
<1>14. Answers(m)
  <2>1. ResponseOk(Split(m.lines))
    BY <1>9 DEF ResponseOk
  <2>2. Well(m)
    BY <1>2, <1>5, <1>9 DEF Well
  <2> QED
    BY <2>1, <2>2, <1>8, <1>9 DEF Answers
<1> QED
  BY <1>14 DEF m

(* What the parser makes of each message that a server writes.             *)
LEMMA ServerMessages ==
  ASSUME NEW m \in First("server") \cup Second("server")
  PROVE  Answers(m)
<1>1. \/ \E b \in Bodies : m = Sized(b) \/ m = ToClose(b)
      \/ \E a, b \in Bodies \ {<<>>}, hs \in {<<>>, <<Length(1)>>} :
           m = Chunked(a, b, hs)
      \/ m \in {Bodiless(100), Bodiless(204), Mischunked}
      \/ m \in {Refused(<<Token("junk", 0)>>), Refused(<<Status, Token("junk", 0)>>),
                Refused(<<Status, Length(NaN)>>)}
      \/ m = Sized(<<Byte>>)
  BY DEF First, Second, Responses
<1>2. CASE \E b \in Bodies : m = Sized(b) \/ m = ToClose(b)
  BY <1>2, PlainResponses, BodyFacts
<1>3. CASE m = Sized(<<Byte>>)
  BY <1>3, PlainResponses, BodyFacts
<1> QED
  BY <1>1, <1>2, <1>3, PlainResponses, ChunkedResponses, MischunkedResponse

-----------------------------------------------------------------------------
(* What the server's buffer holds.                                         *)

(* Where the first line ends in a buffer that begins with one.             *)
LEMMA FirstLine ==
  ASSUME NEW b \in Seq(Tokens), NEW x \in Tokens, x # CR,
         Len(b) >= 1 => b[1] = x,
         Len(b) >= 2 => b[2] = CR,
         Len(b) >= 3 => b[3] = LF
  PROVE  /\ EndOf(CRLF, b) = IF Len(b) >= 3 THEN 3 ELSE 0
         /\ Len(b) >= 3 => SubSeq(b, 1, 3 - 2) = <<x>>
<1>1. CRLF \in Seq(Tokens) /\ Len(CRLF) = 2 /\ CRLF[1] = CR /\ CRLF[2] = LF
  BY TokenFacts DEF CRLF
<1>2. Len(b) \in Nat
  OBVIOUS
<1>3. Ends(CRLF, b) = {i \in 2..Len(b) : b[i - 1] = CR /\ b[i] = LF}
  <2>1. \A i \in 2..Len(b) : (i - 2) + 1 = i - 1 /\ (i - 2) + 2 = i
    BY <1>2
  <2>2. 1..2 = {1, 2}
    OBVIOUS
  <2> QED
    BY <1>1, <2>1, <2>2 DEF Ends
<1>4. \A i \in Ends(CRLF, b) : i \in Int /\ 3 <= i /\ Len(b) >= 3
  <2> SUFFICES ASSUME NEW i \in Ends(CRLF, b)
               PROVE  i \in Int /\ 3 <= i /\ Len(b) >= 3
    OBVIOUS
  <2>1. i \in 2..Len(b) /\ b[i - 1] = CR
    BY <1>3
  <2>2. i # 2
    BY <2>1, <1>2
  <2> QED
    BY <2>1, <2>2, <1>2
<1>5. CASE Len(b) >= 3
  <2>1. 3 \in Ends(CRLF, b)
    BY <1>2, <1>3, <1>5
  <2>2. EndOf(CRLF, b) = 3
    BY <2>1, <1>1, <1>4, FirstEnd
  <2>3. SubSeq(b, 1, 1) = <<b[1]>>
    <3> DEFINE u == SubSeq(b, 1, 1)
    <3>1. u \in Seq(Tokens) /\ Len(u) = 1 /\ u[1] = b[1]
      <4>1. 1 \in 1..(Len(b) + 1) /\ 1 \in (1 - 1)..Len(b) /\ (1 - 1) + 1 = 1
            /\ 1 \in 1..1 /\ (1 + 1) - 1 = 1
        BY <1>2, <1>5
      <4>2. /\ u \in Seq(Tokens) /\ Len(u) = (1 - 1) + 1
            /\ \A i \in 1..((1 - 1) + 1) : u[i] = b[(1 + i) - 1]
        BY <4>1, SubFacts
      <4> HIDE DEF u
      <4> QED
        BY <4>1, <4>2
    <3> HIDE DEF u
    <3>2. u = <<u[1]>>
      BY <3>1, Single
    <3> QED
      BY <3>1, <3>2 DEF u
  <2> QED
    BY <2>2, <2>3, <1>2, <1>5
<1>6. CASE ~(Len(b) >= 3)
  <2>1. Ends(CRLF, b) = {}
    BY <1>4, <1>6
  <2> QED
    BY <2>1, <1>6 DEF EndOf
<1> QED
  BY <1>5, <1>6

(* And in one that begins with the end of a line.                          *)
LEMMA FirstBlank ==
  ASSUME NEW b \in Seq(Tokens),
         Len(b) >= 1 => b[1] = CR,
         Len(b) >= 2 => b[2] = LF
  PROVE  /\ EndOf(CRLF, b) = IF Len(b) >= 2 THEN 2 ELSE 0
         /\ SubSeq(b, 1, 2 - 2) = <<>>
<1>1. CRLF \in Seq(Tokens) /\ Len(CRLF) = 2 /\ CRLF[1] = CR /\ CRLF[2] = LF
  BY TokenFacts DEF CRLF
<1>2. Len(b) \in Nat
  OBVIOUS
<1>3. Ends(CRLF, b) = {i \in 2..Len(b) : b[i - 1] = CR /\ b[i] = LF}
  <2>1. \A i \in 2..Len(b) : (i - 2) + 1 = i - 1 /\ (i - 2) + 2 = i
    BY <1>2
  <2>2. 1..2 = {1, 2}
    OBVIOUS
  <2> QED
    BY <1>1, <2>1, <2>2 DEF Ends
<1>4. \A i \in Ends(CRLF, b) : i \in Int /\ 2 <= i /\ Len(b) >= 2
  BY <1>2, <1>3
<1>5. CASE Len(b) >= 2
  <2>1. 2 \in Ends(CRLF, b)
    BY <1>2, <1>3, <1>5
  <2> QED
    BY <2>1, <1>1, <1>4, <1>5, FirstEnd
<1>6. CASE ~(Len(b) >= 2)
  <2>1. Ends(CRLF, b) = {}
    BY <1>4, <1>6
  <2> QED
    BY <2>1, <1>6 DEF EndOf
<1>7. SubSeq(b, 1, 2 - 2) = <<>>
  <2> DEFINE u == SubSeq(b, 1, 0)
  <2>1. u \in Seq(Tokens) /\ Len(u) = 0
    <3>1. 1 \in 1..(Len(b) + 1) /\ 0 \in (1 - 1)..Len(b) /\ (0 - 1) + 1 = 0
      BY <1>2
    <3> QED
      BY <3>1, SubFacts
  <2> HIDE DEF u
  <2>2. u = <<>>
    BY <2>1
  <2> QED
    BY <2>2 DEF u
<1> QED
  BY <1>5, <1>6, <1>7

(* What a state of the server's half gives while its host is told nothing. *)
LEMMA ServerState ==
  ASSUME Sent, SInv, side = "server", answer = <<>>
  PROVE  LET at == ServerAt
             hl == HeadLen(Writing)
         IN /\ Answers(Writing) /\ Stream \in Seq(Tokens)
            /\ Len(Stream) \in Nat /\ pos \in 0..Len(Stream)
            /\ at \in 0..pos /\ buf = SubSeq(Stream, at + 1, pos)
            /\ buf \in Seq(Tokens) /\ Len(buf) = pos - at /\ Len(buf) \in Nat
            /\ \A i \in 1..Len(buf) : buf[i] = Stream[at + i]
            /\ hl = (3 * Len(Writing.lines)) + 2 /\ hl \in Nat /\ hl > 0
            /\ Len(Writing.tail) \in Nat
            /\ \A j \in 1..hl : Stream[j] = HeadOf(Writing.lines)[j]
            /\ \A j \in 1..Len(Writing.tail) :
                 Stream[hl + j] = Writing.tail[j]
<1> DEFINE at == ServerAt
           hl == HeadLen(Writing)
<1>1. Answers(sending[1]) /\ Answers(sending[2]) /\ Writing = sending[1]
  <2>1. sending[1] \in First("server") /\ sending[2] \in Second("server")
    BY DEF Sent
  <2> QED
    BY <2>1, ServerMessages DEF Writing
<1>2. Well(sending[1]) /\ Well(sending[2])
  BY <1>1 DEF Answers
<1>3. /\ Stream \in Seq(Tokens) /\ Begin(1) = 0
      /\ \A j \in 1..hl : Stream[Begin(1) + j] = HeadOf(Writing.lines)[j]
      /\ \A j \in 1..Len(Writing.tail) :
           Stream[Begin(1) + hl + j] = Writing.tail[j]
  <2>1. 1 \in 1..2
    OBVIOUS
  <2> QED
    BY <2>1, <1>1, <1>2, StreamFacts
<1>4. hl = (3 * Len(Writing.lines)) + 2 /\ hl \in Nat /\ Len(Writing.tail) \in Nat
      /\ Len(Writing.lines) \in Nat
  <2>1. Well(Writing)
    BY <1>1, <1>2
  <2>2. hl = (3 * Len(Writing.lines)) + 2 /\ hl \in Nat /\ Len(Writing.tail) \in Nat
    BY <2>1, WiredFacts
  <2>3. Writing.lines \in Seq(Tokens)
    BY <2>1 DEF Well, Plain
  <2> QED
    BY <2>2, <2>3
<1>5. /\ pos \in 0..Len(Stream) /\ at \in 0..pos
      /\ buf = SubSeq(Stream, at + 1, pos)
  BY DEF Sent, SInv, Reading, Buffered
<1>6. /\ buf \in Seq(Tokens) /\ Len(buf) = pos - at
      /\ \A i \in 1..(pos - at) : buf[i] = Stream[at + i]
  BY <1>3, <1>5, Rest
<1>7. Len(Stream) \in Nat /\ Len(buf) \in Nat
  BY <1>3, <1>6
<1> HIDE DEF at, hl
<1>8. \A j \in 1..hl : Stream[j] = HeadOf(Writing.lines)[j]
  <2> TAKE j \in 1..hl
  <2>1. Begin(1) + j = j
    BY <1>3
  <2> QED
    BY <2>1, <1>3
<1>9. \A j \in 1..Len(Writing.tail) : Stream[hl + j] = Writing.tail[j]
  <2>1. Begin(1) + hl = hl
    BY <1>3, <1>4
  <2> QED
    BY <2>1, <1>3
<1> QED
  BY <1>1, <1>3, <1>4, <1>5, <1>6, <1>7, <1>8, <1>9 DEF at, hl

(* Where the head ends in the buffer, before it has been taken.            *)
LEMMA ServerHead ==
  ASSUME Sent, SInv, side = "server", answer = <<>>, head = <<>>
  PROVE  /\ Unread /\ ServerAt = 0 /\ Len(buf) = pos
         /\ EndOfHead(buf) = IF Len(buf) >= HeadLen(Writing)
                               THEN HeadLen(Writing) ELSE 0
         /\ EndOfHead(buf) # 0 => HeadLines = Split(Writing.lines)
<1> DEFINE lines == Writing.lines
           n == Len(lines)
<1>0. Unread /\ ServerAt = 0
  BY DEF SInv, Reading
<1>1. Plain(lines) /\ HeadLen(Writing) = (3 * n) + 2 /\ n \in Nat
  BY ServerState DEF Answers, Well, Plain
<1>2. /\ buf \in Seq(Tokens) /\ Len(buf) \in Nat /\ Len(buf) = pos
      /\ \A i \in 1..Len(buf) : buf[i] = Stream[i]
  <2>1. /\ buf \in Seq(Tokens) /\ Len(buf) \in Nat /\ Len(buf) = pos - 0
        /\ \A i \in 1..Len(buf) : buf[i] = Stream[0 + i]
        /\ pos \in Nat
    BY <1>0, ServerState
  <2> QED
    BY <2>1
<1>3. \A i \in 1..HeadLen(Writing) : Stream[i] = HeadOf(lines)[i]
  BY ServerState
<1> HIDE DEF lines, n
<1>4. ASSUME NEW i \in 1..Len(buf), i <= (3 * n) + 2
      PROVE  buf[i] = HeadOf(lines)[i]
  <2>1. i \in 1..HeadLen(Writing)
    BY <1>1, <1>4
  <2> QED
    BY <2>1, <1>2, <1>3
<1>5. EndOfHead(buf) = IF Len(buf) >= (3 * n) + 2 THEN (3 * n) + 2 ELSE 0
  BY <1>1, <1>2, <1>4, HeadEnds DEF n
<1>6. ASSUME EndOfHead(buf) # 0
      PROVE  HeadLines = Split(lines)
  <2>1. Len(buf) >= (3 * n) + 2 /\ EndOfHead(buf) = (3 * n) + 2
    BY <1>5, <1>6
  <2>2. Lines(SubSeq(buf, 1, 3 * n)) = Split(lines)
    BY <2>1, <1>1, <1>2, <1>4, LinesOf DEF n
  <2>3. EndOfHead(buf) - 2 = 3 * n
    BY <2>1, <1>1
  <2> QED
    BY <2>2, <2>3 DEF HeadLines
<1> QED
  BY <1>0, <1>1, <1>2, <1>5, <1>6 DEF lines

(* What is in the buffer past the head, of a body whose first c tokens     *)
(* have been taken.                                                        *)
LEMMA BufferedTail ==
  ASSUME Sent, SInv, side = "server", answer = <<>>, NEW c \in Nat,
         ServerAt = HeadLen(Writing) + c, NEW i \in 1..Len(buf),
         c + i <= Len(Writing.tail)
  PROVE  buf[i] = Writing.tail[c + i]
<1> DEFINE hl == HeadLen(Writing)
<1>1. /\ buf[i] = Stream[ServerAt + i] /\ hl \in Nat /\ i \in Nat /\ i >= 1
      /\ Len(Writing.tail) \in Nat
      /\ \A j \in 1..Len(Writing.tail) : Stream[hl + j] = Writing.tail[j]
  BY ServerState
<1>2. ServerAt + i = hl + (c + i) /\ c + i \in 1..Len(Writing.tail)
  BY <1>1
<1> QED
  BY <1>1, <1>2

(* To take from the buffer moves the place of what is left.                *)
LEMMA ServerConsumes ==
  ASSUME Sent, SInv, side = "server", answer = <<>>, NEW n \in 0..Len(buf),
         buf' = After(buf, n), UNCHANGED <<pos, Stream>>
  PROVE  Buffered(ServerAt)' /\ ServerAt' = ServerAt + n
         /\ Len(buf') = Len(buf) - n
<1>1. /\ Stream \in Seq(Tokens) /\ pos \in 0..Len(Stream)
      /\ ServerAt \in 0..pos /\ Len(buf) = pos - ServerAt
      /\ buf = SubSeq(Stream, ServerAt + 1, pos) /\ Len(buf) \in Nat
      /\ Len(Stream) \in Nat
  BY ServerState
<1>2. n \in 0..(pos - ServerAt) /\ ServerAt + n \in 0..pos
  BY <1>1
<1>3. After(SubSeq(Stream, ServerAt + 1, pos), n) =
        SubSeq(Stream, (ServerAt + n) + 1, pos)
  BY <1>1, <1>2, Consume
<1>4. buf' = SubSeq(Stream, (ServerAt + n) + 1, pos)
  BY <1>1, <1>3
<1>5. Len(buf') = pos - (ServerAt + n)
  BY <1>1, <1>2, <1>4, Rest
<1>6. ServerAt' = ServerAt + n
  <2>1. ServerAt' = pos - Len(buf')
    BY DEF ServerAt
  <2> QED
    BY <2>1, <1>1, <1>2, <1>5
<1> QED
  BY <1>1, <1>2, <1>4, <1>5, <1>6 DEF Buffered

(* Where the chunks of a body are, and what they join up to.               *)
LEMMA OffFacts ==
  ASSUME NEW m, NEW cs, Layout(m, cs)
  PROVE  LET n == Len(cs) IN
         /\ n \in 1..2 /\ m.ends = Off(cs, n + 1) + 3 /\ m.ends \in Nat
         /\ Len(m.tail) >= m.ends
         /\ \A k \in 1..(n + 1) : Off(cs, k) \in Nat /\ Off(cs, k) <= Off(cs, n + 1)
         /\ \A k \in 1..n :
              /\ cs[k] \in Seq(Tokens) /\ Len(cs[k]) \in Nat /\ Len(cs[k]) > 0
              /\ ChunkAt(m.tail, Off(cs, k), cs[k])
              /\ Off(cs, k + 1) = Off(cs, k) + 5 + Len(cs[k])
              /\ Joined(cs, k - 1) \in Seq(Tokens)
              /\ Joined(cs, k) = Joined(cs, k - 1) \o cs[k]
<1> DEFINE n == Len(cs)
<1>1. /\ n \in 1..2 /\ m.ends = Off(cs, n + 1) + 3
      /\ \A k \in 1..n : /\ cs[k] \in Seq({Byte, CR, LF})
                         /\ ChunkAt(m.tail, Off(cs, k), cs[k])
      /\ \E x : LineAt(m.tail, Off(cs, n + 1), x)
  BY DEF Layout
<1>2. Len(m.tail) >= m.ends
  BY <1>1 DEF LineAt
<1>3. ASSUME NEW k \in 1..n
      PROVE  cs[k] \in Seq(Tokens) /\ Len(cs[k]) \in Nat /\ Len(cs[k]) > 0
  <2>1. {Byte, CR, LF} \subseteq Tokens
    BY TokenFacts
  <2>2. cs[k] \in Seq(Tokens)
    BY <1>1, <2>1, SeqMonotonic
  <2>3. cs[k] # <<>>
    BY <1>1 DEF ChunkAt
  <2> QED
    BY <2>2, <2>3
<1> HIDE DEF n
<1>4. /\ Off(cs, 1) = 0 /\ Off(cs, 2) = 5 + Len(cs[1])
      /\ Off(cs, 3) = 10 + Len(cs[1]) + Len(cs[2])
      /\ Joined(cs, 0) = <<>> /\ Joined(cs, 1) = cs[1]
      /\ Joined(cs, 2) = cs[1] \o cs[2]
  BY DEF Off, Joined
<1>5. <<>> \in Seq(Tokens) /\ \A s \in Seq(Tokens) : <<>> \o s = s
  BY ConcatEmptySeq
<1>6. CASE n = 1
  <2>1. 1 \in 1..n /\ (\A k \in 1..n : k = 1) /\ (\A k \in 1..(n + 1) : k = 1 \/ k = 2)
    BY <1>6
  <2>2. /\ cs[1] \in Seq(Tokens) /\ Len(cs[1]) \in Nat
    BY <2>1, <1>3
  <2>3. \A k \in 1..(n + 1) : Off(cs, k) \in Nat /\ Off(cs, k) <= Off(cs, n + 1)
    BY <2>1, <2>2, <1>4, <1>6
  <2>4. ASSUME NEW k \in 1..n
        PROVE  /\ Off(cs, k + 1) = Off(cs, k) + 5 + Len(cs[k])
               /\ Joined(cs, k - 1) \in Seq(Tokens)
               /\ Joined(cs, k) = Joined(cs, k - 1) \o cs[k]
    <3>1. k = 1 /\ k + 1 = 2 /\ k - 1 = 0
      BY <2>1
    <3>2. Off(cs, k + 1) = Off(cs, k) + 5 + Len(cs[k])
      BY <3>1, <2>2, <1>4
    <3> QED
      BY <3>1, <3>2, <2>2, <1>4, <1>5
  <2>5. m.ends \in Nat
    <3>1. n + 1 \in 1..(n + 1)
      BY <1>6
    <3>2. Off(cs, n + 1) \in Nat
      BY <3>1, <2>3
    <3> QED
      BY <3>2, <1>1 DEF n
  <2> QED
    BY <2>3, <2>4, <2>5, <1>1, <1>2, <1>3 DEF n
<1>7. CASE n = 2
  <2>1. 1 \in 1..n /\ 2 \in 1..n /\ (\A k \in 1..n : k = 1 \/ k = 2)
        /\ (\A k \in 1..(n + 1) : k = 1 \/ k = 2 \/ k = 3)
    BY <1>7
  <2>2. /\ cs[1] \in Seq(Tokens) /\ Len(cs[1]) \in Nat
        /\ cs[2] \in Seq(Tokens) /\ Len(cs[2]) \in Nat
    BY <2>1, <1>3
  <2>3. \A k \in 1..(n + 1) : Off(cs, k) \in Nat /\ Off(cs, k) <= Off(cs, n + 1)
    <3> DEFINE p == Len(cs[1])
               q == Len(cs[2])
    <3>1. /\ p \in Nat /\ q \in Nat /\ Off(cs, 1) = 0 /\ Off(cs, 2) = 5 + p
          /\ Off(cs, 3) = 10 + p + q
      BY <2>2, <1>4
    <3> HIDE DEF p, q
    <3>2. /\ Off(cs, 1) \in Nat /\ Off(cs, 2) \in Nat /\ Off(cs, 3) \in Nat
          /\ Off(cs, 1) <= Off(cs, 3) /\ Off(cs, 2) <= Off(cs, 3)
      BY <3>1
    <3>3. n + 1 = 3
      BY <1>7
    <3> QED
      BY <3>2, <3>3, <2>1
  <2>4. ASSUME NEW k \in 1..n
        PROVE  /\ Off(cs, k + 1) = Off(cs, k) + 5 + Len(cs[k])
               /\ Joined(cs, k - 1) \in Seq(Tokens)
               /\ Joined(cs, k) = Joined(cs, k - 1) \o cs[k]
    <3>1. CASE k = 1
      <4>1. k + 1 = 2 /\ k - 1 = 0
        BY <3>1
      <4>2. Off(cs, k + 1) = Off(cs, k) + 5 + Len(cs[k])
        BY <3>1, <4>1, <2>2, <1>4
      <4> QED
        BY <3>1, <4>1, <4>2, <2>2, <1>4, <1>5
    <3>2. CASE k = 2
      <4>1. k + 1 = 3 /\ k - 1 = 1
        BY <3>2
      <4>2. Off(cs, k + 1) = Off(cs, k) + 5 + Len(cs[k])
        <5> DEFINE p == Len(cs[1])
                   q == Len(cs[2])
        <5>1. /\ p \in Nat /\ q \in Nat /\ Off(cs, 2) = 5 + p
              /\ Off(cs, 3) = 10 + p + q
          BY <2>2, <1>4
        <5> HIDE DEF p, q
        <5>2. Off(cs, 3) = Off(cs, 2) + 5 + q
          BY <5>1
        <5> QED
          BY <5>2, <3>2, <4>1 DEF q
      <4> QED
        BY <3>2, <4>1, <4>2, <2>2, <1>4
    <3> QED
      BY <2>1, <3>1, <3>2
  <2>5. m.ends \in Nat
    <3>1. n + 1 \in 1..(n + 1)
      BY <1>7
    <3>2. Off(cs, n + 1) \in Nat
      BY <3>1, <2>3
    <3> QED
      BY <3>2, <1>1 DEF n
  <2> QED
    BY <2>3, <2>4, <2>5, <1>1, <1>2, <1>3 DEF n
<1>8. n = 1 \/ n = 2
  BY <1>1 DEF n
<1> QED
  BY <1>6, <1>7, <1>8

(* The line that is due before chunk k, or after the last.                 *)
SizeLine(cs, k, m, x) ==
  /\ x \in Tokens /\ x # CR /\ LineAt(m.tail, Off(cs, k), x)
  /\ k <= Len(cs) => x = Token("size", Len(cs[k]))
  /\ k = Len(cs) + 1 =>
       \/ /\ m.is = "response" /\ m.payload = Joined(cs, Len(cs))
          /\ x = Token("size", 0)
       \/ m.is = "error" /\ m.payload = <<>> /\ x = Token("junk", 0)

(* There is one line for each place where a size is due.                   *)
LEMMA SizeLines ==
  ASSUME NEW m, NEW cs, Layout(m, cs), NEW k \in 1..(Len(cs) + 1)
  PROVE  \E x : SizeLine(cs, k, m, x)
<1>1. /\ \A i \in Int : Token("size", i) \in Tokens /\ Token("size", i) # CR
      /\ Token("junk", 0) \in Tokens /\ Token("junk", 0) # CR
  BY TokenFacts DEF Kinds
<1>2. CASE k \in 1..Len(cs)
  <2>1. LineAt(m.tail, Off(cs, k), Token("size", Len(cs[k])))
        /\ Len(cs[k]) \in Int /\ Len(cs) \in Nat
    <3>1. /\ ChunkAt(m.tail, Off(cs, k), cs[k]) /\ Len(cs[k]) \in Nat
          /\ Len(cs) \in 1..2
      BY <1>2, OffFacts
    <3> QED
      BY <3>1 DEF ChunkAt
  <2>2. k <= Len(cs) /\ k # Len(cs) + 1
    BY <1>2, <2>1
  <2>3. SizeLine(cs, k, m, Token("size", Len(cs[k])))
    BY <1>1, <2>1, <2>2 DEF SizeLine
  <2> QED
    BY <2>3
<1>3. CASE k = Len(cs) + 1
  <2>1. ~(k <= Len(cs))
    <3>1. Len(cs) \in 1..2
      BY DEF Layout
    <3> QED
      BY <3>1, <1>3
  <2>2. \/ /\ m.is = "response" /\ m.payload = Joined(cs, Len(cs))
           /\ LineAt(m.tail, Off(cs, k), Token("size", 0))
        \/ /\ m.is = "error" /\ m.payload = <<>>
           /\ LineAt(m.tail, Off(cs, k), Token("junk", 0))
    BY <1>3 DEF Layout
  <2>3. SizeLine(cs, k, m, Token("size", 0)) \/ SizeLine(cs, k, m, Token("junk", 0))
    BY <1>1, <2>1, <2>2 DEF SizeLine
  <2> QED
    BY <2>3
<1>4. Len(cs) \in 1..2
  BY DEF Layout
<1> QED
  BY <1>2, <1>3, <1>4

(* Where a size is due, the first line in the buffer is it.                *)
LEMMA SizeIsDue ==
  ASSUME Sent, SInv, side = "server", answer = <<>>,
         NEW cs, Layout(Writing, cs), NEW k \in 1..(Len(cs) + 1),
         SizeDue(cs, k, ServerAt), NEW x, SizeLine(cs, k, Writing, x)
  PROVE  /\ EndOf(CRLF, buf) = IF Len(buf) >= 3 THEN 3 ELSE 0
         /\ EndOf(CRLF, buf) # 0 => LineText = <<x>>
<1> DEFINE c == Off(cs, k)
<1>1. /\ c \in Nat /\ ServerAt = HeadLen(Writing) + c
      /\ x \in Tokens /\ x # CR
      /\ Len(Writing.tail) >= c + 3 /\ Writing.tail[c + 1] = x
      /\ Writing.tail[c + 2] = CR /\ Writing.tail[c + 3] = LF
  BY OffFacts DEF SizeDue, SizeLine, LineAt
<1>2. buf \in Seq(Tokens) /\ Len(buf) \in Nat /\ Len(Writing.tail) \in Nat
  BY ServerState
<1> HIDE DEF c
<1>3. /\ Len(buf) >= 1 => buf[1] = x
      /\ Len(buf) >= 2 => buf[2] = CR
      /\ Len(buf) >= 3 => buf[3] = LF
  <2>1. \A i \in {1, 2, 3} : c + i <= Len(Writing.tail)
    BY <1>1, <1>2
  <2>2. \A i \in {1, 2, 3} : Len(buf) >= i => i \in 1..Len(buf)
    BY <1>2
  <2>3. \A i \in {1, 2, 3} : Len(buf) >= i => buf[i] = Writing.tail[c + i]
    BY <2>1, <2>2, <1>1, BufferedTail
  <2> QED
    BY <2>3, <1>1
<1>4. /\ EndOf(CRLF, buf) = IF Len(buf) >= 3 THEN 3 ELSE 0
      /\ Len(buf) >= 3 => SubSeq(buf, 1, 3 - 2) = <<x>>
  BY <1>1, <1>2, <1>3, FirstLine
<1> QED
  BY <1>4, <1>2 DEF LineText

(* Behind the bytes of a chunk, it is blank.                               *)
LEMMA BlankIsDue ==
  ASSUME Sent, SInv, side = "server", answer = <<>>,
         NEW cs, Layout(Writing, cs), NEW k \in 1..Len(cs),
         InChunk(cs, k, Len(cs[k]), ServerAt)
  PROVE  /\ EndOf(CRLF, buf) = IF Len(buf) >= 2 THEN 2 ELSE 0
         /\ EndOf(CRLF, buf) # 0 => LineText = <<>>
<1> DEFINE c == Off(cs, k) + 3 + Len(cs[k])
<1>0. /\ Off(cs, k) \in Nat /\ Len(cs[k]) \in Nat
      /\ ChunkAt(Writing.tail, Off(cs, k), cs[k])
  <2>1. k \in 1..(Len(cs) + 1)
    BY DEF Layout
  <2> QED
    BY <2>1, OffFacts
<1>1. /\ c \in Nat /\ ServerAt = HeadLen(Writing) + c
      /\ Len(Writing.tail) >= c + 2
      /\ Writing.tail[c + 1] = CR /\ Writing.tail[c + 2] = LF
  <2>1. c + 1 = Off(cs, k) + 4 + Len(cs[k]) /\ c + 2 = Off(cs, k) + 5 + Len(cs[k])
        /\ c \in Nat
    BY <1>0
  <2>2. HeadLen(Writing) \in Nat
    BY ServerState
  <2>3. ServerAt = HeadLen(Writing) + c
    <3>1. ServerAt = HeadLen(Writing) + Off(cs, k) + 3 + Len(cs[k])
      BY DEF InChunk
    <3> QED
      BY <3>1, <1>0, <2>2
  <2> QED
    BY <1>0, <2>1, <2>3 DEF ChunkAt
<1>2. buf \in Seq(Tokens) /\ Len(buf) \in Nat /\ Len(Writing.tail) \in Nat
  BY ServerState
<1> HIDE DEF c
<1>3. /\ Len(buf) >= 1 => buf[1] = CR
      /\ Len(buf) >= 2 => buf[2] = LF
  <2>1. \A i \in {1, 2} : c + i <= Len(Writing.tail)
    BY <1>1, <1>2
  <2>2. \A i \in {1, 2} : Len(buf) >= i => i \in 1..Len(buf)
    BY <1>2
  <2>3. \A i \in {1, 2} : Len(buf) >= i => buf[i] = Writing.tail[c + i]
    BY <2>1, <2>2, <1>1, BufferedTail
  <2> QED
    BY <2>3, <1>1
<1>4. /\ EndOf(CRLF, buf) = IF Len(buf) >= 2 THEN 2 ELSE 0
      /\ SubSeq(buf, 1, 2 - 2) = <<>>
  BY <1>2, <1>3, FirstBlank
<1> QED
  BY <1>4, <1>2 DEF LineText

(* How far a response goes.                                                *)
LEMMA EndsFacts ==
  ASSUME NEW m, Answers(m)
  PROVE  m.ends \in Nat \/ m.ends = None
<1>1. CASE \E cs \in Chunkings : Layout(m, cs)
  BY <1>1, OffFacts
<1>2. CASE ModeOf(Split(m.lines)) = "length" /\ m.tail = m.payload
           /\ m.ends = Len(m.payload)
  <2>1. m.payload \in Seq(Tokens)
    BY <1>2 DEF Answers, Well
  <2> QED
    BY <2>1, <1>2
<1> QED
  BY <1>1, <1>2 DEF Answers

(* Between two calls a chunked response is not all in, if its host has not *)
(* been told.                                                              *)
LEMMA ChunksShort ==
  ASSUME Sent, SInv, side = "server", answer = <<>>, InChunks(ServerAt),
         buf = <<>> \/ (needed = 0 /\ EndOf(CRLF, buf) = 0)
  PROVE  Writing.ends \in Nat /\ pos < HeadLen(Writing) + Writing.ends
<1>1. PICK cs \in Chunkings :
        /\ Layout(Writing, cs)
        /\ \/ \E k \in 1..(Len(cs) + 1) : SizeDue(cs, k, ServerAt)
           \/ \E k \in 1..Len(cs) :
                \E j \in 0..Len(cs[k]) : InChunk(cs, k, j, ServerAt)
  BY DEF InChunks
<1> DEFINE n == Len(cs)
           hl == HeadLen(Writing)
<1>2. /\ n \in 1..2 /\ Writing.ends = Off(cs, n + 1) + 3 /\ Writing.ends \in Nat
      /\ \A k \in 1..(n + 1) : Off(cs, k) \in Nat /\ Off(cs, k) <= Off(cs, n + 1)
      /\ \A k \in 1..n : /\ Len(cs[k]) \in Nat /\ Len(cs[k]) > 0
                         /\ Off(cs, k + 1) = Off(cs, k) + 5 + Len(cs[k])
  BY <1>1, OffFacts
<1>3. /\ hl \in Nat /\ pos \in Nat /\ Len(buf) \in Nat
      /\ Len(buf) = pos - ServerAt /\ ServerAt \in Nat
      /\ (buf = <<>> => Len(buf) = 0)
  BY ServerState
<1>a. n + 1 \in 1..(n + 1)
  BY <1>2
<1>b. Off(cs, n + 1) \in Nat
  BY <1>2, <1>a
<1> HIDE DEF hl
<1>4. ASSUME NEW k \in 1..(n + 1), SizeDue(cs, k, ServerAt)
      PROVE  pos < hl + Writing.ends
  <2>1. ServerAt = hl + Off(cs, k)
    BY <1>4 DEF SizeDue, hl
  <2>2. PICK x : SizeLine(cs, k, Writing, x)
    BY <1>1, SizeLines
  <2>3. EndOf(CRLF, buf) = IF Len(buf) >= 3 THEN 3 ELSE 0
    BY <1>1, <1>4, <2>2, SizeIsDue
  <2>4. Len(buf) < 3
    BY <2>3, <1>3
  <2>5. Off(cs, k) \in Nat /\ Off(cs, k) <= Off(cs, n + 1)
    BY <1>2
  <2> HIDE DEF n
  <2> QED
    BY <2>1, <2>4, <2>5, <1>2, <1>3, <1>b
<1>5. ASSUME NEW k \in 1..n, NEW j \in 0..Len(cs[k]),
             InChunk(cs, k, j, ServerAt)
      PROVE  pos < hl + Writing.ends
  <2>1. ServerAt = hl + Off(cs, k) + 3 + j /\ needed = Len(cs[k]) - j
    BY <1>5 DEF InChunk, hl
  <2>2. /\ k \in 1..(n + 1) /\ k + 1 \in 1..(n + 1)
        /\ Len(cs[k]) \in Nat /\ j \in Nat /\ j <= Len(cs[k])
    BY <1>2
  <2>3. /\ Off(cs, k) \in Nat /\ Off(cs, k + 1) <= Off(cs, n + 1)
        /\ Off(cs, k + 1) = Off(cs, k) + 5 + Len(cs[k])
    BY <2>2, <1>2
  <2>4. Len(buf) = 0 \/ (j = Len(cs[k]) /\ Len(buf) < 2)
    <3>1. CASE buf = <<>>
      BY <3>1, <1>3
    <3>2. CASE needed = 0 /\ EndOf(CRLF, buf) = 0
      <4>1. j = Len(cs[k])
        BY <3>2, <2>1, <2>2
      <4>2. EndOf(CRLF, buf) = IF Len(buf) >= 2 THEN 2 ELSE 0
        BY <4>1, <1>1, <1>5, BlankIsDue
      <4> QED
        BY <4>1, <4>2, <3>2, <1>3
    <3> QED
      BY <3>1, <3>2
  <2> DEFINE l == Len(cs[k])
             o == Off(cs, k)
             e == Off(cs, n + 1)
  <2>5. /\ pos = (hl + o + 3 + j) + Len(buf) /\ o + 5 + l <= e
        /\ l \in Nat /\ o \in Nat /\ e \in Nat /\ j \in Nat /\ j <= l
        /\ Writing.ends = e + 3 /\ (Len(buf) = 0 \/ (j = l /\ Len(buf) < 2))
    <3>1. o + 5 + l <= e
      BY <2>3
    <3>2. Writing.ends = e + 3
      BY <1>2
    <3>3. l \in Nat /\ o \in Nat /\ e \in Nat /\ j \in Nat /\ j <= l
      BY <2>2, <2>3, <1>b
    <3>4. Len(buf) = 0 \/ (j = l /\ Len(buf) < 2)
      BY <2>4
    <3>5. ServerAt = hl + o + 3 + j
      BY <2>1
    <3> HIDE DEF l, o, e
    <3>6. pos = (hl + o + 3 + j) + Len(buf)
      BY <3>3, <3>5, <1>3
    <3> QED
      BY <3>1, <3>2, <3>3, <3>4, <3>6
  <2> HIDE DEF l, o, e
  <2> QED
    BY <2>5, <1>3
<1> QED
  BY <1>1, <1>2, <1>4, <1>5 DEF hl

(* Between two calls, if the host has not been told, the response is not   *)
(* all in, and to close now is to end it only if it ends that way.         *)
LEMMA ServerShort ==
  ASSUME Sent, SInv, side = "server", answer = <<>>, pc = "out"
  PROVE  LET hl == HeadLen(Writing) IN
         /\ Writing.ends # None =>
              Writing.ends \in Nat /\ pos < hl + Writing.ends /\ ~Finishes
         /\ Writing.ends = None =>
              IF pos >= hl
                THEN Finishes /\ body = SubSeq(Stream, hl + 1, pos)
                ELSE ~Finishes
<1> DEFINE hl == HeadLen(Writing)
<1>1. /\ hl \in Nat /\ pos \in Nat /\ Len(buf) \in Nat
      /\ Len(buf) = pos - ServerAt /\ ServerAt \in Nat
      /\ (buf = <<>> => Len(buf) = 0)
      /\ Answers(Writing)
  BY ServerState
<1>2. Writing.ends \in Nat \/ Writing.ends = None
  BY <1>1, EndsFacts
<1>3. None \notin Nat
  BY DEF None
<1>4. /\ mode = "none" => EndOfHead(buf) = 0
      /\ mode = "length" => buf = <<>> /\ Len(body) < needed
      /\ mode = "chunked" => \/ buf = <<>>
                             \/ needed = 0 /\ EndOf(CRLF, buf) = 0
      /\ mode = "close" => buf = <<>>
  BY DEF SInv, Reading, ServerWaits
<1>5. \/ Unread /\ ServerAt = 0
      \/ head # <<>> /\ InSized /\ ServerAt = HeadLen(Writing) + Len(body)
      \/ head # <<>> /\ InClose /\ ServerAt = HeadLen(Writing) + Len(body)
      \/ head # <<>> /\ InChunks(ServerAt)
  BY DEF SInv, Reading
<1>6. CASE Unread /\ ServerAt = 0
  <2>1. head = <<>> /\ mode = "none"
    BY <1>6 DEF Unread
  <2>2. EndOfHead(buf) = IF Len(buf) >= hl THEN hl ELSE 0
    BY <2>1, ServerHead
  <2>3. hl > 0 /\ pos < hl
    BY <2>1, <2>2, <1>1, <1>4, <1>6, ServerState
  <2>4. ~Finishes
    BY <2>1 DEF Finishes
  <2> HIDE DEF hl
  <2>5. Writing.ends \in Nat => pos < hl + Writing.ends
    BY <2>3, <1>1
  <2> QED
    BY <2>3, <2>4, <2>5, <1>1, <1>2, <1>3 DEF hl
<1>7. CASE head # <<>> /\ InSized /\ ServerAt = HeadLen(Writing) + Len(body)
  <2>1. /\ mode = "length" /\ needed = Writing.ends
        /\ Writing.ends = Len(Writing.payload) /\ Writing.payload = Writing.tail
        /\ Len(body) \in 0..needed
    BY <1>7 DEF InSized
  <2>2. Len(Writing.tail) \in Nat
    BY ServerState
  <2>3. Writing.ends \in Nat /\ Writing.ends # None
    BY <2>1, <2>2, <1>3
  <2>4. ~Finishes
    BY <2>1, <2>3, <1>4 DEF Finishes
  <2>5. pos < hl + Writing.ends
    BY <2>1, <2>3, <1>1, <1>4, <1>7
  <2> QED
    BY <2>3, <2>4, <2>5
<1>8. CASE head # <<>> /\ InClose /\ ServerAt = HeadLen(Writing) + Len(body)
  <2>1. /\ mode = "close" /\ Writing.ends = None
        /\ hl + Len(body) <= pos /\ body = SubSeq(Stream, hl + 1, hl + Len(body))
    BY <1>8 DEF InClose
  <2>2. hl + Len(body) = pos
    BY <2>1, <1>1, <1>4, <1>8
  <2>3. Finishes
    BY <2>1, <1>8 DEF Finishes
  <2>4. body = SubSeq(Stream, hl + 1, pos)
    BY <2>1, <2>2
  <2>5. pos >= hl
    BY <1>1, <1>4, <2>1, <1>8
  <2> QED
    BY <2>1, <2>3, <2>4, <2>5
<1>9. CASE head # <<>> /\ InChunks(ServerAt)
  <2>1. mode = "chunked"
    BY <1>9 DEF InChunks
  <2>2. Writing.ends \in Nat /\ pos < hl + Writing.ends
    BY <2>1, <1>4, <1>9, ChunksShort
  <2>3. ~Finishes
    BY <2>1 DEF Finishes
  <2> QED
    BY <2>2, <2>3, <1>3
<1> QED
  BY <1>5, <1>6, <1>7, <1>8, <1>9

-----------------------------------------------------------------------------
(* The server's half of the invariant is inductive.                        *)

(* Nothing of a sequence yet.                                              *)
LEMMA EmptySub ==
  ASSUME NEW s \in Seq(Tokens), NEW at \in 0..Len(s)
  PROVE  SubSeq(s, at + 1, at) = <<>>
<1> DEFINE b == SubSeq(s, at + 1, at)
<1>1. b \in Seq(Tokens) /\ Len(b) = at - at
  <2>1. at \in 0..at
    OBVIOUS
  <2> QED
    BY <2>1, Rest
<1> HIDE DEF b
<1>2. b = <<>>
  BY <1>1
<1> QED
  BY <1>2 DEF b

(* Between two calls the server's host has been told what is all in.       *)
LEMMA ServerExact ==
  ASSUME Sent, SInv
  PROVE  ResponseExact
<1>1. CASE side = "server" /\ answer = <<>> /\ pc = "out"
  <2>1. /\ Writing.ends # None => ~(pos >= HeadLen(Writing) + Writing.ends)
        /\ ~closed
    <3>1. pos \in Nat /\ HeadLen(Writing) \in Nat
      BY <1>1, ServerState
    <3>2. Writing.ends # None =>
            Writing.ends \in Nat /\ pos < HeadLen(Writing) + Writing.ends
      BY <1>1, ServerShort
    <3> QED
      BY <3>1, <3>2, <1>1 DEF SInv, Reading
  <2> QED
    BY <2>1, <1>1 DEF ResponseExact, Writing
<1>2. CASE side = "server" /\ answer # <<>>
  BY <1>2 DEF SInv
<1>3. CASE side # "server" \/ pc # "out"
  BY <1>3 DEF ResponseExact
<1> QED
  BY <1>1, <1>2, <1>3

(* The host is told of a response as soon as it is all in.                 *)
LEMMA Settles ==
  ASSUME Sent, SInv, side = "server",
         UNCHANGED <<side, sending, pos, closed, pending, error>>,
         Writing.ends \in Nat, pos >= HeadLen(Writing) + Writing.ends,
         pc' = "out",
         answer' = <<[is |-> Writing.is, body |-> Writing.payload]>>
  PROVE  SInv'
<1>1. Writing' = Writing /\ None \notin Nat
  BY DEF Writing, None
<1>2. answer' # <<>>
  OBVIOUS
<1>3. ResponseExact'
  BY <1>1 DEF ResponseExact, Writing
<1> QED
  BY <1>2, <1>3 DEF SInv

(* A pass of take() that does not yet settle.                              *)
LEMMA ServerReads ==
  ASSUME Sent, SInv, side = "server", answer = <<>>,
         UNCHANGED <<side, sending, pos, closed, pending, error, answer>>,
         NEW n \in 0..Len(buf), buf' = After(buf, n), ServerWaits',
         head' # <<>>,
         \/ InSized' /\ ServerAt' = HeadLen(Writing) + Len(body')
         \/ InClose' /\ ServerAt' = HeadLen(Writing) + Len(body')
         \/ InChunks(ServerAt)'
  PROVE  SInv'
<1>1. Writing' = Writing /\ Stream' = Stream
  BY DEF Writing, Stream
<1>2. Buffered(ServerAt)'
  BY <1>1, ServerConsumes
<1>3. ~closed' /\ pending' = <<>> /\ error' = FALSE /\ answer' = <<>>
  BY DEF SInv, Reading
<1> QED
  BY <1>1, <1>2, <1>3 DEF SInv, Reading

(* The server's parser takes a head, and knows how the body ends.          *)
LEMMA TakeStatusKeeps ==
  ASSUME Sent, SInv, TakeStatus
  PROVE  SInv'
<1> DEFINE hl == HeadLen(Writing)
           ls == Split(Writing.lines)
<1>1. /\ side = "server" /\ pc = "take" /\ head = <<>> /\ EndOfHead(buf) # 0
      /\ ResponseOk(HeadLines) /\ head' = HeadLines
      /\ mode' = ModeOf(HeadLines) /\ needed' = LengthOf(HeadLines)
      /\ buf' = After(buf, EndOfHead(buf))
      /\ UNCHANGED <<side, sending, pos, pc, body, closed>>
      /\ UNCHANGED <<pending, error, answer>>
  BY DEF TakeStatus, Taking, HeadIn, told
<1>2. answer = <<>>
  BY <1>1 DEF SInv
<1>3. /\ Unread /\ ServerAt = 0 /\ Len(buf) = pos
      /\ EndOfHead(buf) = IF Len(buf) >= hl THEN hl ELSE 0
      /\ HeadLines = ls
  BY <1>1, <1>2, ServerHead
<1>4. /\ hl \in Nat /\ hl > 0 /\ Len(buf) \in Nat /\ Answers(Writing)
      /\ pos \in Nat /\ Stream \in Seq(Tokens) /\ Len(Stream) \in Nat
      /\ pos <= Len(Stream)
  BY <1>1, <1>2, ServerState
<1>5. EndOfHead(buf) = hl /\ hl \in 0..Len(buf) /\ hl <= pos
  BY <1>1, <1>3, <1>4
<1>6. Writing' = Writing /\ Stream' = Stream
  BY <1>1 DEF Writing, Stream
<1>7. ServerAt' = hl
  <2>1. ServerAt' = ServerAt + hl
    BY <1>1, <1>2, <1>5, <1>6, ServerConsumes
  <2> QED
    BY <2>1, <1>3, <1>4
<1>8. head' # <<>>
  <2>1. Len(Writing.lines) >= 1 /\ Len(Writing.lines) \in Nat
    BY <1>4 DEF Answers, Well, Plain
  <2>2. Len(ls) = Len(Writing.lines)
    BY <2>1 DEF Split
  <2> HIDE DEF ls
  <2> QED
    BY <2>1, <2>2, <1>1, <1>3
<1>9. body' = <<>> /\ Len(body') = 0
  BY <1>1, <1>3 DEF Unread
<1> HIDE DEF hl, ls
<1>10. \/ InSized' /\ ServerAt' = HeadLen(Writing) + Len(body')
       \/ InClose' /\ ServerAt' = HeadLen(Writing) + Len(body')
       \/ InChunks(ServerAt)'
  <2>1. CASE /\ ModeOf(ls) = "length" /\ LengthOf(ls) = Writing.ends
             /\ Writing.is = "response" /\ Writing.tail = Writing.payload
             /\ Writing.ends = Len(Writing.payload)
    <3>1. Writing.payload \in Seq(Tokens)
      BY <2>1, <1>4 DEF Answers, Well
    <3>2. SubSeq(Writing.payload, 1, 0) = <<>>
      <4>1. 0 \in 0..Len(Writing.payload) /\ 0 + 1 = 1
        BY <3>1
      <4> QED
        BY <3>1, <4>1, EmptySub
    <3>3. mode' = "length" /\ needed' = Writing.ends /\ Len(body') \in 0..needed'
      BY <2>1, <3>1, <1>1, <1>3, <1>9
    <3>4. InSized'
      BY <2>1, <3>2, <3>3, <1>6, <1>9 DEF InSized
    <3>5. ServerAt' = HeadLen(Writing) + Len(body')
      BY <1>4, <1>7, <1>9 DEF hl
    <3> QED
      BY <3>4, <3>5
  <2>2. CASE /\ ModeOf(ls) = "close" /\ LengthOf(ls) = 0
             /\ Writing.is = "response" /\ Writing.ends = None
    <3>1. SubSeq(Stream, hl + 1, hl + 0) = <<>>
      <4>1. hl \in 0..Len(Stream) /\ hl + 0 = hl
        BY <1>4, <1>5
      <4> QED
        BY <4>1, <1>4, EmptySub
    <3>2. mode' = "close" /\ hl + Len(body') <= pos'
      BY <2>2, <1>1, <1>3, <1>4, <1>5, <1>9
    <3>3. InClose'
      BY <2>2, <3>1, <3>2, <1>6, <1>9 DEF InClose, hl
    <3>4. ServerAt' = HeadLen(Writing) + Len(body')
      BY <1>4, <1>7, <1>9 DEF hl
    <3> QED
      BY <3>3, <3>4
  <2>3. CASE /\ ModeOf(ls) = "chunked" /\ LengthOf(ls) = 0
             /\ \E cs \in Chunkings : Layout(Writing, cs)
    <3>1. PICK cs \in Chunkings : Layout(Writing, cs)
      BY <2>3
    <3>2. 1 \in 1..(Len(cs) + 1)
      BY <3>1, OffFacts
    <3>3. Joined(cs, 1 - 1) = <<>> /\ Off(cs, 1) = 0
      BY DEF Joined, Off
    <3>4. ServerAt' = hl + Off(cs, 1)
      BY <3>3, <1>4, <1>7
    <3>5. mode' = "chunked" /\ needed' = 0
      BY <2>3, <1>1, <1>3
    <3>6. SizeDue(cs, 1, ServerAt)'
      BY <3>3, <3>4, <3>5, <1>6, <1>9 DEF SizeDue, hl
    <3>7. InChunks(ServerAt)'
      BY <3>1, <3>2, <3>5, <3>6, <1>6 DEF InChunks
    <3> QED
      BY <3>7
  <2> QED
    BY <2>1, <2>2, <2>3, <1>1, <1>3, <1>4 DEF Answers, ls
<1>11. ServerWaits'
  BY <1>1 DEF ServerWaits
<1> QED
  BY <1>1, <1>2, <1>5, <1>8, <1>10, <1>11, ServerReads

(* It takes a head it cannot use, and its host is told.                    *)
LEMMA TakeBadStatusKeeps ==
  ASSUME Sent, SInv, TakeBadStatus
  PROVE  SInv'
<1>1. /\ side = "server" /\ pc = "take" /\ head = <<>> /\ EndOfHead(buf) # 0
      /\ ~ResponseOk(HeadLines) /\ pc' = "out"
      /\ answer' = <<[is |-> "error", body |-> <<>>]>>
      /\ UNCHANGED <<side, sending, pos, closed, pending, error>>
  BY DEF TakeBadStatus, Taking, HeadIn, Settled
<1>2. answer = <<>>
  BY <1>1 DEF SInv
<1>3. /\ Len(buf) = pos
      /\ EndOfHead(buf) = IF Len(buf) >= HeadLen(Writing)
                            THEN HeadLen(Writing) ELSE 0
      /\ HeadLines = Split(Writing.lines)
  BY <1>1, <1>2, ServerHead
<1>4. HeadLen(Writing) \in Nat /\ Answers(Writing) /\ pos \in Nat
  BY <1>1, <1>2, ServerState
<1>5. Writing.is = "error" /\ Writing.ends = 0 /\ Writing.payload = <<>>
  BY <1>1, <1>3, <1>4 DEF Answers
<1>6. pos >= HeadLen(Writing) + Writing.ends /\ Writing.ends \in Nat
  BY <1>1, <1>3, <1>4, <1>5
<1> QED
  BY <1>1, <1>5, <1>6, Settles

(* It takes what has come of a body that ends with the connection.         *)
LEMMA TakeToCloseKeeps ==
  ASSUME Sent, SInv, TakeToClose
  PROVE  SInv'
<1> DEFINE hl == HeadLen(Writing)
           n == Len(buf)
<1>1. /\ side = "server" /\ pc = "take" /\ mode = "close" /\ buf # <<>>
      /\ body' = body \o buf /\ buf' = <<>> /\ pc' = "out"
      /\ UNCHANGED <<side, sending, pos, head, needed, mode, closed>>
      /\ UNCHANGED <<pending, error, answer>>
  BY DEF TakeToClose, Taking, told
<1>2. answer = <<>>
  BY <1>1 DEF SInv
<1>3. head # <<>> /\ InClose /\ ServerAt = hl + Len(body)
  BY <1>1, <1>2 DEF SInv, Reading, Unread, InSized, InChunks
<1>4. /\ hl \in Nat /\ n \in Nat /\ pos \in Nat /\ n = pos - ServerAt
      /\ Stream \in Seq(Tokens) /\ Len(Stream) \in Nat /\ pos <= Len(Stream)
      /\ buf = SubSeq(Stream, ServerAt + 1, pos)
      /\ ServerAt \in Nat /\ ServerAt <= pos /\ buf \in Seq(Tokens)
  BY <1>1, <1>2, ServerState
<1>5. body = SubSeq(Stream, hl + 1, ServerAt) /\ hl <= ServerAt /\ Len(body) \in Nat
  <2>1. body = SubSeq(Stream, hl + 1, hl + Len(body)) /\ hl + Len(body) <= pos
    BY <1>3 DEF InClose
  <2>2. Len(body) \in Nat
    <3> DEFINE e == ServerAt
    <3>1. body = SubSeq(Stream, hl + 1, e)
      BY <2>1, <1>3
    <3>2. e \in Nat /\ e <= Len(Stream)
      BY <1>4
    <3>3. \A j \in (hl + 1)..e : Stream[j] \in Tokens
      <4>1. \A j \in (hl + 1)..e : j \in 1..Len(Stream)
        BY <3>2, <1>4
      <4> QED
        BY <4>1, <1>4, ElementOfSeq
    <3>4. body \in Seq(Tokens)
      <4>1. hl + 1 \in Int /\ e \in Int
        BY <3>2, <1>4
      <4> HIDE DEF e, hl
      <4> QED
        BY <3>1, <3>3, <4>1, SubSeqProperties
    <3> QED
      BY <3>4
  <2>3. hl <= ServerAt
    BY <2>2, <1>3, <1>4
  <2> QED
    BY <2>1, <2>2, <2>3, <1>3
<1> HIDE DEF hl, n
<1>6. body' = SubSeq(Stream, hl + 1, pos)
  <2>1. /\ ServerAt \in 0..Len(Stream) /\ hl \in 0..ServerAt
        /\ ServerAt + n = pos /\ ServerAt + n <= Len(Stream)
    BY <1>4, <1>5
  <2>2. SubSeq(Stream, hl + 1, ServerAt) \o SubSeq(Stream, ServerAt + 1, ServerAt + n)
          = SubSeq(Stream, hl + 1, ServerAt + n)
    BY <2>1, <1>4, Grow
  <2> QED
    BY <2>1, <2>2, <1>1, <1>4, <1>5
<1>7. Len(body') = pos - hl
  <2>1. pos \in 0..Len(Stream) /\ hl \in 0..pos
    BY <1>4, <1>5
  <2> QED
    BY <2>1, <1>4, <1>6, Rest
<1>8. buf' = After(buf, n) /\ n \in 0..Len(buf)
  <2>1. n \in 0..Len(buf) /\ n = Len(buf)
    BY <1>4 DEF n
  <2>2. SubSeq(buf, n + 1, n) = <<>>
    BY <2>1, <1>4, EmptySub
  <2> QED
    BY <2>1, <2>2, <1>1 DEF After
<1>9. Writing' = Writing /\ Stream' = Stream
  BY <1>1 DEF Writing, Stream
<1>10. ServerAt' = hl + Len(body') /\ hl + Len(body') = pos
  <2>1. ServerAt' = ServerAt + n
    BY <1>1, <1>2, <1>8, <1>9, ServerConsumes
  <2> QED
    BY <2>1, <1>4, <1>7
<1>11. InClose'
  <2>1. hl + Len(body') <= pos'
    BY <1>1, <1>4, <1>10
  <2>2. body' = SubSeq(Stream, hl + 1, hl + Len(body'))
    BY <1>6, <1>10
  <2> QED
    BY <2>1, <2>2, <1>1, <1>3, <1>9 DEF InClose, hl
<1>12. ServerWaits'
  BY <1>1 DEF ServerWaits
<1>13. ServerAt' = HeadLen(Writing) + Len(body')
  BY <1>10 DEF hl
<1> QED
  BY <1>1, <1>2, <1>3, <1>8, <1>11, <1>12, <1>13, ServerReads

(* The first n of a sequence.                                              *)
LEMMA Front ==
  ASSUME NEW s \in Seq(Tokens), NEW n \in 0..Len(s)
  PROVE  /\ SubSeq(s, 1, n) \in Seq(Tokens) /\ Len(SubSeq(s, 1, n)) = n
         /\ \A i \in 1..n : SubSeq(s, 1, n)[i] = s[i]
         /\ n = Len(s) => SubSeq(s, 1, n) = s
<1> DEFINE u == SubSeq(s, 1, n)
<1>1. u \in Seq(Tokens) /\ Len(u) = n /\ \A i \in 1..n : u[i] = s[i]
  <2>1. /\ 1 \in 1..(Len(s) + 1) /\ n \in (1 - 1)..Len(s) /\ (n - 1) + 1 = n
        /\ \A i \in 1..n : (1 + i) - 1 = i
    OBVIOUS
  <2> QED
    BY <2>1, SubFacts
<1> HIDE DEF u
<1>2. n = Len(s) => u = s
  BY <1>1, SeqEqual
<1> QED
  BY <1>1, <1>2 DEF u

(* Of a body w, the first j and then what the buffer holds of the next n.  *)
LEMMA Gathers ==
  ASSUME NEW w \in Seq(Tokens), NEW j \in 0..Len(w), NEW b \in Seq(Tokens),
         NEW n \in 0..Len(b), j + n <= Len(w),
         \A i \in 1..n : b[i] = w[j + i]
  PROVE  SubSeq(w, 1, j) \o SubSeq(b, 1, n) = SubSeq(w, 1, j + n)
<1>0. Len(w) \in Nat /\ j \in Nat /\ n \in Nat /\ Len(b) \in Nat
  OBVIOUS
<1> DEFINE u == SubSeq(b, 1, n)
           x == SubSeq(w, 0 + 1, j)
           y == SubSeq(w, j + 1, j + n)
<1>1. u \in Seq(Tokens) /\ Len(u) = n /\ \A i \in 1..n : u[i] = b[i]
  BY Front
<1>2. y \in Seq(Tokens) /\ Len(y) = n /\ \A i \in 1..n : y[i] = w[j + i]
  <2>1. j + n \in 0..Len(w) /\ j \in 0..(j + n) /\ (j + n) - j = n
    BY <1>0
  <2> QED
    BY <2>1, Rest
<1>3. u = y
  BY <1>1, <1>2, SeqEqual
<1>4. x \o y = SubSeq(w, 0 + 1, j + n)
  <2>1. 0 \in 0..j
    BY <1>0
  <2> QED
    BY <2>1, <1>0, Grow
<1> QED
  BY <1>3, <1>4

(* The smaller of two numbers.                                             *)
LEMMA MinOfTwo ==
  ASSUME NEW i \in Nat, NEW j \in Nat
  PROVE  Min({i, j}) = IF i <= j THEN i ELSE j
BY DEF Min

(* It takes what has come of a body of a known length.                     *)
LEMMA TakeSizedKeeps ==
  ASSUME Sent, SInv, TakeSized
  PROVE  SInv'
<1> DEFINE hl == HeadLen(Writing)
           w == Writing.payload
           l == Len(body)
           n == Min({Len(buf), needed - Len(body)})
           kept == body \o SubSeq(buf, 1, n)
<1>1. /\ side = "server" /\ pc = "take" /\ mode = "length" /\ head # <<>>
      /\ body' = kept /\ buf' = After(buf, n)
      /\ IF Len(kept) >= needed
           THEN pc' = "out" /\ answer' = <<[is |-> "response", body |-> kept]>>
           ELSE pc' = "out" /\ UNCHANGED answer
      /\ UNCHANGED <<side, sending, pos, head, needed, mode, closed>>
      /\ UNCHANGED <<pending, error>>
  BY DEF TakeSized, Taking, Settled, told
<1>2. answer = <<>>
  BY <1>1 DEF SInv
<1>3. InSized /\ ServerAt = hl + Len(body)
  BY <1>1, <1>2 DEF SInv, Reading, Unread, InClose, InChunks
<1>4. /\ Writing.is = "response" /\ Writing.ends = Len(w) /\ Writing.tail = w
      /\ needed = Len(w) /\ l \in 0..Len(w) /\ body = SubSeq(w, 1, l)
      /\ Len(w) \in Nat /\ w \in Seq(Tokens)
  <2>1. /\ Writing.is = "response" /\ Writing.ends = Len(w) /\ Writing.tail = w
        /\ needed = Len(w) /\ l \in 0..Len(w) /\ body = SubSeq(w, 1, l)
    BY <1>3 DEF InSized
  <2>2. w \in Seq(Tokens)
    BY <2>1, <1>1, <1>2, ServerState DEF Answers, Well
  <2> QED
    BY <2>1, <2>2
<1>5. /\ hl \in Nat /\ buf \in Seq(Tokens) /\ Len(buf) \in Nat
      /\ Len(buf) = pos - ServerAt /\ ServerAt \in Nat /\ pos \in Nat
  BY <1>1, <1>2, ServerState
<1>6. /\ n = IF Len(buf) <= Len(w) - l THEN Len(buf) ELSE Len(w) - l
      /\ n \in 0..Len(buf) /\ l + n <= Len(w) /\ l \in Nat /\ n \in Nat
  <2>1. Len(w) - l \in Nat
    BY <1>4
  <2>2. n = IF Len(buf) <= Len(w) - l THEN Len(buf) ELSE Len(w) - l
    BY <2>1, <1>4, <1>5, MinOfTwo
  <2> HIDE DEF n
  <2> QED
    BY <2>1, <2>2, <1>4, <1>5
<1>7. kept = SubSeq(w, 1, l + n)
  <2>1. ASSUME NEW i \in 1..n PROVE buf[i] = w[l + i]
    <3>1. i \in 1..Len(buf) /\ l + i <= Len(Writing.tail)
      BY <1>4, <1>5, <1>6
    <3> HIDE DEF n
    <3> QED
      BY <3>1, <1>1, <1>2, <1>3, <1>4, <1>6, BufferedTail
  <2> HIDE DEF n, l, w
  <2>2. SubSeq(w, 1, l) \o SubSeq(buf, 1, n) = SubSeq(w, 1, l + n)
    BY <2>1, <1>4, <1>5, <1>6, Gathers
  <2> QED
    BY <2>2, <1>4
<1> HIDE DEF n, kept, l, hl, w
<1>8. Len(kept) = l + n /\ (l + n = Len(w) => kept = w)
  <2>1. l + n \in 0..Len(w)
    BY <1>4, <1>6
  <2> QED
    BY <2>1, <1>4, <1>7, Front
<1>9. CASE Len(kept) >= needed
  <2>1. l + n = Len(w) /\ kept = w
    BY <1>4, <1>6, <1>8, <1>9
  <2>2. pos >= hl + Writing.ends /\ Writing.ends \in Nat
    BY <2>1, <1>3, <1>4, <1>5, <1>6 DEF l
  <2>3. answer' = <<[is |-> Writing.is, body |-> Writing.payload]>> /\ pc' = "out"
    BY <2>1, <1>1, <1>4, <1>9 DEF w
  <2> QED
    BY <2>2, <2>3, <1>1, Settles DEF hl
<1>10. CASE ~(Len(kept) >= needed)
  <2>1. n = Len(buf) /\ l + n < Len(w) /\ UNCHANGED answer /\ pc' = "out"
    BY <1>1, <1>4, <1>5, <1>6, <1>8, <1>10
  <2>2. Writing' = Writing /\ Stream' = Stream
    BY <1>1 DEF Writing, Stream
  <2>3. ServerAt' = ServerAt + n /\ Len(buf') = 0
    <3>1. ServerAt' = ServerAt + n /\ Len(buf') = Len(buf) - n
      BY <2>2, <1>1, <1>2, <1>6, ServerConsumes
    <3> QED
      BY <3>1, <2>1, <1>5
  <2>4. ServerAt' = hl + Len(body')
    <3>1. ServerAt = hl + l /\ hl \in Nat
      BY <1>3, <1>5 DEF l
    <3>2. Len(body') = l + n
      BY <1>1, <1>8
    <3>3. ServerAt' = ServerAt + n
      BY <2>3
    <3>4. l \in Nat /\ n \in Nat
      BY <1>6
    <3>5. (hl + l) + n = hl + (l + n)
      BY <3>1, <3>4
    <3> QED
      BY <3>1, <3>2, <3>3, <3>5
  <2>5. InSized'
    <3>1. Len(body') \in 0..needed' /\ body' = SubSeq(w, 1, Len(body'))
      BY <2>1, <1>1, <1>4, <1>6, <1>7, <1>8
    <3> QED
      BY <3>1, <2>2, <1>1, <1>4 DEF InSized, w
  <2>6. buf' = <<>>
    <3> DEFINE e == After(buf, n)
    <3>1. SubSeq(buf, n + 1, n) = <<>>
      BY <2>1, <1>5, <1>6, EmptySub
    <3> QED
      BY <3>1, <2>1, <1>1 DEF After
  <2>7. ServerWaits'
    BY <2>1, <2>6, <1>1, <1>4, <1>8 DEF ServerWaits
  <2> QED
    BY <2>1, <2>4, <2>5, <2>7, <1>1, <1>2, <1>6, ServerReads DEF hl
<1> QED
  BY <1>9, <1>10

(* The bytes of a chunk in the buffer.                                     *)
LEMMA TakeChunkBytesKeeps ==
  ASSUME Sent, SInv, TakeChunkBytes
  PROVE  SInv'
<1> DEFINE hl == HeadLen(Writing)
           n == Min({Len(buf), needed})
<1>1. /\ side = "server" /\ pc = "take" /\ mode = "chunked"
      /\ needed > 0 /\ buf # <<>>
      /\ body' = body \o SubSeq(buf, 1, n) /\ buf' = After(buf, n)
      /\ needed' = needed - n
      /\ UNCHANGED <<side, sending, pos, pc, head, mode, closed>>
      /\ UNCHANGED <<pending, error, answer>>
  BY DEF TakeChunkBytes, Taking, told
<1>2. answer = <<>>
  BY <1>1 DEF SInv
<1>3. head # <<>> /\ InChunks(ServerAt)
  BY <1>1, <1>2 DEF SInv, Reading, Unread, InSized, InClose
<1>4. PICK cs \in Chunkings :
        /\ Layout(Writing, cs)
        /\ \E k \in 1..Len(cs) :
             \E j \in 0..Len(cs[k]) : InChunk(cs, k, j, ServerAt)
  BY <1>1, <1>3 DEF InChunks, SizeDue
<1>a. PICK k \in 1..Len(cs) :
        \E j \in 0..Len(cs[k]) : InChunk(cs, k, j, ServerAt)
  BY <1>4
<1>5. PICK j \in 0..Len(cs[k]) : InChunk(cs, k, j, ServerAt)
  BY <1>a
<1> DEFINE c == cs[k]
           o == Off(cs, k)
<1>6. /\ c \in Seq(Tokens) /\ Len(c) \in Nat /\ o \in Nat
      /\ ChunkAt(Writing.tail, o, c) /\ Joined(cs, k - 1) \in Seq(Tokens)
  <2>1. k \in 1..(Len(cs) + 1)
    BY <1>4 DEF Layout
  <2> QED
    BY <2>1, <1>4, OffFacts
<1>7. /\ needed = Len(c) - j /\ j \in Nat /\ j <= Len(c)
      /\ body = Joined(cs, k - 1) \o SubSeq(c, 1, j)
      /\ ServerAt = hl + o + 3 + j
  BY <1>5, <1>6 DEF InChunk
<1>8. /\ hl \in Nat /\ buf \in Seq(Tokens) /\ Len(buf) \in Nat
      /\ Len(Writing.tail) \in Nat
  BY <1>1, <1>2, ServerState
<1> HIDE DEF hl, c, o
<1>9. n \in 0..Len(buf) /\ j + n <= Len(c) /\ n \in Nat
  <2>1. needed \in Nat
    BY <1>6, <1>7
  <2>2. n = IF Len(buf) <= needed THEN Len(buf) ELSE needed
    BY <2>1, <1>8, MinOfTwo
  <2> HIDE DEF n
  <2> QED
    BY <2>1, <2>2, <1>6, <1>7, <1>8
<1> HIDE DEF n
<1>10. ASSUME NEW i \in 1..n PROVE buf[i] = c[j + i]
  <2>1. /\ i \in 1..Len(buf) /\ j + i \in 1..Len(c)
        /\ (o + 3 + j) + i = (o + 3) + (j + i) /\ o + 3 + j \in Nat
        /\ ServerAt = hl + (o + 3 + j)
    BY <1>6, <1>7, <1>8, <1>9
  <2>2. /\ Len(Writing.tail) >= o + 5 + Len(c)
        /\ Writing.tail[(o + 3) + (j + i)] = c[j + i]
    BY <2>1, <1>6 DEF ChunkAt
  <2>3. (o + 3 + j) + i <= Len(Writing.tail)
    <3> DEFINE t == Len(Writing.tail)
               u == Len(c)
    <3>1. /\ t \in Nat /\ u \in Nat /\ i \in Nat
          /\ j + i <= u /\ t >= o + 5 + u
      BY <2>1, <2>2, <1>6, <1>8, <1>9
    <3> HIDE DEF t, u
    <3>2. (o + 3 + j) + i <= t
      BY <3>1, <1>6, <1>7
    <3> QED
      BY <3>2 DEF t
  <2>4. buf[i] = Writing.tail[(o + 3 + j) + i]
    BY <2>1, <2>3, <1>1, <1>2, BufferedTail DEF hl
  <2> QED
    BY <2>1, <2>2, <2>4
<1>11. body' = Joined(cs, k - 1) \o SubSeq(c, 1, j + n)
  <2> DEFINE x == Joined(cs, k - 1)
             y == SubSeq(c, 1, j)
             z == SubSeq(buf, 1, n)
  <2>1. y \o z = SubSeq(c, 1, j + n)
    <3>1. j \in 0..Len(c)
      BY <1>6, <1>7
    <3> QED
      BY <3>1, <1>6, <1>8, <1>9, <1>10, Gathers
  <2>2. x \in Seq(Tokens) /\ y \in Seq(Tokens) /\ z \in Seq(Tokens)
    <3>1. j \in 0..Len(c)
      BY <1>6, <1>7
    <3>2. y \in Seq(Tokens)
      BY <3>1, <1>6, Front
    <3>3. z \in Seq(Tokens)
      BY <1>8, <1>9, Front
    <3> QED
      BY <3>2, <3>3, <1>6
  <2>3. body' = (x \o y) \o z
    BY <1>1, <1>7
  <2> HIDE DEF x, y, z
  <2>4. body' = x \o (y \o z)
    BY <2>2, <2>3, ConcatAssociative
  <2> QED
    BY <2>1, <2>4 DEF x
<1>12. Writing' = Writing /\ Stream' = Stream
  BY <1>1 DEF Writing, Stream
<1>13. ServerAt' = hl + o + 3 + (j + n)
  <2>1. ServerAt' = ServerAt + n
    BY <1>1, <1>2, <1>9, <1>12, ServerConsumes
  <2> QED
    BY <2>1, <1>6, <1>7, <1>8, <1>9
<1>14. j + n \in 0..Len(c) /\ needed' = Len(c) - (j + n)
  BY <1>1, <1>6, <1>7, <1>9
<1>15. PICK d \in Nat : d = j + n
  BY <1>7, <1>9
<1>16. InChunks(ServerAt)'
  <2>1. /\ needed' = Len(cs[k]) - d
        /\ body' = Joined(cs, k - 1) \o SubSeq(cs[k], 1, d)
        /\ ServerAt' = HeadLen(Writing) + Off(cs, k) + 3 + d
    BY <1>11, <1>13, <1>14, <1>15 DEF hl, o, c
  <2>2. InChunk(cs, k, d, ServerAt)'
    BY <2>1, <1>12 DEF InChunk
  <2>3. Layout(Writing', cs) /\ mode' = "chunked"
    BY <1>1, <1>4, <1>12
  <2>4. d \in 0..Len(cs[k])
    BY <1>14, <1>15 DEF c
  <2> QED
    BY <2>2, <2>3, <2>4, <1>4 DEF InChunks
<1>17. ServerWaits'
  BY <1>1 DEF ServerWaits
<1> QED
  BY <1>1, <1>2, <1>3, <1>9, <1>16, <1>17, ServerReads

(* A line between two chunks: the size of one, or the end of one.          *)
LEMMA ServerLine ==
  ASSUME Sent, SInv, side = "server", pc = "take", LineIn
  PROVE  /\ head # <<>> /\ answer = <<>>
         /\ \E cs \in Chunkings :
              /\ Layout(Writing, cs)
              /\ \/ \E k \in 1..(Len(cs) + 1) : \E x :
                      /\ SizeLine(cs, k, Writing, x) /\ SizeDue(cs, k, ServerAt)
                      /\ EndOf(CRLF, buf) = 3 /\ Len(buf) >= 3
                      /\ LineText = <<x>>
                 \/ \E k \in 1..Len(cs) :
                      /\ InChunk(cs, k, Len(cs[k]), ServerAt)
                      /\ EndOf(CRLF, buf) = 2 /\ Len(buf) >= 2
                      /\ LineText = <<>>
<1>1. answer = <<>> /\ mode = "chunked" /\ needed = 0 /\ EndOf(CRLF, buf) # 0
  BY DEF SInv, LineIn
<1>2. head # <<>> /\ InChunks(ServerAt)
  BY <1>1 DEF SInv, Reading, Unread, InSized, InClose
<1>3. PICK cs \in Chunkings :
        /\ Layout(Writing, cs)
        /\ \/ \E k \in 1..(Len(cs) + 1) : SizeDue(cs, k, ServerAt)
           \/ \E k \in 1..Len(cs) :
                \E j \in 0..Len(cs[k]) : InChunk(cs, k, j, ServerAt)
  BY <1>2 DEF InChunks
<1>4. ASSUME NEW k \in 1..(Len(cs) + 1), SizeDue(cs, k, ServerAt)
      PROVE  \E x : /\ SizeLine(cs, k, Writing, x) /\ SizeDue(cs, k, ServerAt)
                    /\ EndOf(CRLF, buf) = 3 /\ Len(buf) >= 3
                    /\ LineText = <<x>>
  <2>1. PICK x : SizeLine(cs, k, Writing, x)
    BY <1>3, SizeLines
  <2>2. /\ EndOf(CRLF, buf) = IF Len(buf) >= 3 THEN 3 ELSE 0
        /\ EndOf(CRLF, buf) # 0 => LineText = <<x>>
    BY <2>1, <1>1, <1>3, <1>4, SizeIsDue
  <2> QED
    BY <2>1, <2>2, <1>1, <1>4
<1>5. ASSUME NEW k \in 1..Len(cs), NEW j \in 0..Len(cs[k]),
             InChunk(cs, k, j, ServerAt)
      PROVE  /\ InChunk(cs, k, Len(cs[k]), ServerAt)
             /\ EndOf(CRLF, buf) = 2 /\ Len(buf) >= 2
             /\ LineText = <<>>
  <2>1. Len(cs[k]) \in Nat
    BY <1>3, OffFacts
  <2>2. needed = Len(cs[k]) - j
    BY <1>5 DEF InChunk
  <2>3. j = Len(cs[k])
    BY <2>1, <2>2, <1>1
  <2>4. InChunk(cs, k, Len(cs[k]), ServerAt)
    BY <2>3, <1>5
  <2>5. /\ EndOf(CRLF, buf) = IF Len(buf) >= 2 THEN 2 ELSE 0
        /\ EndOf(CRLF, buf) # 0 => LineText = <<>>
    BY <2>4, <1>1, <1>3, BlankIsDue
  <2> QED
    BY <2>4, <2>5, <1>1
<1> QED
  BY <1>1, <1>2, <1>3, <1>4, <1>5

(* It takes the end of the line that follows a chunk.                      *)
LEMMA TakeBlankKeeps ==
  ASSUME Sent, SInv, TakeBlank
  PROVE  SInv'
<1> DEFINE hl == HeadLen(Writing)
<1>1. /\ side = "server" /\ pc = "take" /\ LineIn /\ LineText = <<>>
      /\ buf' = After(buf, EndOf(CRLF, buf))
      /\ UNCHANGED <<side, sending, pos, pc, head, needed, mode, body, closed>>
      /\ UNCHANGED <<pending, error, answer>>
  BY DEF TakeBlank, Taking, told
<1>2. PICK cs \in Chunkings :
        /\ Layout(Writing, cs)
        /\ \E k \in 1..Len(cs) :
             /\ InChunk(cs, k, Len(cs[k]), ServerAt)
             /\ EndOf(CRLF, buf) = 2 /\ Len(buf) >= 2
  <2>1. \A x : LineText # <<x>>
    BY <1>1
  <2> QED
    BY <2>1, <1>1, ServerLine
<1>3. PICK k \in 1..Len(cs) :
        /\ InChunk(cs, k, Len(cs[k]), ServerAt)
        /\ EndOf(CRLF, buf) = 2 /\ Len(buf) >= 2
  BY <1>2
<1>4. /\ cs[k] \in Seq(Tokens) /\ Len(cs[k]) \in Nat
      /\ Off(cs, k + 1) = Off(cs, k) + 5 + Len(cs[k])
      /\ Joined(cs, k) = Joined(cs, k - 1) \o cs[k]
      /\ Off(cs, k) \in Nat /\ k + 1 \in 1..(Len(cs) + 1) /\ (k + 1) - 1 = k
  <2>1. k \in 1..(Len(cs) + 1) /\ k + 1 \in 1..(Len(cs) + 1) /\ (k + 1) - 1 = k
    BY <1>2 DEF Layout
  <2> QED
    BY <2>1, <1>2, OffFacts
<1>5. head # <<>> /\ answer = <<>> /\ hl \in Nat /\ Len(buf) \in Nat
      /\ mode = "chunked" /\ needed = 0
  BY <1>1, ServerLine, ServerState DEF LineIn
<1>6. Writing' = Writing /\ Stream' = Stream
  BY <1>1 DEF Writing, Stream
<1>7. 2 \in 0..Len(buf) /\ buf' = After(buf, 2)
  BY <1>1, <1>3, <1>5
<1>8. ServerAt' = hl + Off(cs, k + 1)
  <2>1. ServerAt' = ServerAt + 2
    BY <1>1, <1>5, <1>6, <1>7, ServerConsumes
  <2>2. ServerAt = hl + Off(cs, k) + 3 + Len(cs[k])
    BY <1>3 DEF InChunk
  <2> DEFINE o == Off(cs, k)
             e == Off(cs, k + 1)
             l == Len(cs[k])
  <2>3. /\ ServerAt' = ServerAt + 2 /\ ServerAt = hl + o + 3 + l
        /\ e = o + 5 + l /\ o \in Nat /\ l \in Nat /\ hl \in Nat
    <3>1. ServerAt = hl + o + 3 + l
      BY <2>2
    <3>2. e = o + 5 + l
      BY <1>4
    <3> HIDE DEF o, e, l, hl
    <3> QED
      BY <3>1, <3>2, <2>1, <1>4, <1>5 DEF o, l
  <2> HIDE DEF hl, o, e, l
  <2>4. ServerAt' = hl + e
    BY <2>3
  <2> QED
    BY <2>4 DEF e
<1>9. body = Joined(cs, k)
  <2>1. SubSeq(cs[k], 1, Len(cs[k])) = cs[k]
    <3>1. Len(cs[k]) \in 0..Len(cs[k])
      BY <1>4
    <3> QED
      BY <3>1, <1>4, Front
  <2> QED
    BY <2>1, <1>3, <1>4 DEF InChunk
<1>10. SizeDue(cs, k + 1, ServerAt)'
  BY <1>1, <1>4, <1>5, <1>6, <1>8, <1>9 DEF SizeDue
<1>11. InChunks(ServerAt)'
  BY <1>1, <1>2, <1>4, <1>5, <1>6, <1>10 DEF InChunks
<1>12. ServerWaits'
  BY <1>1 DEF ServerWaits
<1> QED
  BY <1>1, <1>5, <1>7, <1>11, <1>12, ServerReads

(* A line that is not blank: what it says, and where it stands.            *)
LEMMA ServerSize ==
  ASSUME Sent, SInv, side = "server", pc = "take", LineIn, LineText # <<>>
  PROVE  \E cs \in Chunkings : \E k \in 1..(Len(cs) + 1) : \E x :
           /\ Layout(Writing, cs) /\ SizeLine(cs, k, Writing, x)
           /\ SizeDue(cs, k, ServerAt)
           /\ EndOf(CRLF, buf) = 3 /\ Len(buf) >= 3
           /\ LineText = <<x>>
BY ServerLine

(* It takes the size of a chunk.                                           *)
LEMMA TakeSizeKeeps ==
  ASSUME Sent, SInv, TakeSize
  PROVE  SInv'
<1> DEFINE hl == HeadLen(Writing)
<1>1. /\ side = "server" /\ pc = "take" /\ LineIn /\ Len(LineText) = 1
      /\ LineText[1].t = "size" /\ LineText[1].v > 0
      /\ needed' = LineText[1].v
      /\ buf' = After(buf, EndOf(CRLF, buf))
      /\ UNCHANGED <<side, sending, pos, pc, head, mode, body, closed>>
      /\ UNCHANGED <<pending, error, answer>>
  BY DEF TakeSize, Taking, told, Size
<1>2. PICK cs \in Chunkings, k \in Nat, x \in Tokens :
        /\ k \in 1..(Len(cs) + 1) /\ Layout(Writing, cs)
        /\ SizeLine(cs, k, Writing, x) /\ SizeDue(cs, k, ServerAt)
        /\ EndOf(CRLF, buf) = 3 /\ Len(buf) >= 3 /\ LineText = <<x>>
  <2>1. LineText # <<>>
    BY <1>1
  <2> QED
    BY <2>1, <1>1, ServerSize DEF SizeLine
<1>3. x.t = "size" /\ x.v > 0 /\ needed' = x.v
  BY <1>1, <1>2
<1>4. k \in 1..Len(cs) /\ x.v = Len(cs[k])
  <2>1. Len(cs) \in 1..2
    BY <1>2 DEF Layout
  <2>2. k # Len(cs) + 1
    BY <1>2, <1>3, TokenFacts DEF SizeLine
  <2>3. k \in 1..Len(cs) /\ k <= Len(cs)
    BY <2>1, <2>2, <1>2
  <2>4. x = Token("size", Len(cs[k]))
    BY <2>3, <1>2 DEF SizeLine
  <2> QED
    BY <2>3, <2>4, TokenFacts
<1>5. /\ cs[k] \in Seq(Tokens) /\ Len(cs[k]) \in Nat
      /\ Joined(cs, k - 1) \in Seq(Tokens) /\ Off(cs, k) \in Nat
  BY <1>2, <1>4, OffFacts
<1>6. head # <<>> /\ answer = <<>> /\ hl \in Nat /\ Len(buf) \in Nat
      /\ mode = "chunked"
  BY <1>1, ServerLine, ServerState DEF LineIn
<1>7. Writing' = Writing /\ Stream' = Stream
  BY <1>1 DEF Writing, Stream
<1>8. 3 \in 0..Len(buf) /\ buf' = After(buf, 3)
  BY <1>1, <1>2, <1>6
<1>9. ServerAt' = hl + Off(cs, k) + 3 + 0
  <2>1. ServerAt' = ServerAt + 3
    BY <1>1, <1>6, <1>7, <1>8, ServerConsumes
  <2>2. ServerAt = hl + Off(cs, k)
    BY <1>2 DEF SizeDue
  <2> HIDE DEF hl
  <2> QED
    BY <2>1, <2>2, <1>5, <1>6
<1>10. body' = Joined(cs, k - 1) \o SubSeq(cs[k], 1, 0)
  <2>1. SubSeq(cs[k], 1, 0) = <<>>
    <3>1. 0 \in 0..Len(cs[k]) /\ 0 + 1 = 1
      BY <1>5
    <3> QED
      BY <3>1, <1>5, EmptySub
  <2>2. Joined(cs, k - 1) \o <<>> = Joined(cs, k - 1)
    BY <1>5, ConcatEmptySeq
  <2> QED
    BY <2>1, <2>2, <1>1, <1>2 DEF SizeDue
<1>11. InChunk(cs, k, 0, ServerAt)'
  <2>1. needed' = Len(cs[k]) - 0
    BY <1>3, <1>4, <1>5
  <2> QED
    BY <2>1, <1>7, <1>9, <1>10 DEF InChunk
<1>12. InChunks(ServerAt)'
  <2>1. 0 \in 0..Len(cs[k]) /\ mode' = "chunked" /\ Layout(Writing', cs)
    BY <1>1, <1>2, <1>5, <1>6, <1>7
  <2> QED
    BY <2>1, <1>4, <1>11 DEF InChunks
<1>13. ServerWaits'
  BY <1>1 DEF ServerWaits
<1> QED
  BY <1>1, <1>6, <1>8, <1>12, <1>13, ServerReads

(* The last line of a response in chunks: its host is told of what they    *)
(* join up to, or that it makes no sense.                                  *)
LEMMA LastLine ==
  ASSUME Sent, SInv, side = "server", pc = "take", LineIn, LineText # <<>>,
         ~(LineText[1].t = "size" /\ LineText[1].v > 0)
  PROVE  /\ Writing.ends \in Nat /\ pos >= HeadLen(Writing) + Writing.ends
         /\ \/ /\ LineText[1].t = "size" /\ Writing.is = "response"
               /\ Writing.payload = body
            \/ /\ LineText[1].t # "size" /\ Writing.is = "error"
               /\ Writing.payload = <<>>
         /\ Len(LineText) = 1
<1>1. PICK cs \in Chunkings, k \in Nat, x \in Tokens :
        /\ k \in 1..(Len(cs) + 1) /\ Layout(Writing, cs)
        /\ SizeLine(cs, k, Writing, x) /\ SizeDue(cs, k, ServerAt)
        /\ EndOf(CRLF, buf) = 3 /\ Len(buf) >= 3 /\ LineText = <<x>>
  BY ServerSize DEF SizeLine
<1>2. LineText[1] = x /\ Len(LineText) = 1
  BY <1>1
<1>3. Len(cs) \in 1..2 /\ Writing.ends = Off(cs, Len(cs) + 1) + 3
      /\ Writing.ends \in Nat
      /\ \A i \in 1..Len(cs) : Len(cs[i]) \in Nat /\ Len(cs[i]) > 0
  BY <1>1, OffFacts
<1>4. k = Len(cs) + 1
  <2> SUFFICES ASSUME k # Len(cs) + 1 PROVE FALSE
    OBVIOUS
  <2>1. k \in 1..Len(cs) /\ k <= Len(cs)
    BY <1>1, <1>3
  <2>2. x = Token("size", Len(cs[k])) /\ Len(cs[k]) > 0
    BY <2>1, <1>1, <1>3 DEF SizeLine
  <2>3. x.t = "size" /\ x.v > 0
    BY <2>2, TokenFacts
  <2> QED
    BY <2>3, <1>2
<1>5. \/ /\ Writing.is = "response" /\ Writing.payload = Joined(cs, Len(cs))
         /\ x = Token("size", 0)
      \/ /\ Writing.is = "error" /\ Writing.payload = <<>>
         /\ x = Token("junk", 0)
  BY <1>1, <1>4 DEF SizeLine
<1>6. body = Joined(cs, Len(cs)) /\ ServerAt = HeadLen(Writing) + Off(cs, Len(cs) + 1)
  <2>1. k - 1 = Len(cs)
    BY <1>3, <1>4
  <2> QED
    BY <2>1, <1>1, <1>4 DEF SizeDue
<1>7. pos >= HeadLen(Writing) + Writing.ends
  <2>1. answer = <<>>
    BY DEF SInv
  <2>2. /\ HeadLen(Writing) \in Nat /\ pos \in Nat /\ ServerAt \in Nat
        /\ Len(buf) = pos - ServerAt
    BY <2>1, ServerState
  <2>3. Len(cs) + 1 \in 1..(Len(cs) + 1)
    BY <1>3
  <2>4. Off(cs, Len(cs) + 1) \in Nat
    BY <2>3, <1>1, OffFacts
  <2> QED
    BY <2>2, <2>4, <1>1, <1>3, <1>6
<1>8. \/ x.t = "size" /\ Writing.is = "response" /\ Writing.payload = body
      \/ x.t # "size" /\ Writing.is = "error" /\ Writing.payload = <<>>
  BY <1>5, <1>6, TokenFacts
<1> QED
  BY <1>2, <1>3, <1>7, <1>8

(* It takes the size of the last chunk, and the response is whole.         *)
LEMMA TakeLastSizeKeeps ==
  ASSUME Sent, SInv, TakeLastSize
  PROVE  SInv'
<1>1. /\ side = "server" /\ pc = "take" /\ LineIn /\ Len(LineText) = 1
      /\ LineText[1].t = "size" /\ LineText[1].v = 0 /\ pc' = "out"
      /\ answer' = <<[is |-> "response", body |-> body]>>
      /\ UNCHANGED <<side, sending, pos, closed, pending, error>>
  BY DEF TakeLastSize, Taking, Settled, Size
<1>2. LineText # <<>> /\ ~(LineText[1].v > 0)
  BY <1>1
<1>3. /\ Writing.ends \in Nat /\ pos >= HeadLen(Writing) + Writing.ends
      /\ Writing.is = "response" /\ Writing.payload = body
  BY <1>1, <1>2, LastLine
<1> QED
  BY <1>1, <1>3, Settles

(* It takes a line that is no size, and its host is told.                  *)
LEMMA TakeBadSizeKeeps ==
  ASSUME Sent, SInv, TakeBadSize
  PROVE  SInv'
<1>1. /\ side = "server" /\ pc = "take" /\ LineIn /\ LineText # <<>>
      /\ ~(Len(LineText) = 1 /\ LineText[1].t = "size") /\ pc' = "out"
      /\ answer' = <<[is |-> "error", body |-> <<>>]>>
      /\ UNCHANGED <<side, sending, pos, closed, pending, error>>
  BY DEF TakeBadSize, Taking, Settled, Size
<1>2. Len(LineText) = 1
  <2>1. PICK x : LineText = <<x>>
    BY <1>1, ServerSize
  <2> QED
    BY <2>1
<1>3. /\ Writing.ends \in Nat /\ pos >= HeadLen(Writing) + Writing.ends
      /\ Writing.is = "error" /\ Writing.payload = <<>>
  BY <1>1, <1>2, LastLine
<1> QED
  BY <1>1, <1>3, Settles

(* take() has nothing more: the call returns.                              *)
LEMMA ServerReturns ==
  ASSUME Sent, SInv, side = "server",
         UNCHANGED <<side, sending, pos, parsing, told, closed>>,
         pc' = pc \/ TakeNothing
  PROVE  SInv'
<1>1. UNCHANGED <<side, sending, pos, buf, head, needed, mode, body, closed>>
      /\ UNCHANGED <<pending, error, answer>>
  BY DEF parsing, told
<1>2. UNCHANGED <<Stream, Writing, ServerAt>>
  BY <1>1 DEF Stream, Writing, ServerAt
<1>3. CASE answer = <<>>
  <2>1. ServerWaits'
    <3>1. CASE pc' = pc
      BY <3>1, <1>1, <1>3 DEF SInv, Reading, ServerWaits
    <3>2. CASE TakeNothing
      <4>1. mode # "length" /\ Incomplete
        BY <3>2 DEF TakeNothing
      <4>2. \/ head = <<>> /\ mode = "none"
            \/ head # <<>> /\ mode \in {"length", "close", "chunked"}
        BY <1>3 DEF SInv, Reading, Unread, InSized, InClose, InChunks
      <4>3. \/ mode = "none" /\ EndOfHead(buf) = 0
            \/ mode = "close" /\ buf = <<>>
            \/ mode = "chunked"
               /\ (buf = <<>> \/ (needed = 0 /\ EndOf(CRLF, buf) = 0))
        BY <4>1, <4>2 DEF Incomplete
      <4> QED
        BY <4>3, <1>1 DEF ServerWaits
    <3> QED
      BY <3>1, <3>2
  <2>2. /\ Buffered(ServerAt) /\ ~closed /\ pending = <<>> /\ error = FALSE
        /\ \/ Unread /\ ServerAt = 0
           \/ head # <<>> /\ InSized /\ ServerAt = HeadLen(Writing) + Len(body)
           \/ head # <<>> /\ InClose /\ ServerAt = HeadLen(Writing) + Len(body)
           \/ head # <<>> /\ InChunks(ServerAt)
    BY <1>3 DEF SInv, Reading
  <2>3. Buffered(ServerAt)'
    BY <2>2, <1>1, <1>2 DEF Buffered
  <2>4. InChunks(ServerAt) => InChunks(ServerAt)'
    BY <1>1, <1>2 DEF InChunks, SizeDue, InChunk
  <2>5. \/ Unread' /\ ServerAt' = 0
        \/ head' # <<>> /\ InSized' /\ ServerAt' = HeadLen(Writing') + Len(body')
        \/ head' # <<>> /\ InClose' /\ ServerAt' = HeadLen(Writing') + Len(body')
        \/ head' # <<>> /\ InChunks(ServerAt)'
    BY <2>2, <2>4, <1>1, <1>2 DEF Unread, InSized, InClose
  <2>6. Reading'
    BY <2>1, <2>2, <2>3, <2>5, <1>1 DEF Reading
  <2> QED
    BY <2>2, <2>6, <1>1, <1>3 DEF SInv
<1>4. CASE answer # <<>>
  <2>1. pc = "out" /\ ResponseExact /\ pending = <<>> /\ error = FALSE
    BY <1>4 DEF SInv
  <2>2. pc' = "out"
    BY <2>1 DEF TakeNothing
  <2>3. ResponseExact'
    BY <2>1, <2>2, <1>1, <1>2 DEF ResponseExact
  <2> QED
    BY <2>1, <2>2, <2>3, <1>1, <1>4 DEF SInv
<1> QED
  BY <1>3, <1>4

(* What both of a server's messages are, whatever its host has been told.  *)
LEMMA ServerSends ==
  ASSUME Sent, side = "server"
  PROVE  /\ Answers(Writing) /\ HeadLen(Writing) \in Nat
         /\ Writing.ends \in Nat \/ Writing.ends = None
         /\ Stream \in Seq(Tokens) /\ Len(Stream) \in Nat /\ pos \in Nat
<1>1. Answers(sending[1]) /\ Answers(sending[2]) /\ Writing = sending[1]
  <2>1. sending[1] \in First("server") /\ sending[2] \in Second("server")
    BY DEF Sent
  <2> QED
    BY <2>1, ServerMessages DEF Writing
<1>2. Well(sending[1]) /\ Well(sending[2])
  BY <1>1 DEF Answers
<1>3. Stream \in Seq(Tokens)
  BY <1>2, StreamFacts
<1>4. HeadLen(Writing) \in Nat
  BY <1>1, <1>2, WiredFacts
<1>5. pos \in Nat
  <2>1. Len(Stream) \in Nat
    BY <1>3
  <2> QED
    BY <2>1 DEF Sent
<1> QED
  BY <1>1, <1>3, <1>4, <1>5, EndsFacts

(* A server that has answered and not closed has written its response.     *)
LEMMA ServerTold ==
  ASSUME Sent, SInv, side = "server", answer # <<>>, ~closed
  PROVE  /\ pc = "out" /\ Writing.ends \in Nat
         /\ pos >= HeadLen(Writing) + Writing.ends
         /\ answer = <<[is |-> Writing.is, body |-> Writing.payload]>>
<1>1. pc = "out" /\ ResponseExact
  BY DEF SInv
<1>2. /\ Writing.ends # None /\ pos >= HeadLen(Writing) + Writing.ends
      /\ answer = <<[is |-> Writing.is, body |-> Writing.payload]>>
  BY <1>1 DEF ResponseExact, Writing
<1> QED
  BY <1>1, <1>2, ServerSends

(* The server writes.                                                      *)
LEMMA ServerWrites ==
  ASSUME Sent, SInv, side = "server", NEW n \in 1..Len(Stream), Write(n)
  PROVE  SInv'
<1>0. /\ pc = "out" /\ ~closed /\ pos + n <= Len(Stream) /\ pos' = pos + n
      /\ UNCHANGED <<side, sending, head, needed, mode, body, closed>>
      /\ UNCHANGED <<pending, error, answer>>
  BY DEF Write, told
<1>1. Writing' = Writing /\ Stream' = Stream
  BY <1>0 DEF Writing, Stream
<1>2. CASE answer # <<>>
  <2>1. /\ Writing.ends \in Nat /\ pos >= HeadLen(Writing) + Writing.ends
        /\ answer = <<[is |-> Writing.is, body |-> Writing.payload]>>
    BY <1>0, <1>2, ServerTold
  <2>2. pos' >= HeadLen(Writing) + Writing.ends
    <3>1. pos \in Nat /\ HeadLen(Writing) \in Nat /\ n \in Nat
      BY ServerSends
    <3> QED
      BY <2>1, <3>1, <1>0
  <2>3. pc' = pc
    BY <1>2 DEF Write
  <2>4. Writing.ends # None
    BY <2>1 DEF None
  <2>5. ResponseExact'
    BY <2>1, <2>2, <2>4, <1>0, <1>1 DEF ResponseExact, Writing
  <2>6. pending' = <<>> /\ error' = FALSE
    BY <1>0 DEF SInv
  <2> QED
    BY <2>3, <2>5, <2>6, <1>0, <1>2 DEF SInv
<1>3. CASE answer = <<>>
  <2>1. buf' = buf \o SubSeq(Stream, pos + 1, pos + n) /\ pc' = "take"
    BY <1>3 DEF Write
  <2>2. /\ Stream \in Seq(Tokens) /\ pos \in 0..Len(Stream)
        /\ Len(Stream) \in Nat /\ pos \in Nat /\ ServerAt \in Nat
        /\ ServerAt \in 0..pos /\ n \in Nat
        /\ buf = SubSeq(Stream, ServerAt + 1, pos)
    BY <1>3, ServerState
  <2>3. buf' = SubSeq(Stream, ServerAt + 1, pos + n)
    BY <2>1, <2>2, <1>0, Grow
  <2>4. Len(buf') = (pos + n) - ServerAt
    <3>1. pos + n \in 0..Len(Stream) /\ ServerAt \in 0..(pos + n)
      BY <2>2, <1>0
    <3> QED
      BY <3>1, <2>2, <2>3, Rest
  <2>5. ServerAt' = ServerAt
    <3>1. ServerAt' = pos' - Len(buf')
      BY DEF ServerAt
    <3> QED
      BY <3>1, <2>2, <2>4, <1>0
  <2>6. Buffered(ServerAt)'
    <3>1. ServerAt \in 0..(pos + n)
      BY <2>2
    <3> QED
      BY <3>1, <2>3, <2>5, <1>0, <1>1 DEF Buffered
  <2>7. \/ Unread /\ ServerAt = 0
        \/ head # <<>> /\ InSized /\ ServerAt = HeadLen(Writing) + Len(body)
        \/ head # <<>> /\ InClose /\ ServerAt = HeadLen(Writing) + Len(body)
        \/ head # <<>> /\ InChunks(ServerAt)
    BY <1>3 DEF SInv, Reading
  <2>8. InChunks(ServerAt) => InChunks(ServerAt)'
    BY <2>5, <1>0, <1>1 DEF InChunks, SizeDue, InChunk
  <2>9. InClose /\ ServerAt = HeadLen(Writing) + Len(body) => InClose'
    <3>1. ServerAt <= pos'
      BY <2>2, <1>0
    <3> QED
      BY <3>1, <1>0, <1>1 DEF InClose
  <2>10. \/ Unread' /\ ServerAt' = 0
         \/ head' # <<>> /\ InSized' /\ ServerAt' = HeadLen(Writing') + Len(body')
         \/ head' # <<>> /\ InClose' /\ ServerAt' = HeadLen(Writing') + Len(body')
         \/ head' # <<>> /\ InChunks(ServerAt)'
    BY <2>5, <2>7, <2>8, <2>9, <1>0, <1>1 DEF Unread, InSized
  <2>11. ServerWaits' /\ pending' = <<>> /\ error' = FALSE
    BY <2>1, <1>0 DEF ServerWaits, SInv
  <2>12. Reading'
    BY <2>6, <2>10, <2>11, <1>0 DEF Reading
  <2> QED
    BY <2>11, <2>12, <1>0, <1>3 DEF SInv
<1> QED
  BY <1>2, <1>3

(* The server closes: what has come is the response, if it may end so.     *)
LEMMA ServerCloses ==
  ASSUME Sent, SInv, Close
  PROVE  SInv'
<1>0. /\ side = "server" /\ pc = "out" /\ ~closed /\ closed' = TRUE
      /\ UNCHANGED <<side, sending, pos, pc, pending, error>>
      /\ answer' = IF answer # <<>> THEN answer
                   ELSE IF Finishes THEN <<[is |-> "response", body |-> body]>>
                   ELSE <<[is |-> "error", body |-> <<>>]>>
  BY DEF Close
<1>1. Writing' = Writing /\ Stream' = Stream
  BY <1>0 DEF Writing, Stream
<1>2. answer' # <<>>
  BY <1>0
<1>3. pending' = <<>> /\ error' = FALSE
  BY <1>0 DEF SInv
<1>4. ResponseExact'
  <2>1. CASE answer # <<>>
    <3>1. /\ Writing.ends \in Nat /\ pos >= HeadLen(Writing) + Writing.ends
          /\ answer = <<[is |-> Writing.is, body |-> Writing.payload]>>
      BY <1>0, <2>1, ServerTold
    <3>2. Writing.ends # None
      BY <3>1 DEF None
    <3> QED
      BY <3>1, <3>2, <2>1, <1>0, <1>1 DEF ResponseExact, Writing
  <2>2. CASE answer = <<>>
    <3>1. HeadLen(Writing) \in Nat /\ pos \in Nat
      BY <1>0, ServerSends
    <3>2. CASE Writing.ends # None
      <4>1. /\ Writing.ends \in Nat /\ pos < HeadLen(Writing) + Writing.ends
            /\ ~Finishes
        BY <3>2, <2>2, <1>0, ServerShort
      <4>2. ~(pos >= HeadLen(Writing) + Writing.ends)
        BY <4>1, <3>1
      <4>3. answer' = <<[is |-> "error", body |-> <<>>]>>
        BY <4>1, <2>2, <1>0
      <4> QED
        BY <4>2, <4>3, <3>2, <1>0, <1>1 DEF ResponseExact, Writing
    <3>3. CASE Writing.ends = None
      <4>1. IF pos >= HeadLen(Writing)
              THEN Finishes /\ body = SubSeq(Stream, HeadLen(Writing) + 1, pos)
              ELSE ~Finishes
        BY <3>3, <2>2, <1>0, ServerShort
      <4>2. answer' = IF pos >= HeadLen(Writing)
                        THEN <<[is |-> "response",
                                body |-> SubSeq(Stream, HeadLen(Writing) + 1, pos)]>>
                        ELSE <<[is |-> "error", body |-> <<>>]>>
        BY <4>1, <2>2, <1>0
      <4> QED
        BY <4>2, <3>3, <1>0, <1>1 DEF ResponseExact, Writing
    <3> QED
      BY <3>2, <3>3
  <2> QED
    BY <2>1, <2>2
<1> QED
  BY <1>0, <1>2, <1>3, <1>4 DEF SInv

(* The server's invariant is inductive: the client's steps are not its.    *)
LEMMA SStep ==
  ASSUME Sent, SInv, [Next]_vars
  PROVE  SInv'
<1>0. CASE side = "client"
  <2>1. side' = "client"
    BY <1>0 DEF Next, vars, Client, Server, ResolveGiven, ResolveAlias, Connect,
            Askable, Write, TakeNothing, TakeRequestHead, TakeBadRequest,
            TakeRequest, TakeStatus, TakeBadStatus, TakeSized, TakeChunkBytes,
            TakeBlank, TakeSize, TakeLastSize, TakeBadSize, TakeToClose, Taking,
            Close
  <2> QED
    BY <2>1 DEF SInv
<1>1. CASE side = "server"
  <2>0. \/ \E n \in 1..Len(Stream) : Write(n)
        \/ Server \/ Close
        \/ /\ UNCHANGED <<side, sending, pos, parsing, told, closed>>
           /\ pc' = pc \/ TakeNothing
    <3>1. ~Client
      BY <1>1 DEF Client, TakeRequestHead, TakeBadRequest, TakeRequest, Taking
    <3>2. ASSUME NEW n, NEW a, ResolveGiven(n, a) \/ ResolveAlias(n)
          PROVE  FALSE
      BY <3>2, <1>1 DEF ResolveGiven, ResolveAlias, Askable
    <3>3. ASSUME NEW a, NEW h, Connect(a, h)
          PROVE  FALSE
      BY <3>3, <1>1 DEF Connect
    <3>4. TakeNothing => UNCHANGED <<side, sending, pos, parsing, told, closed>>
      BY DEF TakeNothing
    <3>5. UNCHANGED vars =>
            UNCHANGED <<side, sending, pos, pc, parsing, told, closed>>
      BY DEF vars
    <3> QED
      BY <3>1, <3>2, <3>3, <3>4, <3>5 DEF Next
  <2> QED
    BY <2>0, <1>1, ServerWrites, ServerCloses, ServerReturns, TakeStatusKeeps,
       TakeBadStatusKeeps, TakeSizedKeeps, TakeChunkBytesKeeps, TakeBlankKeeps,
       TakeSizeKeeps, TakeLastSizeKeeps, TakeBadSizeKeeps, TakeToCloseKeeps
    DEF Server
<1> QED
  BY <1>0, <1>1 DEF Sent

(* A server that has written nothing.                                      *)
LEMMA SInit ==
  ASSUME Init, side = "server"
  PROVE  Sent /\ SInv
<1>0. /\ sending \in First(side) \X Second(side)
      /\ pos = 0 /\ pc = "out"
      /\ buf = <<>> /\ head = <<>> /\ needed = 0 /\ mode = "none" /\ body = <<>>
      /\ pending = <<>> /\ error = FALSE /\ answer = <<>> /\ closed = FALSE
  BY DEF Init
<1>1. Stream \in Seq(Tokens) /\ Len(Stream) \in Nat
  <2>1. sending[1] \in First("server") /\ sending[2] \in Second("server")
    BY <1>0
  <2>2. Well(sending[1]) /\ Well(sending[2])
    BY <2>1, ServerMessages DEF Answers
  <2>3. Stream \in Seq(Tokens)
    BY <2>2, StreamFacts
  <2> QED
    BY <2>3
<1>2. Sent
  BY <1>0, <1>1 DEF Sent, Init
<1>3. ServerAt = 0
  <2>1. Len(buf) = 0 /\ pos = 0
    BY <1>0
  <2> QED
    BY <2>1 DEF ServerAt
<1>4. Buffered(ServerAt)
  <2>1. SubSeq(Stream, 0 + 1, 0) = <<>>
    <3>1. 0 \in 0..Len(Stream)
      BY <1>1
    <3> QED
      BY <3>1, <1>1, EmptySub
  <2> QED
    BY <2>1, <1>0, <1>3 DEF Buffered
<1>5. ServerWaits
  BY <1>0, NoHead DEF ServerWaits
<1>6. Unread
  BY <1>0 DEF Unread
<1> QED
  BY <1>0, <1>2, <1>3, <1>4, <1>5, <1>6 DEF SInv, Reading

-----------------------------------------------------------------------------
(* What the two halves come to.                                            *)

(* The parsers keep their invariant: the buffer is what has been written   *)
(* and not yet taken, and what is kept of the message being parsed is what *)
(* the sender wrote up to there.                                           *)
THEOREM ParsersInvariance == Spec => [](Sent /\ CInv /\ SInv)
<1>1. Init => Sent /\ CInv /\ SInv
  <2> SUFFICES ASSUME Init PROVE Sent /\ CInv /\ SInv
    OBVIOUS
  <2>1. CASE side = "client"
    <3>1. SInv
      BY <2>1 DEF SInv
    <3> QED
      BY <2>1, <3>1, CInit
  <2>2. CASE side = "server"
    <3>1. CInv
      BY <2>2 DEF CInv
    <3> QED
      BY <2>2, <3>1, SInit
  <2> QED
    BY <2>1, <2>2 DEF Init
<1>2. Sent /\ CInv /\ SInv /\ [Next]_vars => (Sent /\ CInv /\ SInv)'
  BY SentStep, CStep, SStep
<1> QED
  BY <1>1, <1>2, PTL DEF Spec

(* Between two of its guest's calls, the requests the client has parsed    *)
(* are those whose last byte has been written, in order, each with its own *)
(* host and body; and the connection is poisoned as soon as the head of a  *)
(* message that is no request is in, and not before.                       *)
THEOREM RequestsRight == Spec => []RequestsExact
<1>1. Sent /\ CInv /\ SInv => RequestsExact
  BY ClientExact
<1> QED
  BY <1>1, ParsersInvariance, PTL

(* Between two of its guest's calls, a server's host has been told the     *)
(* whole response if its last byte has been written, an error if the guest *)
(* closed before that, and nothing otherwise: by length, in chunks and to  *)
(* the close.                                                              *)
THEOREM ResponsesRight == Spec => []ResponseExact
<1>1. Sent /\ CInv /\ SInv => ResponseExact
  BY ServerExact
<1> QED
  BY <1>1, ParsersInvariance, PTL

(* Each parsed request asks for the host its sender named, or for none.    *)
LEMMA HostsKept ==
  ASSUME Sent, CInv, SInv
  PROVE  HostsParsed
<1>1. CASE side = "client"
  BY <1>1 DEF CInv, Answered, HostsParsed
<1>2. CASE side = "server"
  <2>1. Len(pending) = 0
    BY <1>2 DEF SInv
  <2> QED
    BY <2>1 DEF HostsParsed
<1> QED
  BY <1>1, <1>2 DEF Sent

(* A request goes to the host that it names, and one that names none goes  *)
(* to what its guest meant when it connected, however the writes were cut  *)
(* and however many names have been resolved since: for any use of an      *)
(* address that the embedder's resolver has not answered.  Of one that it  *)
(* has, it may go to another name that was given that address, and to no   *)
(* further one.                                                            *)
THEOREM OriginsRight == Spec => []RightOrigin
<1>1. NInv /\ HostsParsed => RightOrigin
  <2> SUFFICES ASSUME NInv, HostsParsed, NEW i \in 1..Len(pending)
               PROVE  PlannedHost(pending[i]) \in
                        IF sending[i].host # 0 THEN {Host(sending[i].host)}
                        ELSE StandsFor(addr[1], meant[1])
    BY DEF RightOrigin
  <2>1. AsksFor(pending[i]) = sending[i].host
    BY DEF HostsParsed
  <2>2. CASE sending[i].host # 0
    BY <2>1, <2>2 DEF AsksFor, PlannedHost
  <2>3. CASE sending[i].host = 0
    <3>1. pending[i].target = 0 /\ pending[i].host = 0
      BY <2>1, <2>3 DEF AsksFor
    <3>2. addr # <<>>
      BY DEF NInv, Parsed
    <3>3. NameOf(addr[1]) \in StandsFor(addr[1], meant[1])
      <4>1. CASE \E p \in gave : addr[1] = p[2] /\ meant[1] = Host(p[1])
        BY <4>1, Stands
      <4>2. CASE addr[1] = meant[1] /\ addr[1] \in {Literal, Host(1)}
        <5>1. CASE addr[1] \in DOMAIN names
          <6>1. PICK q \in gave : q[2] = addr[1] /\ q[1] = names[addr[1]]
            BY <5>1 DEF NInv, Entries
          <6>2. q[3] = "resolver"
            BY <6>1, <4>2, KindsApart DEF NInv, Kept
          <6> QED
            BY <6>1, <6>2, <5>1 DEF StandsFor, Resolved, NameOf
        <5>2. CASE addr[1] \notin DOMAIN names
          BY <4>2, <5>2 DEF NameOf, StandsFor, Resolved, NInv, Table
        <5> QED
          BY <5>1, <5>2
      <4> QED
        BY <3>2, <4>1, <4>2 DEF NInv, Dialled
    <3> QED
      BY <2>3, <3>1, <3>3 DEF PlannedHost
  <2> QED
    BY <2>2, <2>3
<1>2. Sent /\ CInv /\ SInv => HostsParsed
  BY HostsKept
<1> QED
  BY <1>1, <1>2, NamingInvariance, ParsersInvariance, PTL
=============================================================================
