--------------------------- MODULE AccountsProofs ---------------------------
(***************************************************************************)
(* Proofs about Accounts, for any keys, names, amounts, expiries, numbers  *)
(* of requests, donations and restarts.                                    *)
(***************************************************************************)
EXTENDS Accounts, SequenceTheorems, TLAPS

----------------------------------------------------------------------------
(* Rows.                                                                   *)

\* Accounts: some of the keys have one.
Users == DOMAIN user \subseteq Keys /\ user \in [DOMAIN user -> User]

\* A new row is well typed.
LEMMA NewUserType ==
    /\ NewUser \in User /\ NewUser.username = "none"
    /\ NewUser.donate_amount = 0
  BY DEF NewUser, User

\* Writing one row keeps the table well typed and the other rows.
LEMMA InsertRow ==
    ASSUME Users, NEW k \in Keys, NEW row \in User, user' = Insert(user, k, row)
    PROVE  /\ Users' /\ DOMAIN user' = DOMAIN user \cup {k} /\ user'[k] = row
           /\ \A j \in DOMAIN user : j # k => user'[j] = user[j]
  BY DEF Insert, Users

\* Writing one field of a row changes that field only.
LEMMA RowWithName ==
    ASSUME NEW row \in User, NEW n \in Names \cup {"none"}
    PROVE  LET new == [row EXCEPT !.username = n]
           IN  /\ new \in User /\ new.username = n
               /\ new.donate_amount = row.donate_amount
  BY DEF User

\* ... the password likewise.
LEMMA RowWithPassword ==
    ASSUME NEW row \in User, NEW b \in BOOLEAN
    PROVE  LET new == [row EXCEPT !.password = b]
           IN  /\ new \in User /\ new.username = row.username
               /\ new.donate_amount = row.donate_amount
  BY DEF User

\* ... and the sum of the donations.
LEMMA RowWithDonation ==
    ASSUME NEW row \in User, NEW n \in Nat
    PROVE  LET new == [row EXCEPT !.donate_amount = n]
           IN  /\ new \in User /\ new.username = row.username
               /\ new.donate_amount = n
  BY DEF User

\* What a handler under way has of its type.
LEMMA HandlerFields ==
    ASSUME NEW h \in Handler
    PROVE  /\ h.pc \in {"idle", "insert", "update"}
           /\ h.pc \in {"insert", "update"} => h.pubkey \in Keys /\ h.wants \in Wants
           /\ h.pc = "update" => h.seen \in User
  BY DEF Handler, Idle

\* What a request wants has the fields of its kind.
LEMMA WantsFields ==
    ASSUME NEW want \in Wants
    PROVE  /\ want.kind = "username" => want.username \in Names \cup {"none"}
           /\ want.kind = "lndhub" => want.disable \in BOOLEAN
  BY DEF Wants

\* The records of handlers are well typed.
LEMMA HandlerRecords ==
    ASSUME NEW k \in Keys, NEW want \in Wants
    PROVE  /\ Idle \in Handler /\ Idle.pc = "idle"
           /\ LET h == [pc |-> "insert", pubkey |-> k, wants |-> want]
              IN  h \in Handler /\ h.pc = "insert"
           /\ \A row \in User :
                LET h == [pc |-> "update", pubkey |-> k, wants |-> want,
                          seen |-> row]
                IN  /\ h \in Handler /\ h.pc = "update"
                    /\ h.pubkey = k /\ h.seen = row
  BY DEF Handler, Idle

\* The donation at the head of the list.
LEMMA OwedGift ==
    ASSUME AccountsAssumption, owed \in [Keys -> Seq(Gifts)],
           NEW k \in Keys, owed[k] # <<>>
    PROVE  /\ Head(owed[k]) \in Nat /\ Head(owed[k]) \in Gifts
           /\ [owed EXCEPT ![k] = Tail(@)] \in [Keys -> Seq(Gifts)]
<1>1. owed[k] \in Seq(Gifts)
  OBVIOUS
<1>2. Head(owed[k]) \in Gifts /\ Tail(owed[k]) \in Seq(Gifts)
  BY <1>1, HeadTailProperties
<1> QED
  BY <1>2 DEF AccountsAssumption

\* A list that has grown.
LEMMA OneMore ==
    ASSUME NEW S, NEW s \in Seq(S), NEW e \in S
    PROVE  Append(s, e) \in Seq(S) /\ Append(s, e) # <<>>
<1>1. Append(s, e) \in Seq(S) /\ Len(Append(s, e)) = Len(s) + 1
  OBVIOUS
<1>2. Len(s) \in Nat /\ Len(<<>>) = 0
  OBVIOUS
<1> QED
  BY <1>1, <1>2

----------------------------------------------------------------------------
(* Type correctness.                                                       *)

\* The row a handler has read is still there, and no donation has been taken
\* from it since.
SeenOK ==
    \A w \in Workers : handler[w].pc = "update" =>
        /\ handler[w].pubkey \in DOMAIN user
        /\ handler[w].seen.donate_amount
                <= user[handler[w].pubkey].donate_amount

\* The task creates an account for a donation that is not credited.
CreditingOK == \A k \in crediting : owed[k] # <<>>

Inv == TypeOK /\ SeenOK /\ CreditingOK

\* The initial states.
LEMMA InitInv == ASSUME AccountsAssumption, Init PROVE Inv
<1>1. DOMAIN user = {}
  BY DEF Init
<1>2. \A w \in Workers : handler[w] = Idle
  BY DEF Init
<1>3. Idle.pc = "idle" /\ Idle \in Handler
  BY DEF Idle, Handler
<1>4. <<>> \in Seq(Gifts)
  OBVIOUS
<1>5. TypeOK
  <2>1. user \in [DOMAIN user -> User] /\ NamesAreUnique
    BY <1>1 DEF Init, NamesAreUnique
  <2> QED
    BY <1>1, <1>3, <1>4, <2>1 DEF Init, TypeOK
<1> QED
  BY <1>2, <1>3, <1>5 DEF Inv, SeenOK, CreditingOK, Init

\* A handler that stops, or begins to create its account, has read nothing.
LEMMA HandlerForgets ==
    ASSUME Inv, NEW w \in Workers, NEW h \in Handler, h.pc # "update",
           handler' = [handler EXCEPT ![w] = h],
           DOMAIN user \subseteq DOMAIN user',
           \A k \in DOMAIN user :
                user'[k].donate_amount = user[k].donate_amount
    PROVE  handler' \in [Workers -> Handler] /\ SeenOK'
<1>1. handler' \in [Workers -> Handler]
  BY DEF Inv, TypeOK
<1>2. ASSUME NEW v \in Workers, handler'[v].pc = "update"
      PROVE  handler[v].pc = "update" /\ handler'[v] = handler[v]
  BY <1>2 DEF Inv, TypeOK
<1> QED
  BY <1>1, <1>2 DEF Inv, SeenOK

\* A handler that has read its row, or created it.
LEMMA HandlerReads ==
    ASSUME Inv, NEW w \in Workers, NEW h \in Handler, h.pc = "update",
           handler' = [handler EXCEPT ![w] = h], Users',
           DOMAIN user \subseteq DOMAIN user',
           \A k \in DOMAIN user : user'[k] = user[k],
           h.pubkey \in DOMAIN user', h.seen = user'[h.pubkey]
    PROVE  handler' \in [Workers -> Handler] /\ SeenOK'
<1>1. handler' \in [Workers -> Handler]
  BY DEF Inv, TypeOK
<1>2. handler'[w] = h /\ \A v \in Workers \ {w} : handler'[v] = handler[v]
  BY DEF Inv, TypeOK
<1>3. user'[h.pubkey].donate_amount \in Nat
  BY DEF Users, User
<1>4. h.seen.donate_amount <= user'[h.pubkey].donate_amount
  BY <1>3
<1>5. ASSUME NEW v \in Workers, handler'[v].pc = "update"
      PROVE  /\ handler'[v].pubkey \in DOMAIN user'
             /\ handler'[v].seen.donate_amount
                    <= user'[handler'[v].pubkey].donate_amount
  <2>1. CASE v = w
    BY <1>2, <1>4, <2>1
  <2>2. CASE v # w
    BY <1>2, <1>5, <2>2 DEF Inv, SeenOK
  <2> QED
    BY <2>1, <2>2
<1> QED
  BY <1>1, <1>5 DEF SeenOK

\* The invariant after a step of a handler, by its parts.
LEMMA HandlerInv ==
    ASSUME Inv, Users', NamesAreUnique', SeenOK',
           handler' \in [Workers -> Handler],
           requests' \in Nat, UNCHANGED <<token, rest>>
    PROVE  Inv'
  BY DEF Inv, TypeOK, rest, CreditingOK, Users

\* Accounts that stay as they are.
LEMMA SameRows ==
    ASSUME Inv, UNCHANGED user
    PROVE  Users' /\ NamesAreUnique'
  BY DEF Inv, TypeOK, Users, NamesAreUnique

\* ... and after a step that leaves the accounts and the handlers alone.
LEMMA FrameInv ==
    ASSUME Inv, UNCHANGED <<user, handler, requests>>, CreditingOK',
           token' \in [Keys -> Int], crediting' \subseteq Keys,
           owed' \in [Keys -> Seq(Gifts)], given' \in [Keys -> Nat],
           whitelist' \subseteq Keys, left' \in [Keys -> Nat],
           clock' \in Nat, arrived' \in Nat, restarts' \in Nat
    PROVE  Inv'
<1>1. SeenOK'
  BY DEF Inv, SeenOK
<1>2. NamesAreUnique'
  BY DEF Inv, TypeOK, NamesAreUnique
<1> QED
  BY <1>1, <1>2 DEF Inv, TypeOK

\* The end of a handler that has written one field of its row.
LEMMA HandlerEnds ==
    ASSUME Inv, NEW w \in Workers, Ends(w), Users',
           DOMAIN user' = DOMAIN user, NamesAreUnique',
           \A k \in DOMAIN user :
                user'[k].donate_amount = user[k].donate_amount
    PROVE  Inv'
<1>1. Idle \in Handler /\ Idle.pc = "idle"
  BY DEF Idle, Handler
<1>2. handler' \in [Workers -> Handler] /\ SeenOK'
  BY <1>1, HandlerForgets DEF Ends
<1> QED
  BY <1>2, HandlerInv DEF Ends, Inv, TypeOK

\* Crediting a donation adds it to the donor's sum and to nothing else.
LEMMA CreditInv ==
    ASSUME AccountsAssumption, Inv, NEW k \in Keys, owed[k] # <<>>,
           crediting' = {}, Credit(k)
    PROVE  /\ Inv'
           /\ DOMAIN user' = DOMAIN user \cup {k}
           /\ given' = [given EXCEPT ![k] = @ + Head(owed[k])]
           /\ Head(owed[k]) \in Nat
           /\ \A j \in DOMAIN user \ {k} : user'[j] = user[j]
           /\ user'[k].username
                    = IF k \in DOMAIN user THEN user[k].username ELSE "none"
           /\ user'[k].donate_amount = Head(owed[k])
                    + IF k \in DOMAIN user THEN user[k].donate_amount ELSE 0
<1> DEFINE gift == Head(owed[k])
           row  == IF k \in DOMAIN user THEN user[k] ELSE NewUser
           new  == [row EXCEPT !.donate_amount = @ + gift]
<1>1. gift \in Nat /\ [owed EXCEPT ![k] = Tail(@)] \in [Keys -> Seq(Gifts)]
  BY OwedGift DEF Inv, TypeOK
<1>2. /\ row \in User
      /\ row.username = IF k \in DOMAIN user THEN user[k].username ELSE "none"
      /\ row.donate_amount
                = IF k \in DOMAIN user THEN user[k].donate_amount ELSE 0
  BY NewUserType DEF Inv, TypeOK
<1>3. row.donate_amount + gift \in Nat
  BY <1>1, <1>2 DEF User
<1>4. /\ new \in User /\ new.username = row.username
      /\ new.donate_amount = row.donate_amount + gift
  <2> HIDE DEF row, gift
  <2> QED
    BY <1>2, <1>3, RowWithDonation
<1>5. user' = Insert(user, k, new) /\ Users
  BY DEF Credit, Inv, TypeOK, Users
<1>6. /\ Users' /\ DOMAIN user' = DOMAIN user \cup {k} /\ user'[k] = new
      /\ \A j \in DOMAIN user : j # k => user'[j] = user[j]
  <2> HIDE DEF new
  <2> QED
    BY <1>4, <1>5, InsertRow
<1> HIDE DEF new, row
<1>7. NamesAreUnique'
  <2> SUFFICES ASSUME NEW i \in DOMAIN user', NEW j \in DOMAIN user',
                      user'[i].username = user'[j].username,
                      user'[i].username # "none"
               PROVE  i = j
    BY DEF NamesAreUnique
  <2>1. /\ i \in DOMAIN user /\ user'[i].username = user[i].username
        /\ j \in DOMAIN user /\ user'[j].username = user[j].username
    BY <1>2, <1>4, <1>6
  <2> QED
    BY <2>1 DEF Inv, TypeOK, NamesAreUnique
<1>8. SeenOK'
  <2> SUFFICES ASSUME NEW w \in Workers, handler[w].pc = "update"
               PROVE  /\ handler[w].pubkey \in DOMAIN user'
                      /\ handler[w].seen.donate_amount
                            <= user'[handler[w].pubkey].donate_amount
    BY DEF SeenOK, Credit
  <2>1. /\ handler[w].pubkey \in DOMAIN user /\ handler[w].seen \in User
        /\ handler[w].seen.donate_amount
                <= user[handler[w].pubkey].donate_amount
    BY HandlerFields DEF Inv, SeenOK, TypeOK
  <2>2. CASE handler[w].pubkey = k
    BY <1>1, <1>2, <1>4, <1>6, <2>1, <2>2 DEF User
  <2>3. CASE handler[w].pubkey # k
    BY <1>6, <2>1, <2>3
  <2> QED
    BY <2>2, <2>3
<1>9. TypeOK'
  <2>1. /\ owed' \in [Keys -> Seq(Gifts)]
        /\ given' \in [Keys -> Nat]
    <3>1. given[k] + gift \in Nat /\ given \in [Keys -> Nat]
      <4>1. given \in [Keys -> Nat]
        BY DEF Inv, TypeOK
      <4> HIDE DEF gift
      <4> QED
        BY <1>1, <4>1
    <3>2. given' = [given EXCEPT ![k] = @ + gift]
      BY DEF Credit
    <3> HIDE DEF gift
    <3> QED
      BY <1>1, <3>1, <3>2 DEF Credit
  <2> QED
    BY <1>6, <1>7, <2>1 DEF Credit, Inv, TypeOK, Users
<1>10. Inv'
  BY <1>8, <1>9 DEF Inv, CreditingOK
<1>11. given' = [given EXCEPT ![k] = @ + Head(owed[k])]
  BY DEF Credit
<1>12. /\ user'[k].username
                = IF k \in DOMAIN user THEN user[k].username ELSE "none"
       /\ user'[k].donate_amount
                = gift + IF k \in DOMAIN user THEN user[k].donate_amount ELSE 0
  <2> DEFINE sum == IF k \in DOMAIN user THEN user[k].donate_amount ELSE 0
  <2>1. sum \in Nat /\ row.donate_amount = sum
    BY <1>2 DEF User
  <2> HIDE DEF sum, gift
  <2>2. new.donate_amount = gift + sum
    BY <1>1, <1>4, <2>1
  <2> QED
    BY <1>2, <1>4, <1>6, <2>2 DEF sum
<1> QED
  BY <1>1, <1>6, <1>10, <1>11, <1>12

\* Every step keeps the types, and what handlers have seen.
LEMMA StepInv ==
    ASSUME AccountsAssumption, Inv, [Next]_vars
    PROVE  Inv'
<1>0. Users
  BY DEF Users, Inv, TypeOK
<1> /\ token \in [Keys -> Int] /\ handler \in [Workers -> Handler]
    /\ crediting \subseteq Keys
    /\ owed \in [Keys -> Seq(Gifts)] /\ given \in [Keys -> Nat]
    /\ whitelist \subseteq Keys /\ left \in [Keys -> Nat]
    /\ clock \in Nat /\ requests \in Nat /\ arrived \in Nat
    /\ restarts \in Nat
  BY DEF Inv, TypeOK
<1> NamesAreUnique /\ SeenOK /\ CreditingOK
  BY DEF Inv, TypeOK
<1>1. ASSUME NEW w \in Workers, NEW k \in Keys, NEW want \in Wants,
             Select(w, k, want)
      PROVE  Inv'
  <2>1. CASE k \in DOMAIN user
    <3> DEFINE h == [pc |-> "update", pubkey |-> k, wants |-> want,
                     seen |-> user[k]]
    <3>1. h \in Handler /\ h.pc = "update" /\ h.pubkey = k /\ h.seen = user[k]
      <4>1. user[k] \in User
        BY <1>0, <2>1 DEF Users
      <4> QED
        BY <4>1, HandlerRecords
    <3>2. handler' = [handler EXCEPT ![w] = h] /\ UNCHANGED user
      BY <1>1, <2>1 DEF Select
    <3>3. handler' \in [Workers -> Handler] /\ SeenOK'
      <4> HIDE DEF h
      <4> QED
        BY <1>0, <2>1, <3>1, <3>2, HandlerReads DEF Users
    <3> QED
      BY <1>0, <1>1, <3>2, <3>3, SameRows, HandlerInv DEF Select
  <2>2. CASE k \notin DOMAIN user
    <3> DEFINE h == [pc |-> "insert", pubkey |-> k, wants |-> want]
    <3>1. h \in Handler /\ h.pc = "insert"
      BY HandlerRecords
    <3>2. handler' = [handler EXCEPT ![w] = h] /\ UNCHANGED user
      BY <1>1, <2>2 DEF Select
    <3>3. handler' \in [Workers -> Handler] /\ SeenOK'
      <4> HIDE DEF h
      <4> QED
        BY <3>1, <3>2, HandlerForgets
    <3> QED
      BY <1>0, <1>1, <3>2, <3>3, SameRows, HandlerInv DEF Select
  <2> QED
    BY <2>1, <2>2
<1>2. ASSUME NEW w \in Workers, CreateUser(w)
      PROVE  Inv'
  <2> DEFINE k == handler[w].pubkey
  <2>1. k \in Keys /\ handler[w].wants \in Wants
    BY <1>2, HandlerFields DEF CreateUser
  <2>2. CASE k \in DOMAIN user
    <3>1. handler' = [handler EXCEPT ![w] = Idle] /\ UNCHANGED user
      BY <1>2, <2>2 DEF CreateUser
    <3>2. handler' \in [Workers -> Handler] /\ SeenOK'
      BY <2>1, <3>1, HandlerRecords, HandlerForgets
    <3> QED
      BY <1>0, <1>2, <3>1, <3>2, SameRows, HandlerInv DEF CreateUser
  <2>3. CASE k \notin DOMAIN user
    <3> DEFINE h == [pc |-> "update", pubkey |-> k,
                     wants |-> handler[w].wants, seen |-> NewUser]
    <3>1. h \in Handler /\ h.pc = "update" /\ h.pubkey = k /\ h.seen = NewUser
      BY <2>1, NewUserType, HandlerRecords
    <3>2. handler' = [handler EXCEPT ![w] = h] /\ user' = Insert(user, k, NewUser)
      BY <1>2, <2>3 DEF CreateUser
    <3>3. /\ Users' /\ DOMAIN user' = DOMAIN user \cup {k}
          /\ user'[k] = NewUser
          /\ \A j \in DOMAIN user : user'[j] = user[j]
      BY <1>0, <2>1, <2>3, <3>2, NewUserType, InsertRow
    <3>4. handler' \in [Workers -> Handler] /\ SeenOK'
      <4> HIDE DEF h
      <4> QED
        BY <3>1, <3>2, <3>3, HandlerReads
    <3>5. NamesAreUnique'
      BY <3>3, NewUserType DEF NamesAreUnique
    <3> QED
      BY <1>2, <3>3, <3>4, <3>5, HandlerInv DEF CreateUser
  <2> QED
    BY <2>2, <2>3
<1>3. ASSUME NEW w \in Workers, UpdateUsername(w)
      PROVE  Inv'
  <2> DEFINE k    == handler[w].pubkey
             name == handler[w].wants.username
             new  == [user[k] EXCEPT !.username = name]
  <2>1. k \in DOMAIN user /\ name \in Names \cup {"none"} /\ Ends(w)
    BY <1>3, HandlerFields, WantsFields DEF UpdateUsername, SeenOK
  <2>2. CASE user' = user
    BY <1>0, <2>1, <2>2, HandlerEnds DEF Users, NamesAreUnique
  <2>3. CASE user' # user
    <3>1. NameFree(name, k) /\ user' = [user EXCEPT ![k] = new]
      BY <1>3, <2>1, <2>3 DEF UpdateUsername
    <3>2. /\ new \in User /\ new.username = name
          /\ new.donate_amount = user[k].donate_amount
      <4>1. user[k] \in User
        BY <1>0, <2>1 DEF Users
      <4> HIDE DEF name, k
      <4> QED
        BY <2>1, <4>1, RowWithName
    <3> HIDE DEF new, name, k
    <3>3. /\ Users' /\ DOMAIN user' = DOMAIN user /\ user'[k] = new
          /\ \A j \in DOMAIN user : j # k => user'[j] = user[j]
      BY <1>0, <2>1, <3>1, <3>2 DEF Users
    <3>4. NamesAreUnique'
      BY <3>1, <3>2, <3>3, <2>1 DEF NamesAreUnique, NameFree
    <3> QED
      BY <2>1, <3>2, <3>3, <3>4, HandlerEnds
  <2> QED
    BY <2>2, <2>3
<1>4. ASSUME NEW w \in Workers, ResetLndhub(w)
      PROVE  Inv'
  <2> DEFINE k   == handler[w].pubkey
             b   == ~handler[w].wants.disable
             new == [user[k] EXCEPT !.password = b]
  <2>1. k \in DOMAIN user /\ b \in BOOLEAN /\ Ends(w)
    BY <1>4, HandlerFields, WantsFields DEF ResetLndhub, SeenOK
  <2>2. user' = [user EXCEPT ![k] = new]
    BY <1>4 DEF ResetLndhub
  <2>3. /\ new \in User /\ new.username = user[k].username
        /\ new.donate_amount = user[k].donate_amount
    <3>1. user[k] \in User
      BY <1>0, <2>1 DEF Users
    <3> HIDE DEF b, k
    <3> QED
      BY <2>1, <3>1, RowWithPassword
  <2> HIDE DEF new, b, k
  <2>4. /\ Users' /\ DOMAIN user' = DOMAIN user /\ user'[k] = new
        /\ \A j \in DOMAIN user : j # k => user'[j] = user[j]
    BY <1>0, <2>1, <2>2, <2>3 DEF Users
  <2>5. NamesAreUnique'
    BY <2>1, <2>3, <2>4 DEF NamesAreUnique
  <2> QED
    BY <2>1, <2>3, <2>4, <2>5, HandlerEnds
<1>5. ASSUME NEW w \in Workers, LnurlUser(w)
      PROVE  Inv'
  BY <1>0, <1>5, HandlerEnds DEF LnurlUser, Users, NamesAreUnique
<1>6. ASSUME NEW k \in Keys, Auth(k)
      PROVE  Inv'
  <2>1. token' \in [Keys -> Int]
    <3> DEFINE until == Later(token[k], Later(clock + Refresh, clock + Access))
    <3>1. until \in Int
      <4>1. token[k] \in Int /\ clock + Refresh \in Int /\ clock + Access \in Int
        BY DEF AccountsAssumption
      <4> QED
        BY <4>1 DEF Later
    <3>2. token' = [token EXCEPT ![k] = until]
      BY <1>6 DEF Auth, Issue
    <3> HIDE DEF until
    <3> QED
      BY <3>1, <3>2
  <2> QED
    BY <1>6, <2>1, FrameInv DEF Auth, Issue, rest, CreditingOK
<1>7. ASSUME NEW k \in Keys, NEW gift \in Gifts, DonationArrives(k, gift)
      PROVE  Inv'
  <2>1. Append(owed[k], gift) \in Seq(Gifts) /\ Append(owed[k], gift) # <<>>
    BY <1>7, OneMore
  <2>2. /\ owed' \in [Keys -> Seq(Gifts)] /\ owed'[k] # <<>>
        /\ \A j \in Keys \ {k} : owed'[j] = owed[j]
    BY <1>7, <2>1 DEF DonationArrives
  <2> QED
    BY <1>7, <2>2, FrameInv DEF DonationArrives, CreditingOK
<1>8. ASSUME NEW k \in Keys, SyncDonation(k)
      PROVE  Inv'
  <2>1. CASE k \in DOMAIN user
    BY <1>8, <2>1, CreditInv DEF SyncDonation
  <2>2. CASE k \notin DOMAIN user
    BY <1>8, <2>2, FrameInv DEF SyncDonation, CreditingOK
  <2> QED
    BY <2>1, <2>2
<1>9. ASSUME NEW k \in Keys, CreateDonor(k)
      PROVE  Inv'
  <2>1. CASE k \notin DOMAIN user
    BY <1>9, <2>1, CreditInv DEF CreateDonor, CreditingOK
  <2>2. CASE k \in DOMAIN user
    BY <1>9, <2>2, FrameInv DEF CreateDonor, CreditingOK
  <2> QED
    BY <2>1, <2>2
<1>10. ASSUME Tick
       PROVE  Inv'
  <2>1. left' \in [Keys -> Nat] /\ clock' \in Nat
    BY <1>10 DEF Tick
  <2> QED
    BY <1>10, <2>1, FrameInv DEF Tick, CreditingOK
<1>11. ASSUME NEW allowed \in SUBSET Keys, Restart(allowed)
       PROVE  Inv'
  <2>1. Idle \in Handler /\ Idle.pc = "idle"
    BY DEF Idle, Handler
  <2>2. /\ \A w \in Workers : handler'[w] = Idle
        /\ handler' \in [Workers -> Handler]
    BY <1>11, <2>1 DEF Restart
  <2>3. left' \in [Keys -> Nat] /\ crediting' = {}
    BY <1>11 DEF Restart
  <2>4. SeenOK' /\ CreditingOK'
    BY <2>1, <2>2, <2>3 DEF SeenOK, CreditingOK
  <2>5. NamesAreUnique' /\ Users'
    BY <1>11, SameRows DEF Restart
  <2>6. restarts' \in Nat /\ whitelist' \subseteq Keys
    BY <1>11 DEF Restart
  <2>7. UNCHANGED <<token, owed, clock, requests, arrived, given>>
    BY <1>11 DEF Restart
  <2> QED
    BY <2>2, <2>3, <2>4, <2>5, <2>6, <2>7 DEF Inv, TypeOK, Users
<1>12. ASSUME UNCHANGED vars
       PROVE  Inv'
  BY <1>12, FrameInv DEF vars, CreditingOK
<1> QED
  BY <1>1, <1>2, <1>3, <1>4, <1>5, <1>6, <1>7, <1>8, <1>9, <1>10, <1>11, <1>12
     DEF Next, Task

\* The state keeps its type, and the indexes their meaning.
THEOREM AccountsTypeCorrect == Spec => []TypeOK
<1>1. Spec => []Inv
  <2>1. Init => Inv
    BY InitInv, AccountsAssumption
  <2>2. Inv /\ [Next]_vars => Inv'
    BY StepInv, AccountsAssumption
  <2> QED
    BY <2>1, <2>2, PTL DEF Spec
<1>2. Inv => TypeOK
  BY DEF Inv
<1> QED
  BY <1>1, <1>2, PTL

----------------------------------------------------------------------------
(* The names and the sums of the accounts.                                 *)

\* A step writes a name that update_username admits for the donations the
\* account has, or credits a donation, or changes neither names nor sums.
SameSums ==
    /\ \A k \in Keys :
        /\ k \in DOMAIN user =>
            /\ k \in DOMAIN user'
            /\ user'[k].username = user[k].username
            /\ user'[k].donate_amount = user[k].donate_amount
        /\ k \in DOMAIN user' /\ k \notin DOMAIN user =>
            /\ user'[k].username = "none" /\ user'[k].donate_amount = 0
    /\ UNCHANGED given

Renames(k, name, donated) ==
    /\ k \in DOMAIN user /\ user' = [user EXCEPT ![k].username = name]
    /\ name \in Names \cup {"none"} /\ NameAllowed(name, donated)
    /\ donated \in Nat /\ donated <= user[k].donate_amount
    /\ UNCHANGED given

Credits(k, gift) ==
    /\ gift \in Nat
    /\ DOMAIN user' = DOMAIN user \cup {k}
    /\ given' = [given EXCEPT ![k] = @ + gift]
    /\ \A j \in DOMAIN user \ {k} : user'[j] = user[j]
    /\ user'[k].username
            = IF k \in DOMAIN user THEN user[k].username ELSE "none"
    /\ user'[k].donate_amount
            = gift + IF k \in DOMAIN user THEN user[k].donate_amount ELSE 0

\* Every step is of one of these kinds.
LEMMA StepKinds ==
    ASSUME AccountsAssumption, Inv, [Next]_vars
    PROVE  \/ SameSums
           \/ \E k \in Keys, name \in Names \cup {"none"}, donated \in Nat :
                Renames(k, name, donated)
           \/ \E k \in Keys, gift \in Nat : Credits(k, gift)
<1>0. Users
  BY DEF Inv, TypeOK, Users
<1>1. ASSUME UNCHANGED <<user, given>>
      PROVE  SameSums
  BY <1>1 DEF SameSums
<1>2. ASSUME NEW w \in Workers, CreateUser(w)
      PROVE  SameSums
  <2>1. handler[w].pubkey \in Keys /\ UNCHANGED given
    BY <1>2, HandlerFields DEF CreateUser, rest, Inv, TypeOK
  <2>2. CASE handler[w].pubkey \in DOMAIN user
    BY <1>2, <2>1, <2>2 DEF CreateUser, SameSums
  <2>3. CASE handler[w].pubkey \notin DOMAIN user
    <3>1. user' = Insert(user, handler[w].pubkey, NewUser)
      BY <1>2, <2>3 DEF CreateUser
    <3>2. /\ DOMAIN user' = DOMAIN user \cup {handler[w].pubkey}
          /\ user'[handler[w].pubkey] = NewUser
          /\ \A j \in DOMAIN user : user'[j] = user[j]
      BY <1>0, <2>1, <2>3, <3>1, NewUserType, InsertRow
    <3> QED
      BY <2>1, <3>2, NewUserType DEF SameSums
  <2> QED
    BY <2>2, <2>3
<1>3. ASSUME NEW w \in Workers, UpdateUsername(w)
      PROVE  \/ SameSums
             \/ \E k \in Keys, name \in Names \cup {"none"}, donated \in Nat :
                    Renames(k, name, donated)
  <2> DEFINE k == handler[w].pubkey
             name == handler[w].wants.username
             donated == handler[w].seen.donate_amount
  <2>1. /\ k \in DOMAIN user /\ k \in Keys /\ name \in Names \cup {"none"}
        /\ handler[w].seen \in User /\ donated <= user[k].donate_amount
        /\ UNCHANGED given
    BY <1>3, HandlerFields, WantsFields
       DEF UpdateUsername, Ends, rest, SeenOK, Inv, TypeOK
  <2>2. donated \in Nat
    BY <2>1 DEF User
  <2>3. CASE user' = user
    BY <1>1, <2>1, <2>3
  <2>4. CASE user' # user
    <3>1. Renames(k, name, donated)
      BY <1>3, <2>1, <2>2, <2>4 DEF UpdateUsername, Renames
    <3> QED
      BY <2>1, <2>2, <3>1
  <2> QED
    BY <2>3, <2>4
<1>4. ASSUME NEW w \in Workers, ResetLndhub(w)
      PROVE  SameSums
  <2> DEFINE k   == handler[w].pubkey
             b   == ~handler[w].wants.disable
             new == [user[k] EXCEPT !.password = b]
  <2>1. k \in DOMAIN user /\ b \in BOOLEAN /\ UNCHANGED given
    BY <1>4, HandlerFields, WantsFields
       DEF ResetLndhub, Ends, rest, SeenOK, Inv, TypeOK
  <2>2. user' = [user EXCEPT ![k] = new]
    BY <1>4 DEF ResetLndhub
  <2>3. /\ new.username = user[k].username
        /\ new.donate_amount = user[k].donate_amount
    <3>1. user[k] \in User
      BY <1>0, <2>1 DEF Users
    <3> HIDE DEF b, k
    <3> QED
      BY <2>1, <3>1, RowWithPassword
  <2> HIDE DEF new, k, b
  <2> QED
    BY <2>1, <2>2, <2>3 DEF SameSums
<1>5. ASSUME NEW k \in Keys, SyncDonation(k)
      PROVE  SameSums \/ \E gift \in Nat : Credits(k, gift)
  <2>1. CASE k \in DOMAIN user
    BY <1>5, <2>1, CreditInv DEF SyncDonation, Credits
  <2>2. CASE k \notin DOMAIN user
    BY <1>1, <1>5, <2>2 DEF SyncDonation
  <2> QED
    BY <2>1, <2>2
<1>6. ASSUME NEW k \in Keys, CreateDonor(k)
      PROVE  SameSums \/ \E gift \in Nat : Credits(k, gift)
  <2>1. CASE k \notin DOMAIN user
    BY <1>6, <2>1, CreditInv DEF CreateDonor, CreditingOK, Credits, Inv
  <2>2. CASE k \in DOMAIN user
    BY <1>1, <1>6, <2>2 DEF CreateDonor
  <2> QED
    BY <2>1, <2>2
<1>7. ASSUME \/ \E w \in Workers :
                  \/ \E k \in Keys, want \in Wants : Select(w, k, want)
                  \/ LnurlUser(w)
             \/ \E k \in Keys : Auth(k)
             \/ \E k \in Keys, gift \in Gifts : DonationArrives(k, gift)
             \/ Tick \/ \E allowed \in SUBSET Keys : Restart(allowed)
             \/ UNCHANGED vars
      PROVE  UNCHANGED <<user, given>>
  BY <1>7 DEF Select, LnurlUser, Ends, Auth, Issue, rest, DonationArrives, Tick,
              Restart, vars
<1> QED
  BY <1>1, <1>2, <1>3, <1>4, <1>5, <1>6, <1>7 DEF Next, Task

\* What each key has donated is what its account says.
LEMMA DonatedStep ==
    ASSUME AccountsAssumption, Inv, DonatedIsKept, [Next]_vars
    PROVE  DonatedIsKept'
<1>0. Users /\ given \in [Keys -> Nat] /\ Users'
  BY StepInv DEF Inv, TypeOK, Users
<1>1. CASE SameSums
  BY <1>0, <1>1 DEF SameSums, DonatedIsKept, Users
<1>2. ASSUME NEW k \in Keys, NEW name \in Names \cup {"none"}, NEW donated \in Nat,
             Renames(k, name, donated)
      PROVE  DonatedIsKept'
  <2> DEFINE new == [user[k] EXCEPT !.username = name]
  <2>1. user' = [user EXCEPT ![k] = new] /\ k \in DOMAIN user
    BY <1>2 DEF Renames
  <2>2. new.donate_amount = user[k].donate_amount
    BY <1>0, <1>2, <2>1, RowWithName DEF Users
  <2> HIDE DEF new
  <2> QED
    BY <1>2, <2>1, <2>2 DEF Renames, DonatedIsKept
<1>3. ASSUME NEW k \in Keys, NEW gift \in Nat, Credits(k, gift)
      PROVE  DonatedIsKept'
  <2> DEFINE sum == IF k \in DOMAIN user THEN user[k].donate_amount ELSE 0
  <2>1. given[k] = sum /\ sum \in Nat
    BY <1>0 DEF DonatedIsKept
  <2>2. given'[k] = given[k] + gift /\ \A j \in Keys \ {k} : given'[j] = given[j]
    BY <1>0, <1>3 DEF Credits
  <2>3. k \in DOMAIN user' /\ user'[k].donate_amount = gift + sum
    BY <1>3 DEF Credits
  <2> HIDE DEF sum
  <2>4. given'[k] = user'[k].donate_amount
    BY <2>1, <2>2, <2>3
  <2> QED
    BY <1>3, <2>2, <2>3, <2>4 DEF Credits, DonatedIsKept
<1> QED
  BY <1>1, <1>2, <1>3, StepKinds

\* Whoever updates an account meanwhile, no donation is lost or counted twice.
THEOREM DonationsKept == Spec => []DonatedIsKept
<1>1. Init => Inv /\ DonatedIsKept
  BY InitInv, AccountsAssumption DEF Init, DonatedIsKept
<1>2. Inv /\ DonatedIsKept /\ [Next]_vars => (Inv /\ DonatedIsKept)'
  BY StepInv, DonatedStep, AccountsAssumption
<1> QED
  BY <1>1, <1>2, PTL DEF Spec

\* A name that is admitted is one that /v1/info announces.
LEMMA AdmittedIsAnnounced ==
    ASSUME AccountsAssumption, RestrictUsername, NEW name \in Names,
           NEW donated \in Nat, NEW sum \in Nat, donated <= sum,
           NameAllowed(name, donated)
    PROVE  \E i \in DOMAIN Amounts :
                sum >= Amounts[i] /\ Chars[name] >= username_chars[i]
<1>1. PICK i \in DOMAIN Amounts :
            donated >= Amounts[i] /\ Chars[name] >= MinChars(i)
  BY DEF NameAllowed, Level, LongEnough, AccountsAssumption
<1>2. username_chars[i] = MinChars(i)
  BY DEF username_chars, MinChars
<1>3. Amounts[i] \in Nat
  BY DEF AccountsAssumption
<1> QED
  BY <1>1, <1>2, <1>3

\* The names that are held stay announced as donations grow.
LEMMA NamesStep ==
    ASSUME AccountsAssumption, Inv, HeldNamesAreAllowed, [Next]_vars
    PROVE  HeldNamesAreAllowed'
<1> SUFFICES ASSUME RestrictUsername
             PROVE  \A j \in DOMAIN user' : user'[j].username # "none" =>
                        \E i \in DOMAIN Amounts :
                            /\ user'[j].donate_amount >= Amounts[i]
                            /\ Chars[user'[j].username] >= username_chars[i]
  BY DEF HeldNamesAreAllowed
<1>0. Users /\ Users' /\ \A i \in DOMAIN Amounts : Amounts[i] \in Nat
  <2>1. Inv'
    BY StepInv
  <2>2. Users /\ Users'
    BY <2>1 DEF Inv, TypeOK, Users
  <2> QED
    BY <2>2 DEF AccountsAssumption
<1> DEFINE Fine(j) == user[j].username # "none" =>
                        \E i \in DOMAIN Amounts :
                            /\ user[j].donate_amount >= Amounts[i]
                            /\ Chars[user[j].username] >= username_chars[i]
           FineNext(j) == user'[j].username # "none" =>
                        \E i \in DOMAIN Amounts :
                            /\ user'[j].donate_amount >= Amounts[i]
                            /\ Chars[user'[j].username] >= username_chars[i]
<1>1. \A j \in DOMAIN user : Fine(j)
  BY DEF HeldNamesAreAllowed
<1>2. CASE SameSums
  <2> SUFFICES ASSUME NEW j \in DOMAIN user' PROVE FineNext(j)
    OBVIOUS
  <2>1. CASE j \in DOMAIN user
    <3>1. /\ user'[j].username = user[j].username
          /\ user'[j].donate_amount = user[j].donate_amount
      BY <1>0, <1>2, <2>1 DEF SameSums, Users
    <3> QED
      BY <1>1, <2>1, <3>1
  <2>2. CASE j \notin DOMAIN user
    <3>1. user'[j].username = "none"
      BY <1>0, <1>2, <2>2 DEF SameSums, Users
    <3> QED
      BY <3>1
  <2> QED
    BY <2>1, <2>2
<1>3. ASSUME NEW k \in Keys, NEW name \in Names \cup {"none"}, NEW donated \in Nat,
             Renames(k, name, donated)
      PROVE  \A j \in DOMAIN user' : FineNext(j)
  <2> DEFINE new == [user[k] EXCEPT !.username = name]
  <2>1. user' = [user EXCEPT ![k] = new] /\ k \in DOMAIN user
    BY <1>3 DEF Renames
  <2>2. /\ user[k] \in User /\ new.username = name
        /\ new.donate_amount = user[k].donate_amount
    BY <1>0, <1>3, <2>1, RowWithName DEF Users
  <2> HIDE DEF new
  <2>3. user'[k] = new /\ \A j \in DOMAIN user' \ {k} :
                                j \in DOMAIN user /\ user'[j] = user[j]
    BY <2>1
  <2>4. ASSUME name # "none"
        PROVE  \E i \in DOMAIN Amounts :
                    /\ user[k].donate_amount >= Amounts[i]
                    /\ Chars[name] >= username_chars[i]
    <3>1. user[k].donate_amount \in Nat
      BY <2>2 DEF User
    <3> QED
      BY <1>3, <2>4, <3>1, AdmittedIsAnnounced DEF Renames
  <2>5. FineNext(k)
    BY <2>2, <2>3, <2>4
  <2> QED
    BY <1>1, <2>3, <2>5
<1>4. ASSUME NEW k \in Keys, NEW gift \in Nat, Credits(k, gift)
      PROVE  \A j \in DOMAIN user' : FineNext(j)
  <2>1. FineNext(k)
    <3>1. CASE k \in DOMAIN user
      <4>1. /\ user'[k].username = user[k].username
            /\ user'[k].donate_amount = gift + user[k].donate_amount
            /\ user[k].donate_amount \in Nat
        BY <1>0, <1>4, <3>1 DEF Credits, Users, User
      <4>2. \A i \in DOMAIN Amounts : user[k].donate_amount >= Amounts[i]
                => user'[k].donate_amount >= Amounts[i]
        BY <1>0, <4>1
      <4> QED
        BY <1>1, <3>1, <4>1, <4>2
    <3>2. CASE k \notin DOMAIN user
      BY <1>4, <3>2 DEF Credits
    <3> QED
      BY <3>1, <3>2
  <2>2. \A j \in DOMAIN user' \ {k} : j \in DOMAIN user /\ user'[j] = user[j]
    BY <1>4 DEF Credits
  <2> QED
    BY <1>1, <2>1, <2>2
<1> QED
  BY <1>2, <1>3, <1>4, StepKinds

\* Every name that is held is one the service has announced for the donations
\* of its account, whatever the amounts, their order and the races.
THEOREM NamesHeldAreAllowed == Spec => []HeldNamesAreAllowed
<1>1. Init => Inv /\ HeldNamesAreAllowed
  BY InitInv, AccountsAssumption DEF Init, HeldNamesAreAllowed
<1>2. Inv /\ HeldNamesAreAllowed /\ [Next]_vars => (Inv /\ HeldNamesAreAllowed)'
  BY StepInv, NamesStep, AccountsAssumption
<1> QED
  BY <1>1, <1>2, PTL DEF Spec

----------------------------------------------------------------------------
(* Tokens and the whitelist.                                               *)

\* What bounds the tokens: `left` does not run ahead, and follows the clock
\* for a key that is admitted.
TokenBound ==
    \A k \in Keys :
        /\ token[k] <= left[k] + Later(Refresh, Access)
        /\ left[k] <= clock
        /\ check_permission(k) => left[k] = clock

\* The bound holds from the first state on.
LEMMA TokenBoundInit ==
    ASSUME AccountsAssumption, Init
    PROVE  TokenBound
  BY DEF Init, TokenBound, Later, check_permission, Admits, AccountsAssumption

\* ... and every step keeps it.
LEMMA TokenBoundStep ==
    ASSUME AccountsAssumption, Inv, TokenBound, [Next]_vars
    PROVE  TokenBound'
<1> DEFINE most == Later(Refresh, Access)
<1>0. /\ token \in [Keys -> Int] /\ left \in [Keys -> Nat] /\ clock \in Nat
      /\ most \in Nat /\ Access \in Nat /\ Refresh \in Nat
  BY DEF Inv, TypeOK, Later, AccountsAssumption
<1>1. ASSUME NEW k \in Keys, Auth(k)
      PROVE  TokenBound'
  <2>1. left[k] = clock /\ UNCHANGED <<left, clock, whitelist>>
    BY <1>1 DEF Auth, Issue, rest, TokenBound
  <2>2. token' = [token EXCEPT ![k] =
                    Later(token[k], Later(clock + Refresh, clock + Access))]
    BY <1>1 DEF Auth, Issue
  <2>3. Later(clock + Refresh, clock + Access) = clock + most
    BY <1>0 DEF Later
  <2>4. token[k] <= clock + most /\ token[k] \in Int
    BY <1>0, <2>1 DEF TokenBound
  <2>5. token'[k] <= left'[k] + most
    <3> HIDE DEF most
    <3> QED
      BY <1>0, <2>1, <2>2, <2>3, <2>4 DEF Later
  <2>6. \A j \in Keys \ {k} : token'[j] = token[j]
    BY <1>0, <2>2
  <2> QED
    BY <2>1, <2>5, <2>6 DEF TokenBound, check_permission
<1>2. ASSUME Tick
      PROVE  TokenBound'
  <2> SUFFICES ASSUME NEW k \in Keys
               PROVE  /\ token'[k] <= left'[k] + most /\ left'[k] <= clock'
                      /\ check_permission(k)' => left'[k] = clock'
    BY DEF TokenBound
  <2>1. /\ token[k] <= left[k] + most /\ left[k] <= clock
        /\ check_permission(k) => left[k] = clock
    BY DEF TokenBound
  <2>2. left'[k] = IF check_permission(k) THEN clock + 1 ELSE left[k]
    BY <1>2 DEF Tick
  <2>3. clock' = clock + 1 /\ UNCHANGED <<whitelist, token>>
    BY <1>2 DEF Tick
  <2> HIDE DEF most
  <2> QED
    BY <1>0, <2>1, <2>2, <2>3 DEF check_permission
<1>3. ASSUME NEW allowed \in SUBSET Keys, Restart(allowed)
      PROVE  TokenBound'
  <2> SUFFICES ASSUME NEW k \in Keys
               PROVE  /\ token'[k] <= left'[k] + most /\ left'[k] <= clock'
                      /\ check_permission(k)' => left'[k] = clock'
    BY DEF TokenBound
  <2>1. token[k] <= left[k] + most /\ left[k] <= clock
    BY DEF TokenBound
  <2>2. left'[k] = IF Admits(allowed, k) THEN clock ELSE left[k]
    BY <1>3 DEF Restart
  <2>3. whitelist' = allowed /\ UNCHANGED <<clock, token>>
    BY <1>3 DEF Restart
  <2> HIDE DEF most
  <2> QED
    BY <1>0, <2>1, <2>2, <2>3 DEF check_permission
<1>4. ASSUME UNCHANGED <<token, left, clock, whitelist>>
      PROVE  TokenBound'
  BY <1>4 DEF TokenBound, check_permission
<1>5. ASSUME \/ \E w \in Workers :
                  \/ \E k \in Keys, want \in Wants : Select(w, k, want)
                  \/ CreateUser(w) \/ UpdateUsername(w) \/ ResetLndhub(w)
                  \/ LnurlUser(w)
             \/ \E k \in Keys, gift \in Gifts : DonationArrives(k, gift)
             \/ Task \/ UNCHANGED vars
      PROVE  UNCHANGED <<token, left, clock, whitelist>>
  BY <1>5 DEF Select, CreateUser, UpdateUsername, ResetLndhub, LnurlUser, Ends,
              rest, DonationArrives, Task, SyncDonation, CreateDonor, Credit, vars
<1> QED
  BY <1>1, <1>2, <1>3, <1>4, <1>5 DEF Next

\* A key that is taken off the whitelist is locked out when the longer expiry
\* has passed, however its tokens have been refreshed.
THEOREM KeysAreLockedOut == Spec => []LockedOut
<1>1. Init => Inv /\ TokenBound
  BY InitInv, TokenBoundInit, AccountsAssumption
<1>2. Inv /\ TokenBound /\ [Next]_vars => (Inv /\ TokenBound)'
  BY StepInv, TokenBoundStep, AccountsAssumption
<1>3. Inv /\ TokenBound => LockedOut
  <2> SUFFICES ASSUME Inv, TokenBound, NEW k \in Keys, TokenValid(k)
               PROVE  clock <= left[k] + Later(Refresh, Access)
    BY DEF LockedOut
  <2>1. /\ clock <= token[k] /\ token[k] <= left[k] + Later(Refresh, Access)
        /\ clock \in Nat /\ token[k] \in Int /\ left[k] \in Nat
    BY DEF TokenValid, TokenBound, Inv, TypeOK
  <2>2. Later(Refresh, Access) \in Nat
    BY AccountsAssumption DEF Later, AccountsAssumption
  <2> QED
    BY <2>1, <2>2
<1> QED
  BY <1>1, <1>2, <1>3, PTL DEF Spec
=============================================================================
