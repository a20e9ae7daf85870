--------------------------- MODULE IdentitiesProofs ---------------------------
(***************************************************************************)
(* Proofs about module Identities, for any number of accounts, names,      *)
(* addresses, codes and concurrent requests.                               *)
(***************************************************************************)
EXTENDS Identities, TLAPS

\* What the handlers know of a claim: it names what it is about, and if it can no
\* longer be granted, it is marked.
Formed(claim) ==
  /\ claim.kind = "register" =>
       claim.account = NoAccount /\ claim.name \in Name /\ claim.email \in Email
  /\ claim.kind = "bind" => claim.account \in Account /\ Exists(claim.account) /\ claim.email \in Email
  /\ claim.kind = "local" => claim.name \in Name
Warned(claim) == (\E a \in Account : Blocks(a, account[a], claim)) => claim.rival

\* A code was spent for the claim.
Spent(claim) ==
  \E c \in Code : /\ phase[c] = "redeemed" /\ code[c].kind = claim.kind
                  /\ code[c].account = claim.account
                  /\ code[c].name = claim.name /\ code[c].email = claim.email

Known(slot) ==
  /\ Formed(slot.claim) /\ Warned(slot.claim)
  /\ slot.step = "redeemed" => slot.claim.kind \in {"register", "bind"} /\ Spent(slot.claim)
  /\ slot.step = "filed" => slot.claim.kind = "local"

ClaimsKnow ==
  /\ \A c \in Code : Formed(code[c]) /\ Warned(code[c])
  /\ \A r \in Request : Known(request[r])

\* What the two unique indexes keep.
NamesUnique ==
  \A a, b \in Account : a # b /\ Exists(a) => account[a].name # account[b].name
EmailsUnique ==
  \A a, b \in Account :
    a # b /\ account[a].email = account[b].email /\ account[a].email # NoEmail
      /\ account[a].status # "deleted" => account[b].status = "deleted"
ProvedIsEmail == \A a \in Account : account[a].proved => account[a].email \in Email

\* Only the command that wrote the file has it.
FileKnown == \A r \in Request : request[r].step = "filed" => file = r

IdInv ==
  /\ IdentitiesTypeOK /\ ClaimsKnow /\ NamesUnique /\ EmailsUnique /\ ProvedIsEmail
  /\ AddressProved /\ FileKnown

-----------------------------------------------------------------------------
\* A claim after a row was written: the same, and marked if the row blocks it now.
SameClaim(claim, new) ==
  /\ new \in Claim
  /\ new.kind = claim.kind /\ new.account = claim.account
  /\ new.name = claim.name /\ new.email = claim.email
  /\ claim.rival => new.rival

\* What a write of a row makes of a claim: it names the same, and is marked if the
\* row has come to block it.
LEMMA OvertakenFields ==
  ASSUME NEW claim \in Claim, NEW a \in Account, NEW row
  PROVE  /\ SameClaim(claim, Overtaken(claim, a, row))
         /\ Blocks(a, row, claim) /\ ~Blocks(a, account[a], claim) => Overtaken(claim, a, row).rival
  <1> DEFINE b == claim.rival \/ (Blocks(a, row, claim) /\ ~Blocks(a, account[a], claim))
  <1>1. Overtaken(claim, a, row) = [claim EXCEPT !.rival = b]
    BY Zenon DEF Overtaken
  <1>2. /\ b \in BOOLEAN /\ (claim.rival => b)
        /\ Blocks(a, row, claim) /\ ~Blocks(a, account[a], claim) => b
    BY Zenon
  <1> HIDE DEF b
  <1>3. /\ [claim EXCEPT !.rival = b] \in Claim /\ [claim EXCEPT !.rival = b].rival = b
        /\ [claim EXCEPT !.rival = b].kind = claim.kind
        /\ [claim EXCEPT !.rival = b].account = claim.account
        /\ [claim EXCEPT !.rival = b].name = claim.name
        /\ [claim EXCEPT !.rival = b].email = claim.email
    BY <1>2 DEF Claim
  <1> QED BY <1>1, <1>2, <1>3 DEF SameClaim

\* What a write of one users row does to accounts, codes and requests.
LEMMA PutFields ==
  ASSUME IdentitiesTypeOK, NEW a \in Account, NEW row \in User,
         NEW next \in [Request -> Slot], Put(a, row, next)
  PROVE  /\ account' \in [Account -> User] /\ account'[a] = row
         /\ \A b \in Account \ {a} : account'[b] = account[b]
         /\ code' \in [Code -> Claim] /\ request' \in [Request -> Slot]
         /\ \A c \in Code :
              /\ SameClaim(code[c], code'[c])
              /\ Blocks(a, row, code[c]) /\ ~Blocks(a, account[a], code[c]) => code'[c].rival
         /\ \A r \in Request :
              /\ request'[r].step = next[r].step
              /\ SameClaim(next[r].claim, request'[r].claim)
              /\ Blocks(a, row, next[r].claim) /\ ~Blocks(a, account[a], next[r].claim)
                   => request'[r].claim.rival
  <1>1. account' = [account EXCEPT ![a] = row]
    BY DEF Put
  <1>2. ASSUME NEW c \in Code
        PROVE  /\ code'[c] = Overtaken(code[c], a, row)
               /\ SameClaim(code[c], code'[c])
               /\ Blocks(a, row, code[c]) /\ ~Blocks(a, account[a], code[c]) => code'[c].rival
    <2>1. code'[c] = Overtaken(code[c], a, row)
      BY Zenon DEF Put
    <2>2. code[c] \in Claim
      BY DEF IdentitiesTypeOK
    <2> QED BY <2>1, <2>2, OvertakenFields
  <1>3. code' \in [Code -> Claim]
    <2>1. code' = [c \in Code |-> Overtaken(code[c], a, row)]
      BY DEF Put
    <2>2. \A c \in Code : Overtaken(code[c], a, row) \in Claim
      BY <1>2 DEF SameClaim
    <2> QED BY <2>1, <2>2, Zenon
  <1>4. ASSUME NEW r \in Request
        PROVE  /\ request'[r] = [next[r] EXCEPT !.claim = Overtaken(next[r].claim, a, row)]
               /\ request'[r] \in Slot
               /\ request'[r].step = next[r].step
               /\ SameClaim(next[r].claim, request'[r].claim)
               /\ Blocks(a, row, next[r].claim) /\ ~Blocks(a, account[a], next[r].claim)
                    => request'[r].claim.rival
    <2>1. request'[r] = [next[r] EXCEPT !.claim = Overtaken(next[r].claim, a, row)]
      BY Zenon DEF Put
    <2>2. next[r] \in Slot /\ next[r].claim \in Claim
      BY DEF Slot
    <2>3. PICK claim \in Claim : claim = Overtaken(next[r].claim, a, row)
      BY <2>2, OvertakenFields DEF SameClaim
    <2>4. request'[r] = [next[r] EXCEPT !.claim = claim]
      BY <2>1, <2>3
    <2>5. request'[r] \in Slot /\ request'[r].step = next[r].step /\ request'[r].claim = claim
      BY <2>2, <2>4 DEF Slot
    <2> QED BY <2>1, <2>2, <2>3, <2>5, OvertakenFields
  <1>5. request' \in [Request -> Slot]
    <2>1. request' = [r \in Request |-> [next[r] EXCEPT !.claim = Overtaken(next[r].claim, a, row)]]
      BY Zenon DEF Put
    <2>2. \A r \in Request : [next[r] EXCEPT !.claim = Overtaken(next[r].claim, a, row)] \in Slot
      BY <1>4
    <2> QED BY <2>1, <2>2, Zenon
  <1>6. account' \in [Account -> User] /\ account'[a] = row
        /\ \A b \in Account \ {a} : account'[b] = account[b]
    BY <1>1 DEF IdentitiesTypeOK
  <1> QED BY <1>2, <1>3, <1>4, <1>5, <1>6

-----------------------------------------------------------------------------
\* A step that writes the row of account a, which keeps its name or takes a free
\* one, and whose address is free and, if it is verified, was proved.
LEMMA PutStep ==
  ASSUME IdInv, NEW a \in Account, NEW row \in User, NEW next \in [Request -> Slot],
         Put(a, row, next), UNCHANGED phase,
         row.name # NoName, Exists(a) => row.name = account[a].name,
         ~Exists(a) => ~NameTaken(row.name),
         row.status # "deleted" => ~EmailTaken(row.email, a),
         row.proved => /\ row.email \in Email
                       /\ \E c \in Code :
                            /\ phase[c] = "redeemed" /\ code[c].email = row.email
                            /\ \/ code[c].kind = "bind" /\ code[c].account = a
                               \/ code[c].kind = "register" /\ code[c].name = row.name,
         \A r \in Request : next[r] = request[r] \/ next[r] = Free
  PROVE  ClaimsKnow' /\ NamesUnique' /\ EmailsUnique' /\ ProvedIsEmail' /\ AddressProved'
<1>1. /\ account' \in [Account -> User] /\ account'[a] = row
      /\ \A b \in Account \ {a} : account'[b] = account[b]
      /\ \A c \in Code :
           /\ SameClaim(code[c], code'[c])
           /\ Blocks(a, row, code[c]) /\ ~Blocks(a, account[a], code[c]) => code'[c].rival
      /\ \A r \in Request :
           /\ request'[r].step = next[r].step
           /\ SameClaim(next[r].claim, request'[r].claim)
           /\ Blocks(a, row, next[r].claim) /\ ~Blocks(a, account[a], next[r].claim)
                => request'[r].claim.rival
  BY PutFields DEF IdInv
<1>2. /\ account \in [Account -> User] /\ code \in [Code -> Claim] /\ request \in [Request -> Slot]
  BY DEF IdInv, IdentitiesTypeOK
<1>3. \A b \in Account : Exists(b) => Exists(b)' /\ account'[b].name = account[b].name
  BY <1>1 DEF Exists
<1>4. ASSUME NEW claim \in Claim, NEW new, SameClaim(claim, new), Formed(claim), Warned(claim),
             Blocks(a, row, claim) /\ ~Blocks(a, account[a], claim) => new.rival
      PROVE  Formed(new)' /\ Warned(new)'
  <2>1. Formed(new)'
    BY <1>3, <1>4 DEF Formed, SameClaim
  <2>2. ASSUME NEW b \in Account, Blocks(b, account'[b], new) PROVE new.rival
    <3>1. Blocks(b, account'[b], claim)
      BY <1>4, <2>2 DEF Blocks, SameClaim
    <3>2. CASE b = a
      BY <1>1, <1>4, <3>1, <3>2 DEF Warned, SameClaim
    <3>3. CASE b # a
      BY <1>1, <1>4, <3>1, <3>3 DEF Warned, SameClaim
    <3> QED BY <3>2, <3>3
  <2> QED BY <2>1, <2>2 DEF Warned, Blocks
<1>5. Free \in Slot /\ Free.step = "idle" /\ Free.claim = NoClaim /\ NoClaim \in Claim
      /\ NoClaim.kind = "none"
  BY DEF Free, Slot, NoClaim, Claim
<1>6. Formed(NoClaim) /\ Warned(NoClaim)
  BY <1>5 DEF Formed, Warned, Blocks
<1>7. \A c \in Code : Formed(code[c])' /\ Warned(code[c])'
  BY <1>1, <1>2, <1>4 DEF IdInv, ClaimsKnow
<1>8. ASSUME NEW claim, NEW new, Spent(claim), SameClaim(claim, new) PROVE Spent(new)'
  BY <1>1, <1>8 DEF Spent, SameClaim
<1>9. ASSUME NEW r \in Request PROVE Known(request[r])'
  <2>1. next[r] \in Slot /\ next[r].claim \in Claim
    BY DEF Slot
  <2>2. /\ Formed(next[r].claim) /\ Warned(next[r].claim)
        /\ next[r].step = "redeemed" => /\ next[r].claim.kind \in {"register", "bind"}
                                        /\ Spent(next[r].claim)
        /\ next[r].step = "filed" => next[r].claim.kind = "local"
    <3>1. CASE next[r] = request[r]
      BY <3>1 DEF IdInv, ClaimsKnow, Known
    <3>2. CASE next[r] = Free
      BY <1>5, <1>6, <3>2
    <3> QED BY <3>1, <3>2
  <2>3. Formed(request[r].claim)' /\ Warned(request[r].claim)'
    BY <1>1, <1>4, <2>1, <2>2
  <2>4. request'[r].step = "redeemed" => Spent(request[r].claim)'
    BY <1>1, <1>8, <2>2
  <2> QED BY <1>1, <2>2, <2>3, <2>4 DEF Known, SameClaim
<1>10. ClaimsKnow'
  BY <1>7, <1>9 DEF ClaimsKnow
<1>11. NamesUnique'
  BY <1>1 DEF IdInv, NamesUnique, Exists, NameTaken
<1>12. EmailsUnique'
  <2> SUFFICES ASSUME NEW x \in Account, NEW y \in Account, x # y,
                      account'[x].email = account'[y].email, account'[x].email # NoEmail,
                      account'[x].status # "deleted", account'[y].status # "deleted"
               PROVE  FALSE
    BY DEF EmailsUnique
  <2>1. CASE x = a
    BY <1>1, <2>1 DEF EmailTaken
  <2>2. CASE y = a
    BY <1>1, <2>2 DEF EmailTaken
  <2>3. CASE x # a /\ y # a
    BY <1>1, <2>3 DEF IdInv, EmailsUnique
  <2> QED BY <2>1, <2>2, <2>3
<1>13. ProvedIsEmail'
  BY <1>1 DEF IdInv, ProvedIsEmail
<1>14. AddressProved'
  <2> SUFFICES ASSUME NEW x \in Account, account'[x].proved
               PROVE  \E c \in Code :
                        /\ phase'[c] = "redeemed" /\ code'[c].email = account'[x].email
                        /\ \/ code'[c].kind = "bind" /\ code'[c].account = x
                           \/ code'[c].kind = "register" /\ code'[c].name = account'[x].name
    BY DEF AddressProved
  <2>1. CASE x = a
    BY <1>1, <2>1 DEF SameClaim
  <2>2. CASE x # a
    BY <1>1, <2>2 DEF IdInv, AddressProved, SameClaim
  <2> QED BY <2>1, <2>2
<1> QED BY <1>10, <1>11, <1>12, <1>13, <1>14

\* A step that leaves the users rows alone and at most writes one slot, or gives a
\* code that is not spent the claim of a request.
LEMMA RequestStep ==
  ASSUME IdInv, UNCHANGED account,
         \A c \in Code : phase[c] = "redeemed" => phase'[c] = "redeemed" /\ code'[c] = code[c],
         \A c \in Code : code'[c] = code[c] \/ \E r \in Request : code'[c] = request[r].claim,
         \A r \in Request : request'[r] = request[r] \/ Known(request[r])'
  PROVE  ClaimsKnow' /\ NamesUnique' /\ EmailsUnique' /\ ProvedIsEmail' /\ AddressProved'
<1>1. \A claim : (Formed(claim) => Formed(claim)') /\ (Warned(claim) => Warned(claim)')
  BY DEF Formed, Warned, Exists, Blocks
<1>2. \A claim : Spent(claim) => Spent(claim)'
  BY DEF Spent
<1>3. \A slot : Known(slot) => Known(slot)'
  BY <1>1, <1>2 DEF Known
<1>4. ClaimsKnow'
  <2>1. ASSUME NEW c \in Code PROVE Formed(code[c])' /\ Warned(code[c])'
    BY <1>1 DEF IdInv, ClaimsKnow, Known
  <2>2. ASSUME NEW r \in Request PROVE Known(request[r])'
    BY <1>3 DEF IdInv, ClaimsKnow
  <2> QED BY <2>1, <2>2 DEF ClaimsKnow
<1>5. NamesUnique' /\ EmailsUnique' /\ ProvedIsEmail'
  BY DEF IdInv, NamesUnique, EmailsUnique, ProvedIsEmail, Exists
<1>6. AddressProved'
  BY DEF IdInv, AddressProved
<1> QED BY <1>4, <1>5, <1>6

-----------------------------------------------------------------------------
\* Constants that the types and the assumptions fix.
LEMMA Constants ==
  /\ NoClaim \in Claim /\ NoClaim.kind = "none" /\ NoClaim.account = NoAccount
  /\ NoClaim.name = NoName /\ NoClaim.email = NoEmail
  /\ Free \in Slot /\ Free.step = "idle" /\ Free.claim = NoClaim
  /\ NoUser \in User /\ NoUser.name = NoName /\ NoUser.email = NoEmail
  /\ NoUser.proved = FALSE /\ NoUser.status = "active"
  BY DEF NoClaim, Claim, Free, Slot, NoUser, User

\* The life of a code keeps its types, and a code that was spent stays spent.
LEMMA CodeSteps ==
  ASSUME IdInv, Codes!Next
  PROVE  Codes!TypeOK' /\ \A c \in Code : phase[c] = "redeemed" => phase'[c] = "redeemed"
<1>1. Codes!TypeOK
  BY DEF IdInv, IdentitiesTypeOK
<1>2. ASSUME NEW c \in Code,
             Codes!Issue(c) \/ Codes!Activate(c) \/ Codes!Abandon(c) \/ Codes!Redeem(c)
      PROVE  Codes!TypeOK' /\ \A d \in Code : phase[d] = "redeemed" => phase'[d] = "redeemed"
  BY <1>1, <1>2 DEF Codes!Issue, Codes!Activate, Codes!Abandon, Codes!Redeem, Codes!Move, Codes!TypeOK
<1>3. ASSUME NEW c \in Code, Codes!Guess(c)
      PROVE  Codes!TypeOK' /\ \A d \in Code : phase[d] = "redeemed" => phase'[d] = "redeemed"
  BY <1>1, <1>3 DEF Codes!Guess, Codes!Move, Codes!TypeOK
<1>4. ASSUME NEW S \in SUBSET Code, Codes!Lapse(S)
      PROVE  Codes!TypeOK' /\ \A d \in Code : phase[d] = "redeemed" => phase'[d] = "redeemed"
  BY <1>1, <1>4 DEF Codes!Lapse, Codes!TypeOK
<1> QED BY <1>2, <1>3, <1>4 DEF Codes!Next

\* One slot gets a claim and a step, or is freed.
LEMMA SlotFields ==
  ASSUME request \in [Request -> Slot], NEW r \in Request, NEW slot \in Slot,
         request' = [request EXCEPT ![r] = slot]
  PROVE  /\ request' \in [Request -> Slot] /\ request'[r] = slot
         /\ \A q \in Request \ {r} : request'[q] = request[q]
  OBVIOUS

\* A step that only writes slot r, and may move the life of codes along.
LEMMA SlotStep ==
  ASSUME IdInv, UNCHANGED <<account, code>>, Codes!Next \/ UNCHANGED codes,
         NEW r \in Request, NEW slot \in Slot, request' = [request EXCEPT ![r] = slot],
         Known(slot)', file' \in Request \cup Account \cup {NoFile, Orphan}
  PROVE  /\ IdentitiesTypeOK' /\ ClaimsKnow' /\ NamesUnique' /\ EmailsUnique' /\ ProvedIsEmail'
         /\ AddressProved'
         /\ request'[r] = slot /\ \A q \in Request \ {r} : request'[q] = request[q]
<1>1. request \in [Request -> Slot] /\ Codes!TypeOK
  BY DEF IdInv, IdentitiesTypeOK
<1>2. Codes!TypeOK' /\ \A c \in Code : phase[c] = "redeemed" => phase'[c] = "redeemed"
  <2>1. CASE Codes!Next
    BY <2>1, CodeSteps
  <2>2. CASE UNCHANGED codes
    BY <1>1, <2>2 DEF codes, Codes!TypeOK
  <2> QED BY <2>1, <2>2
<1>3. /\ request' \in [Request -> Slot] /\ request'[r] = slot
      /\ \A q \in Request \ {r} : request'[q] = request[q]
  BY <1>1, SlotFields
<1>4. \A q \in Request : request'[q] = request[q] \/ Known(request[q])'
  BY <1>3
<1>5. ClaimsKnow' /\ NamesUnique' /\ EmailsUnique' /\ ProvedIsEmail' /\ AddressProved'
  BY <1>2, <1>4, RequestStep
<1>6. IdentitiesTypeOK'
  BY <1>2, <1>3 DEF IdInv, IdentitiesTypeOK
<1> QED BY <1>3, <1>5, <1>6

\* The handlers that look a claim up and give it to a slot.
LEMMA Checked ==
  ASSUME IdInv, NEW r \in Request, NEW claim \in Claim,
         Proceed(r, "checked", claim), Formed(claim), Warned(claim),
         request[r].step = "idle", UNCHANGED <<account, code, codes, file>>
  PROVE  IdInv'
<1> DEFINE slot == [step |-> "checked", claim |-> claim]
<1>1. slot \in Slot /\ slot.step = "checked" /\ slot.claim = claim
  BY DEF Slot
<1> HIDE DEF slot
<1>2. request' = [request EXCEPT ![r] = slot]
  BY DEF Proceed, slot
<1>3. Formed(claim)' /\ Warned(claim)'
  BY DEF Formed, Warned, Blocks, Exists
<1>4. Known(slot)'
  BY <1>1, <1>3 DEF Known
<1>5. file' \in Request \cup Account \cup {NoFile, Orphan}
  BY DEF IdInv, IdentitiesTypeOK
<1>6. /\ IdentitiesTypeOK' /\ ClaimsKnow' /\ NamesUnique' /\ EmailsUnique' /\ ProvedIsEmail'
      /\ AddressProved'
      /\ request'[r] = slot /\ \A q \in Request \ {r} : request'[q] = request[q]
  BY <1>1, <1>2, <1>4, <1>5, SlotStep
<1>7. FileKnown'
  BY <1>1, <1>6 DEF IdInv, FileKnown
<1> QED BY <1>6, <1>7 DEF IdInv

-----------------------------------------------------------------------------
\* Every step preserves IdInv: one case per action.
LEMMA IdentitiesStep == IdInv /\ [IdentitiesNext]_identityVars => IdInv'
<1> SUFFICES ASSUME IdInv, [IdentitiesNext]_identityVars PROVE IdInv'
  OBVIOUS
<1>a. /\ account \in [Account -> User] /\ code \in [Code -> Claim] /\ request \in [Request -> Slot]
      /\ file \in Request \cup Account \cup {NoFile, Orphan}
      /\ IdentitiesTypeOK /\ Codes!TypeOK
  BY DEF IdInv, IdentitiesTypeOK
<1>b. /\ NoAccount \notin Account /\ Name \cap Email = {}
      /\ NoName \notin Name /\ NoEmail \notin Email /\ NoName \notin Email /\ NoEmail \notin Name
      /\ Request \cap Account = {} /\ NoFile # Orphan
      /\ NoFile \notin Request /\ NoFile \notin Account /\ Orphan \notin Request
  BY IdentitiesAssumption
<1>c. ASSUME NEW r \in Request PROVE Ended(r) \in [Request -> Slot] /\ Ended(r)[r] = Free
                                     /\ \A q \in Request \ {r} : Ended(r)[q] = request[q]
  BY <1>a, Constants DEF Ended
\* A row is written, the file stays or is that of the slot that ends.
<1>p. ASSUME NEW a \in Account, NEW row \in User, NEW next \in [Request -> Slot],
             Put(a, row, next), UNCHANGED codes,
             row.name # NoName, Exists(a) => row.name = account[a].name,
             ~Exists(a) => ~NameTaken(row.name),
             row.status # "deleted" => ~EmailTaken(row.email, a),
             row.proved => /\ row.email \in Email
                           /\ \E c \in Code :
                                /\ phase[c] = "redeemed" /\ code[c].email = row.email
                                /\ \/ code[c].kind = "bind" /\ code[c].account = a
                                   \/ code[c].kind = "register" /\ code[c].name = row.name,
             \A r \in Request : next[r] = request[r] \/ next[r] = Free,
             file' \in Request \cup Account \cup {NoFile, Orphan},
             \A r \in Request : next[r].step = "filed" => file' = r
      PROVE  IdInv'
  <2>1. ClaimsKnow' /\ NamesUnique' /\ EmailsUnique' /\ ProvedIsEmail' /\ AddressProved'
    BY <1>p, PutStep DEF codes
  <2>2. /\ account' \in [Account -> User] /\ code' \in [Code -> Claim] /\ request' \in [Request -> Slot]
        /\ \A r \in Request : request'[r].step = next[r].step
    BY <1>a, <1>p, PutFields
  <2>3. Codes!TypeOK'
    BY <1>a, <1>p DEF codes, Codes!TypeOK
  <2> QED BY <1>p, <2>1, <2>2, <2>3 DEF IdInv, IdentitiesTypeOK, FileKnown
<1>1. CASE UNCHANGED identityVars
  <2>1. ClaimsKnow' /\ NamesUnique' /\ EmailsUnique' /\ ProvedIsEmail' /\ AddressProved'
    BY <1>1, RequestStep DEF identityVars
  <2> QED BY <1>1, <1>a, <2>1 DEF IdInv, IdentitiesTypeOK, FileKnown, identityVars, Codes!TypeOK
<1>2. ASSUME NEW a \in Account, NEW n \in Name, NEW e \in Email \cup {NoEmail}, CreateUser(a, n, e)
      PROVE  IdInv'
  <2> DEFINE row == [NoUser EXCEPT !.name = n, !.email = e]
  <2>1. row \in User /\ row.name = n /\ row.email = e /\ row.proved = FALSE
    BY DEF NoUser, User
  <2>2. Put(a, row, request) /\ ~Exists(a) /\ ~NameTaken(n) /\ ~EmailTaken(e, a) /\ UNCHANGED <<codes, file>>
    BY <1>2 DEF CreateUser
  <2> HIDE DEF row
  <2>3. \A r \in Request : request[r].step = "filed" => file' = r
    BY <2>2 DEF IdInv, FileKnown
  <2> QED BY <1>a, <1>b, <1>p, <2>1, <2>2, <2>3
<1>3. ASSUME NEW a \in Account, NEW to \in {"active", "disabled", "deleted"}, UpdateUserStatus(a, to)
      PROVE  IdInv'
  <2> DEFINE row == [account[a] EXCEPT !.status = to]
  <2>1. /\ row \in User /\ row.name = account[a].name /\ row.email = account[a].email
        /\ row.proved = account[a].proved /\ row.status = to
    BY <1>a DEF User
  <2>2. /\ Put(a, row, request) /\ Exists(a) /\ UNCHANGED <<codes, file>>
        /\ to # "deleted" => ~EmailTaken(account[a].email, a)
    BY <1>3 DEF UpdateUserStatus
  <2> HIDE DEF row
  <2>3. \A r \in Request : request[r].step = "filed" => file' = r
    BY <2>2 DEF IdInv, FileKnown
  <2>4. row.proved => /\ row.email \in Email
                      /\ \E c \in Code :
                           /\ phase[c] = "redeemed" /\ code[c].email = row.email
                           /\ \/ code[c].kind = "bind" /\ code[c].account = a
                              \/ code[c].kind = "register" /\ code[c].name = row.name
    BY <2>1 DEF IdInv, ProvedIsEmail, AddressProved
  <2>5. row.name # NoName
    BY <2>1, <2>2 DEF Exists
  <2> QED BY <1>a, <1>p, <2>1, <2>2, <2>3, <2>4, <2>5
<1>4. ASSUME NEW r \in Request, NEW n \in Name, NEW e \in Email, RegisterCode(r, n, e) PROVE IdInv'
  <2> DEFINE claim == [NoClaim EXCEPT !.kind = "register", !.name = n, !.email = e]
  <2>1. /\ claim \in Claim /\ claim.kind = "register" /\ claim.account = NoAccount
        /\ claim.name = n /\ claim.email = e
    BY DEF NoClaim, Claim
  <2>2. /\ Proceed(r, "checked", claim) /\ request[r].step = "idle"
        /\ ~NameTaken(n) /\ ~EmailTaken(e, NoAccount) /\ UNCHANGED <<account, code, codes, file>>
    BY <1>4 DEF RegisterCode
  <2> HIDE DEF claim
  <2>3. \A a \in Account : ~Blocks(a, account[a], claim)
    BY <1>b, <2>1, <2>2 DEF Blocks, NameTaken, EmailTaken
  <2> QED BY <2>1, <2>2, <2>3, Checked DEF Formed, Warned
<1>5. ASSUME NEW r \in Request, NEW a \in Account, NEW e \in Email, BindEmailCode(r, a, e) PROVE IdInv'
  <2> DEFINE claim == [NoClaim EXCEPT !.kind = "bind", !.account = a, !.email = e]
  <2>1. /\ claim \in Claim /\ claim.kind = "bind" /\ claim.account = a /\ claim.email = e
    BY DEF NoClaim, Claim
  <2>2. /\ Proceed(r, "checked", claim) /\ request[r].step = "idle" /\ Exists(a)
        /\ ~EmailTaken(e, a) /\ UNCHANGED <<account, code, codes, file>>
    BY <1>5 DEF BindEmailCode
  <2> HIDE DEF claim
  <2>3. \A b \in Account : ~Blocks(b, account[b], claim)
    BY <1>b, <2>1, <2>2 DEF Blocks, EmailTaken
  <2> QED BY <2>1, <2>2, <2>3, Checked DEF Formed, Warned
<1>6. ASSUME NEW r \in Request, NEW n \in Name, CheckLocal(r, n) PROVE IdInv'
  <2> DEFINE claim == [NoClaim EXCEPT !.kind = "local", !.name = n]
  <2>1. claim \in Claim /\ claim.kind = "local" /\ claim.name = n
    BY DEF NoClaim, Claim
  <2>2. /\ Proceed(r, "checked", claim) /\ request[r].step = "idle"
        /\ UNCHANGED <<account, code, codes, file>>
    BY <1>6 DEF CheckLocal
  <2> HIDE DEF claim
  <2> QED BY <2>1, <2>2, Checked DEF Formed, Warned, Blocks
<1>7. ASSUME NEW r \in Request, NEW c \in Code, EnqueueCode(r, c) PROVE IdInv'
  <2>1. /\ Codes!Issue(c) /\ code' = [code EXCEPT ![c] = request[r].claim]
        /\ request' = Ended(r) /\ UNCHANGED <<account, file>>
    BY <1>7 DEF EnqueueCode
  <2>2. /\ Codes!TypeOK' /\ phase[c] # "redeemed"
        /\ \A d \in Code : phase[d] = "redeemed" => phase'[d] = "redeemed"
    BY <2>1, CodeSteps DEF Codes!Next, Codes!Issue, Codes!Move
  <2>3. request[r].claim \in Claim
    BY <1>a DEF Slot
  <2>4. /\ code' \in [Code -> Claim] /\ request' \in [Request -> Slot]
        /\ \A d \in Code : code'[d] = code[d] \/ (d = c /\ code'[d] = request[r].claim)
        /\ request'[r] = Free /\ \A q \in Request \ {r} : request'[q] = request[q]
    BY <1>a, <1>c, <2>1, <2>3
  <2>5. Known(Free)'
    BY Constants DEF Known, Formed, Warned, Blocks
  <2>6. \A q \in Request : request'[q] = request[q] \/ Known(request[q])'
    BY <2>4, <2>5
  <2>7. ClaimsKnow' /\ NamesUnique' /\ EmailsUnique' /\ ProvedIsEmail' /\ AddressProved'
    BY <2>1, <2>2, <2>4, <2>6, RequestStep
  <2>8. IdentitiesTypeOK'
    BY <1>a, <2>1, <2>2, <2>4 DEF IdentitiesTypeOK
  <2>9. FileKnown'
    BY <2>1, <2>4, Constants DEF IdInv, FileKnown
  <2> QED BY <2>7, <2>8, <2>9 DEF IdInv
<1>8. CASE MailAndTime
  <2>1. Codes!Next /\ UNCHANGED <<account, code, request, file>>
    <3>1. \A c \in Code : {c} \in SUBSET Code
      OBVIOUS
    <3> QED BY <1>8, <3>1 DEF MailAndTime, Codes!Next
  <2>2. Codes!TypeOK' /\ \A c \in Code : phase[c] = "redeemed" => phase'[c] = "redeemed"
    BY <2>1, CodeSteps
  <2>3. ClaimsKnow' /\ NamesUnique' /\ EmailsUnique' /\ ProvedIsEmail' /\ AddressProved'
    BY <2>1, <2>2, RequestStep
  <2> QED BY <1>a, <2>1, <2>2, <2>3 DEF IdInv, IdentitiesTypeOK, FileKnown
\* A code is spent for the claim it was mailed for.
<1>r. ASSUME NEW r \in Request, NEW c \in Code, code[c].kind \in {"register", "bind"},
             Codes!Redeem(c), Proceed(r, "redeemed", code[c]), request[r].step = "idle",
             UNCHANGED <<account, code, file>>
      PROVE  IdInv'
  <2> DEFINE slot == [step |-> "redeemed", claim |-> code[c]]
  <2>1. slot \in Slot /\ slot.step = "redeemed" /\ slot.claim = code[c]
    BY <1>a DEF Slot
  <2>2. request' = [request EXCEPT ![r] = slot]
    BY <1>r DEF Proceed
  <2> HIDE DEF slot
  <2>3. phase'[c] = "redeemed" /\ Codes!Next
    BY <1>a, <1>r DEF Codes!Redeem, Codes!Move, Codes!TypeOK, Codes!Next
  <2>4. PICK claim \in Claim : claim = code[c]
    BY <1>a
  <2>5. Formed(claim)' /\ Warned(claim)'
    BY <1>r, <2>4 DEF IdInv, ClaimsKnow, Formed, Warned, Blocks, Exists
  <2>6. Spent(claim)'
    BY <1>r, <2>3, <2>4 DEF Spent
  <2>7. PICK s \in Slot : s = slot
    BY <2>1
  <2>8. Known(s)'
    BY <1>r, <2>1, <2>4, <2>5, <2>6, <2>7 DEF Known
  <2>9. /\ IdentitiesTypeOK' /\ ClaimsKnow' /\ NamesUnique' /\ EmailsUnique' /\ ProvedIsEmail'
        /\ AddressProved'
        /\ request'[r] = s /\ \A q \in Request \ {r} : request'[q] = request[q]
    BY <1>a, <1>r, <2>2, <2>3, <2>7, <2>8, SlotStep
  <2>10. FileKnown'
    BY <1>r, <2>1, <2>7, <2>9 DEF IdInv, FileKnown
  <2> QED BY <2>9, <2>10 DEF IdInv
<1>9. ASSUME NEW r \in Request, NEW c \in Code, RedeemRegistration(r, c) PROVE IdInv'
  BY <1>9, <1>r DEF RedeemRegistration
<1>10. ASSUME NEW r \in Request, NEW c \in Code, NEW a \in Account, RedeemBinding(r, c, a) PROVE IdInv'
  BY <1>10, <1>r DEF RedeemBinding
\* A slot is freed; whoever still has a file has it still.
<1>f. ASSUME NEW r \in Request, request' = Ended(r), UNCHANGED <<account, code, codes>>,
             file' \in Request \cup Account \cup {NoFile, Orphan},
             \A q \in Request \ {r} : request[q].step = "filed" => file' = q
      PROVE  IdInv'
  <2>1. Known(Free)'
    BY Constants DEF Known, Formed, Warned, Blocks
  <2>2. request' = [request EXCEPT ![r] = Free]
    BY <1>f DEF Ended
  <2>3. /\ IdentitiesTypeOK' /\ ClaimsKnow' /\ NamesUnique' /\ EmailsUnique' /\ ProvedIsEmail'
        /\ AddressProved'
        /\ request'[r] = Free /\ \A q \in Request \ {r} : request'[q] = request[q]
    BY <1>f, <2>1, <2>2, SlotStep, Constants
  <2>4. FileKnown'
    BY <1>f, <2>3, Constants DEF FileKnown
  <2> QED BY <2>3, <2>4 DEF IdInv
\* A code is used: the indexes let the row through.
<1>11. ASSUME NEW r \in Request, NEW a \in Account, InsertRegistered(r, a) PROVE IdInv'
  <2>1. PICK claim \in Claim : claim = request[r].claim
    BY <1>a DEF Slot
  <2>2. /\ Put(a, [NoUser EXCEPT !.name = claim.name, !.email = claim.email, !.proved = TRUE], Ended(r))
        /\ ~Exists(a) /\ ~Refused(r) /\ claim.kind = "register" /\ request[r].step = "redeemed"
        /\ UNCHANGED <<codes, file>>
    BY <1>11, <2>1 DEF InsertRegistered
  <2>3. Formed(claim) /\ Spent(claim)
    BY <2>1, <2>2 DEF IdInv, ClaimsKnow, Known
  <2>4. claim.name \in Name /\ claim.email \in Email
    BY <2>2, <2>3 DEF Formed
  <2> DEFINE row == [NoUser EXCEPT !.name = claim.name, !.email = claim.email, !.proved = TRUE]
  <2>5. row \in User /\ row.name = claim.name /\ row.email = claim.email /\ row.proved = TRUE
    BY <2>4 DEF NoUser, User
  <2> HIDE DEF row
  <2>6. Put(a, row, Ended(r))
    BY <2>2 DEF row
  <2>7. ~NameTaken(row.name) /\ ~EmailTaken(row.email, a)
    BY <1>b, <2>1, <2>2, <2>5 DEF Refused, NameTaken, EmailTaken
  <2>8. \E c \in Code : /\ phase[c] = "redeemed" /\ code[c].email = row.email
                        /\ \/ code[c].kind = "bind" /\ code[c].account = a
                           \/ code[c].kind = "register" /\ code[c].name = row.name
    BY <2>2, <2>3, <2>5 DEF Spent
  <2>9. \A q \in Request : /\ Ended(r)[q] = request[q] \/ Ended(r)[q] = Free
                           /\ Ended(r)[q].step = "filed" => file' = q
    BY <1>c, <2>2, Constants DEF IdInv, FileKnown
  <2> QED BY <1>a, <1>b, <1>c, <1>p, <2>2, <2>4, <2>5, <2>6, <2>7, <2>8, <2>9
<1>12. ASSUME NEW r \in Request, BindEmail(r) PROVE IdInv'
  <2>1. PICK claim \in Claim : claim = request[r].claim
    BY <1>a DEF Slot
  <2>2. Formed(claim) /\ Spent(claim) /\ claim.kind = "bind"
    BY <1>12, <2>1 DEF BindEmail, IdInv, ClaimsKnow, Known
  <2>3. PICK a \in Account : a = claim.account /\ Exists(a)
    BY <2>2 DEF Formed
  <2>4. claim.email \in Email
    BY <2>2 DEF Formed
  <2> DEFINE row == [account[a] EXCEPT !.email = claim.email, !.proved = TRUE]
  <2>5. /\ row \in User /\ row.name = account[a].name /\ row.email = claim.email
        /\ row.status = account[a].status
    BY <1>a, <2>4 DEF User
  <2> HIDE DEF row
  <2>6. Put(a, row, Ended(r)) /\ ~Refused(r) /\ UNCHANGED <<codes, file>>
    BY <1>12, <2>1, <2>3 DEF BindEmail, row
  <2>7. row.status # "deleted" => ~EmailTaken(row.email, a)
    BY <2>1, <2>2, <2>3, <2>5, <2>6 DEF Refused
  <2>8. \E c \in Code : /\ phase[c] = "redeemed" /\ code[c].email = row.email
                        /\ \/ code[c].kind = "bind" /\ code[c].account = a
                           \/ code[c].kind = "register" /\ code[c].name = row.name
    BY <2>2, <2>3, <2>5 DEF Spent
  <2>9. \A q \in Request : /\ Ended(r)[q] = request[q] \/ Ended(r)[q] = Free
                           /\ Ended(r)[q].step = "filed" => file' = q
    BY <1>c, <2>6, Constants DEF IdInv, FileKnown
  <2>10. row.name # NoName
    BY <2>3, <2>5 DEF Exists
  <2> QED BY <1>a, <1>c, <1>p, <2>3, <2>4, <2>5, <2>6, <2>7, <2>8, <2>9, <2>10
<1>13. ASSUME NEW r \in Request, Abort(r) PROVE IdInv'
  BY <1>13, <1>a, <1>f DEF Abort, IdInv, FileKnown
\* mhedctl: the file was not there, so no other command has one.
<1>14. ASSUME NEW r \in Request, WriteFile(r) PROVE IdInv'
  <2>1. PICK claim \in Claim : claim = request[r].claim
    BY <1>a DEF Slot
  <2>2. /\ claim.kind = "local" /\ file = NoFile /\ file' = r /\ Proceed(r, "filed", claim)
        /\ UNCHANGED <<account, code, codes>>
    BY <1>14, <2>1 DEF WriteFile
  <2> DEFINE slot == [step |-> "filed", claim |-> claim]
  <2>3. slot \in Slot /\ slot.step = "filed" /\ slot.claim = claim
    BY DEF Slot
  <2>4. request' = [request EXCEPT ![r] = slot]
    BY <2>2 DEF Proceed
  <2> HIDE DEF slot
  <2>5. Formed(claim)' /\ Warned(claim)'
    BY <2>1, <2>2 DEF IdInv, ClaimsKnow, Known, Formed, Warned, Blocks, Exists
  <2>6. Known(slot)'
    BY <2>2, <2>3, <2>5 DEF Known
  <2>7. /\ IdentitiesTypeOK' /\ ClaimsKnow' /\ NamesUnique' /\ EmailsUnique' /\ ProvedIsEmail'
        /\ AddressProved'
        /\ request'[r] = slot /\ \A q \in Request \ {r} : request'[q] = request[q]
    BY <2>2, <2>3, <2>4, <2>6, SlotStep
  <2>8. FileKnown'
    BY <1>b, <2>2, <2>7 DEF IdInv, FileKnown
  <2> QED BY <2>7, <2>8 DEF IdInv
<1>15. ASSUME NEW r \in Request, NEW a \in Account, InsertLocal(r, a) \/ InsertUnanswered(r, a)
       PROVE  IdInv'
  <2>1. PICK claim \in Claim : claim = request[r].claim
    BY <1>a DEF Slot
  <2>2. /\ Put(a, [NoUser EXCEPT !.name = claim.name], Ended(r)) /\ UNCHANGED codes
        /\ request[r].step = "filed" /\ ~Exists(a) /\ ~NameTaken(claim.name)
    BY <1>15, <2>1 DEF InsertLocal, InsertUnanswered
  <2>3. claim.name \in Name
    BY <2>1, <2>2 DEF IdInv, ClaimsKnow, Known, Formed
  <2>4. file = r /\ file' \in Account \cup {NoFile}
    BY <1>15, <2>2 DEF InsertLocal, InsertUnanswered, IdInv, FileKnown
  <2> DEFINE row == [NoUser EXCEPT !.name = claim.name]
  <2>5. row \in User /\ row.name = claim.name /\ row.email = NoEmail /\ row.proved = FALSE
    BY <2>3 DEF NoUser, User
  <2> HIDE DEF row
  <2>6. Put(a, row, Ended(r))
    BY <2>2 DEF row
  <2>7. ~EmailTaken(row.email, a)
    BY <2>5 DEF EmailTaken
  <2>8. \A q \in Request : /\ Ended(r)[q] = request[q] \/ Ended(r)[q] = Free
                           /\ Ended(r)[q].step = "filed" => file' = q
    BY <1>c, <2>4, Constants DEF IdInv, FileKnown
  <2> QED BY <1>a, <1>b, <1>c, <1>p, <2>2, <2>3, <2>4, <2>5, <2>6, <2>7, <2>8
<1>16. ASSUME NEW r \in Request, InsertFails(r) \/ DieWithFile(r) PROVE IdInv'
  <2>1. /\ request' = Ended(r) /\ UNCHANGED <<account, code, codes>> /\ request[r].step = "filed"
        /\ file' \in {NoFile, Orphan, file}
    BY <1>16 DEF InsertFails, DieWithFile
  <2>2. \A q \in Request \ {r} : request[q].step # "filed"
    BY <2>1 DEF IdInv, FileKnown
  <2> QED BY <1>a, <1>f, <2>1, <2>2
<1>17. CASE TakeFile
  <2>1. ClaimsKnow' /\ NamesUnique' /\ EmailsUnique' /\ ProvedIsEmail' /\ AddressProved'
    BY <1>17, RequestStep DEF TakeFile, codes
  <2>2. \A r \in Request : request[r].step # "filed"
    BY <1>17, <1>b DEF TakeFile, IdInv, FileKnown
  <2> QED BY <1>17, <1>a, <2>1, <2>2
          DEF TakeFile, IdInv, IdentitiesTypeOK, FileKnown, codes, Codes!TypeOK
<1> QED BY <1>1, <1>2, <1>3, <1>4, <1>5, <1>6, <1>7, <1>8, <1>9, <1>10, <1>11, <1>12, <1>13, <1>14,
           <1>15, <1>16, <1>17 DEF IdentitiesNext

-----------------------------------------------------------------------------
(* Theorems.                                                               *)

\* Whatever requests, commands and administrators do at the same time, the rows of
\* users keep what the unique indexes promise, what a request knows of its claim
\* stays true, and the credential file is that of one command.
THEOREM IdentitiesInvariant == IdentitiesSpec => []IdInv
<1>1. IdentitiesInit => IdInv
  <2> SUFFICES ASSUME IdentitiesInit PROVE IdInv
    OBVIOUS
  <2>1. /\ account = [a \in Account |-> NoUser] /\ code = [c \in Code |-> NoClaim]
        /\ request = [r \in Request |-> Free] /\ file = NoFile /\ Codes!Init
    BY DEF IdentitiesInit
  <2>2. IdentitiesTypeOK
    BY <2>1, Constants DEF IdentitiesTypeOK, Codes!Init, Codes!TypeOK
  <2>3. ClaimsKnow
    BY <2>1, Constants DEF ClaimsKnow, Known, Formed, Warned, Blocks
  <2>4. NamesUnique /\ EmailsUnique /\ ProvedIsEmail /\ AddressProved /\ FileKnown
    BY <2>1, Constants DEF NamesUnique, EmailsUnique, ProvedIsEmail, AddressProved, FileKnown, Exists
  <2> QED BY <2>2, <2>3, <2>4 DEF IdInv
<1> QED BY <1>1, IdentitiesStep, PTL DEF IdentitiesSpec

\* Rows, codes and requests keep their types, and the file is that of a command, of an
\* account or of nobody, however commands die.
THEOREM IdentitiesTypes == IdentitiesSpec => []IdentitiesTypeOK
<1>1. IdInv => IdentitiesTypeOK
  BY DEF IdInv
<1> QED BY <1>1, IdentitiesInvariant, PTL

\* What registration and binding do with codes is what VerificationCode allows, step
\* by step: with EmailOutbox, which implements it, the two modules are about the
\* same codes.
THEOREM CodesLiveAsPromised == IdentitiesSpec => Codes!Spec
<1>1. IdentitiesInit => Codes!Init
  BY DEF IdentitiesInit
<1>2. [IdentitiesNext]_identityVars => [Codes!Next]_codes
  <2> SUFFICES ASSUME [IdentitiesNext]_identityVars PROVE Codes!Next \/ UNCHANGED codes
    OBVIOUS
  <2>1. ASSUME NEW r \in Request, NEW c \in Code, EnqueueCode(r, c) PROVE Codes!Next
    BY <2>1 DEF EnqueueCode, Codes!Next
  <2>2. ASSUME NEW r \in Request, NEW c \in Code,
               RedeemRegistration(r, c) \/ \E a \in Account : RedeemBinding(r, c, a)
        PROVE  Codes!Next
    BY <2>2 DEF RedeemRegistration, RedeemBinding, Codes!Next
  <2>3. CASE MailAndTime
    <3>1. ASSUME NEW c \in Code, Codes!Lapse({c}) PROVE Codes!Next
      BY <3>1 DEF Codes!Next
    <3> QED BY <2>3, <3>1 DEF MailAndTime, Codes!Next
  <2>4. ASSUME NEW a \in Account,
               \/ \E n \in Name, e \in Email \cup {NoEmail} : CreateUser(a, n, e)
               \/ \E to \in {"active", "disabled", "deleted"} : UpdateUserStatus(a, to)
        PROVE  UNCHANGED codes
    BY <2>4 DEF CreateUser, UpdateUserStatus
  <2>5. ASSUME NEW r \in Request, NEW a \in Account,
               \/ \E e \in Email : BindEmailCode(r, a, e)
               \/ InsertRegistered(r, a) \/ InsertLocal(r, a) \/ InsertUnanswered(r, a)
        PROVE  UNCHANGED codes
    BY <2>5 DEF BindEmailCode, InsertRegistered, InsertLocal, InsertUnanswered
  <2>6. ASSUME NEW r \in Request,
               \/ \E n \in Name : CheckLocal(r, n) \/ \E e \in Email : RegisterCode(r, n, e)
               \/ BindEmail(r) \/ Abort(r) \/ WriteFile(r) \/ InsertFails(r) \/ DieWithFile(r)
        PROVE  UNCHANGED codes
    BY <2>6 DEF CheckLocal, RegisterCode, BindEmail, Abort, WriteFile, InsertFails, DieWithFile
  <2>7. CASE TakeFile \/ UNCHANGED identityVars
    BY <2>7 DEF TakeFile, identityVars, codes
  <2> QED BY <2>1, <2>2, <2>3, <2>4, <2>5, <2>6, <2>7 DEF IdentitiesNext
<1> QED BY <1>1, <1>2, PTL DEF IdentitiesSpec, Codes!Spec, codes

\* An address is verified for an account only after a code mailed to it for this
\* very account or name was spent (registerDesktop, bindEmail, updateUserStatus).
THEOREM AddressesAreProved == IdentitiesSpec => []AddressProved
<1>1. IdInv => AddressProved
  BY DEF IdInv
<1> QED BY <1>1, IdentitiesInvariant, PTL

\* registerCode and bindEmailCode look up what the indexes will ask for: only a
\* rival who came later makes a code that was spent worthless.
THEOREM CodesAreLostToRivals == IdentitiesSpec => []CodeLostOnlyToRival
<1>1. IdInv => CodeLostOnlyToRival
  <2> SUFFICES ASSUME IdInv, NEW r \in Request, request[r].step = "redeemed", Refused(r)
               PROVE  request[r].claim.rival
    BY DEF CodeLostOnlyToRival
  <2>1. PICK claim \in Claim : claim = request[r].claim
    BY DEF IdInv, IdentitiesTypeOK, Slot
  <2>2. Formed(claim) /\ Warned(claim) /\ claim.kind \in {"register", "bind"}
    BY <2>1 DEF IdInv, ClaimsKnow, Known
  <2>3. CASE claim.kind = "register"
    <3>1. PICK a \in Account : \/ account[a].name = claim.name
                               \/ account[a].email = claim.email /\ account[a].status # "deleted"
      BY <2>1, <2>3 DEF Refused, NameTaken, EmailTaken
    <3>2. a # claim.account
      BY <2>2, <2>3, IdentitiesAssumption DEF Formed
    <3> QED BY <2>1, <2>2, <2>3, <3>1, <3>2 DEF Blocks, Warned
  <2>4. CASE claim.kind = "bind"
    <3>1. PICK a \in Account \ {claim.account} :
            account[a].email = claim.email /\ account[a].status # "deleted"
      BY <2>1, <2>4 DEF Refused, EmailTaken
    <3> QED BY <2>1, <2>2, <2>4, <3>1 DEF Blocks, Warned
  <2> QED BY <2>2, <2>3, <2>4
<1> QED BY <1>1, IdentitiesInvariant, PTL

\* Of two accounts that desktopLogin's SELECT may take for the same input, all but
\* one are deleted: names are no addresses, and each index covers its own.
THEOREM OnlyDeletedShadow == IdentitiesSpec => []ShadowedOnlyByDeleted
<1>1. IdInv => ShadowedOnlyByDeleted
  <2> SUFFICES ASSUME IdInv, NEW a \in Account, Active(a),
                      NEW typed \in {account[a].name}
                        \cup (IF account[a].proved THEN {account[a].email} ELSE {}),
                      NEW b \in Selected(typed), b # a
               PROVE  account[b].status = "deleted"
    BY DEF ShadowedOnlyByDeleted
  <2>1. /\ b \in Account /\ Exists(a) /\ account[a].status = "active"
        /\ account[b].name = typed \/ (account[b].proved /\ account[b].email = typed)
    BY DEF Selected, Active
  <2>2. account[a] \in User /\ account[b] \in User
    BY <2>1 DEF IdInv, IdentitiesTypeOK
  <2>3. account[a].name \in Name /\ account[b].name \in Name \cup {NoName}
    BY <2>1, <2>2 DEF User, Exists
  <2>4. CASE typed = account[a].name
    <3>1. account[b].name # typed
      BY <2>1, <2>4 DEF IdInv, NamesUnique
    <3>2. account[b].email \in Email
      BY <2>1, <3>1 DEF IdInv, ProvedIsEmail
    <3> QED BY <2>1, <2>3, <2>4, <3>1, <3>2, IdentitiesAssumption
  <2>5. CASE account[a].proved /\ typed = account[a].email
    <3>1. typed \in Email
      BY <2>5 DEF IdInv, ProvedIsEmail
    <3>2. account[b].email = typed
      BY <2>1, <2>3, <3>1, IdentitiesAssumption
    <3>3. typed # NoEmail
      BY <3>1, IdentitiesAssumption
    <3> QED BY <2>1, <2>5, <3>2, <3>3 DEF IdInv, EmailsUnique
  <2> QED BY <2>4, <2>5
<1> QED BY <1>1, IdentitiesInvariant, PTL

\* createLocalUser and bootstrap: O_EXCL keeps the file for one command, so what
\* the command reports is the password it wrote.
THEOREM PasswordsStayInFile == IdentitiesSpec => PasswordLeftInFile
<1>1. IdInv /\ [IdentitiesNext]_identityVars =>
        [\A r \in Request, a \in Account : InsertLocal(r, a) => file' = a]_identityVars
  BY DEF IdInv, FileKnown, InsertLocal
<1> QED BY <1>1, IdentitiesInvariant, PTL DEF IdentitiesSpec, PasswordLeftInFile
=============================================================================
