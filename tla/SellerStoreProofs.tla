-------------------------- MODULE SellerStoreProofs --------------------------
(***************************************************************************)
(* Proofs about SellerStore, for any sellers, names, handles and numbers   *)
(* of requests: requests that do not overlap give no name twice, hide no   *)
(* shop from its handle and lose no answered change.                       *)
(***************************************************************************)
EXTENDS SellerStore, TLAPS

\* The sellers of two requests that are served at the same time are on record.
Overlapping ==
    \A q, r \in Active : q # r => {request[q].seller, request[r].seller} \in overlaps

\* The copy of a profile that a request will write differs from the stored one in what
\* the request changes, unless another request of the seller got in between.
CopyOK(r) ==
    LET q == request[r]  p == profiles[request[r].seller] IN
    /\ q.op # "update" => q.profile.displayName = p.displayName
    /\ q.op # "rotate" => q.profile.accessKey = p.accessKey
    /\ q.op # "ufvk"   => q.profile.sellerScanRef = p.sellerScanRef

\* The creation of a shop is the only request of the shop, and has its handle or overlaps
\* those who took it; every other request is that of a shop whose page was answered.
RequestOK(r) ==
    LET q == request[r]  s == request[r].seller IN
    IF q.op = "create"
      THEN /\ told[s] = None
           /\ \A x \in Active \ {r} : request[x].seller # s
           /\ IF q.step = "index" THEN profiles[s] = q.profile ELSE s \notin Existing
           /\ \A t \in Sellers \ {s} :
                handleIndex[q.profile.handle] = t => {s, t} \in overlaps
      ELSE /\ told[s] # None
           /\ q.step # "index" /\ (q.step = "register" => q.op = "ufvk")
           /\ q.profile.handle = profiles[s].handle
           /\ {s} \notin overlaps =>
                CopyOK(r)

\* A shop that has the name a request will write overlapped the request, or is still to
\* be read by it.
NameOK(r) ==
    \A t \in Existing \ {request[r].seller} :
        profiles[t].displayName = request[r].profile.displayName =>
            \/ {request[r].seller, t} \in overlaps
            \/ request[r].step = "list"
            \/ request[r].step = "scan" /\ t \in request[r].unread

\* A shop whose page was answered exists, has a page that is up to date and is found,
\* unless requests overlapped or were lost.
SellerOK(s) ==
    /\ s \in sessions => told[s] # None
    /\ told[s] # None =>
         /\ s \in Existing
         /\ s \notin disturbed /\ {s} \notin overlaps => told[s] = ViewOf(profiles[s])
         /\ \/ handleIndex[profiles[s].handle] = s
            \/ \E t \in Sellers \ {s} : {s, t} \in overlaps

Inv ==
    /\ TypeOK
    /\ Overlapping
    /\ \A r \in Active : RequestOK(r) /\ NameOK(r)
    /\ \A s \in Sellers : SellerOK(s)
    /\ SameNameMeansOverlap

-----------------------------------------------------------------------------
LEMMA InitInv == Init => Inv
  <1> SUFFICES ASSUME Init PROVE Inv
    OBVIOUS
  <1> USE SellerAssumption, NothingAssumption DEF Init
  <1>1. TypeOK
    BY DEF TypeOK
  <1>2. Active = {} /\ Existing = {}
    BY DEF Active, Existing
  <1> QED BY <1>1, <1>2 DEF Inv, Overlapping, SellerOK, SameNameMeansOverlap

LEMMA Pair == \A s, t : {s, t} = {t, s}
  OBVIOUS

LEMMA ActiveType ==
    ASSUME TypeOK, NEW r \in Requests
    PROVE  r \in Active <=> request[r] \in Request
  <1>1. Idle \notin Request
    BY DEF Idle, Request
  <1> QED BY <1>1 DEF TypeOK, Active

LEMMA ExistingType ==
    ASSUME TypeOK, NEW s \in Sellers
    PROVE  s \in Existing <=> profiles[s] \in Profile
  BY NothingAssumption DEF TypeOK, Existing

\* The sellers' part of the invariant does not depend on the requests.
LEMMA SellersStay ==
    ASSUME Inv, UNCHANGED <<profiles, handleIndex, sessions, told>>,
           overlaps \subseteq overlaps', disturbed \subseteq disturbed'
    PROVE  (\A s \in Sellers : SellerOK(s)') /\ SameNameMeansOverlap'
  <1>1. \A s \in Sellers : SellerOK(s)'
    BY DEF Inv, SellerOK, Existing
  <1>2. SameNameMeansOverlap'
    BY DEF Inv, SameNameMeansOverlap, Existing
  <1> QED BY <1>1, <1>2

\* One request begins, goes on or ends, and nothing is written.
LEMMA OneRequest ==
    ASSUME Inv, TypeOK', NEW r \in Requests,
           UNCHANGED <<profiles, handleIndex, sessions, told>>,
           overlaps \subseteq overlaps', disturbed \subseteq disturbed',
           \A x \in Requests \ {r} : request'[x] = request[x],
           request'[r] # Idle =>
             /\ RequestOK(r)' /\ NameOK(r)'
             /\ \A x \in Active \ {r} :
                  /\ {request'[r].seller, request[x].seller} \in overlaps'
                  /\ request[x].op = "create" => request[x].seller # request'[r].seller
    PROVE  Inv'
  <1>1. Active' \subseteq Active \cup {r} /\ Active' \subseteq Requests
        /\ (r \in Active' => request'[r] # Idle)
    BY DEF Active
  <1>2. Overlapping'
    <2>1. ASSUME NEW q \in Active', NEW x \in Active', q # x
          PROVE  {request'[q].seller, request'[x].seller} \in overlaps'
      <3>1. CASE q = r
        BY <1>1, <2>1, <3>1
      <3>2. CASE x = r
        <4>1. {request'[x].seller, request'[q].seller} \in overlaps'
          BY <1>1, <2>1, <3>2
        <4> QED BY <4>1, Pair
      <3>3. CASE q # r /\ x # r
        BY <1>1, <2>1, <3>3 DEF Inv, Overlapping
      <3> QED BY <3>1, <3>2, <3>3
    <2> QED BY <2>1 DEF Overlapping
  <1>3. ASSUME NEW x \in Active' \ {r}
        PROVE  RequestOK(x)' /\ NameOK(x)'
    <2>1. /\ x \in Active /\ request'[x] = request[x] /\ RequestOK(x) /\ NameOK(x)
      BY <1>1, <1>3 DEF Inv
    <2>2. NameOK(x)'
      BY <2>1 DEF NameOK, Existing
    <2>3. CASE request[x].op = "create"
      <3>1. ASSUME NEW y \in Active' \ {x} PROVE request'[y].seller # request[x].seller
        BY <1>1, <2>1, <2>3, <3>1 DEF RequestOK
      <3> QED BY <2>1, <2>2, <2>3, <3>1 DEF RequestOK, Existing
    <2>4. CASE request[x].op # "create"
      <3>1. CopyOK(x)' <=> CopyOK(x)
        BY <2>1 DEF CopyOK
      <3> QED BY <2>1, <2>2, <2>4, <3>1 DEF RequestOK
    <2> QED BY <2>3, <2>4
  <1> QED BY <1>1, <1>2, <1>3, SellersStay DEF Inv

-----------------------------------------------------------------------------
(* Requests begin. *)

\* What the actions that begin a request have in common.
LEMMA BeginStep ==
    ASSUME Inv, NEW r \in Requests, NEW s \in Sellers,
           request[r] = Idle, request'[r] \in Request, request'[r].seller = s,
           begun' \in 0 .. MaxRequests,
           \A x \in Requests \ {r} : request'[x] = request[x],
           request' \in [Requests -> Request \cup {Idle}],
           overlaps' = overlaps \cup {{s, request[q].seller} : q \in Active},
           UNCHANGED <<profiles, handleIndex, sessions, told, issued, crashes, disturbed>>,
           \A x \in Active : request[x].op = "create" => request[x].seller # s,
           RequestOK(r)', NameOK(r)'
    PROVE  Inv'
  <1>1. \A q \in Active : request[q] \in Request /\ request[q].seller \in Sellers
    BY ActiveType DEF Inv, Active, Request
  <1>2. overlaps \subseteq overlaps' /\ overlaps' \subseteq SUBSET Sellers
    BY <1>1 DEF Inv, TypeOK
  <1>3. \A x \in Active : {request'[r].seller, request[x].seller} \in overlaps'
    OBVIOUS
  <1>4. TypeOK'
    BY <1>2 DEF Inv, TypeOK
  <1> QED BY <1>2, <1>3, <1>4, OneRequest

LEMMA CreateStep ==
    ASSUME Inv, NEW r \in Requests, NEW s \in Sellers, NEW h \in Handles,
           NEW name \in Names \cup {None}, NEW ufvk \in ScanRefs \cup {None},
           CreateSellerProfile(r, s, h, name, ufvk)
    PROVE  Inv'
  <1> DEFINE p == [handle |-> h, displayName |-> NormalizeDisplayName(name, h),
                   accessKey |-> 0, sellerScanRef |-> None]
             q == [op |-> "create", step |-> "list", seller |-> s, ufvk |-> ufvk,
                   unread |-> {}, profile |-> p]
  <1>1. /\ s \notin Existing /\ \A x \in Active : request[x].seller # s
        /\ handleIndex[h] = None /\ request[r] = Idle
        /\ request' = [request EXCEPT ![r] = q]
        /\ begun < MaxRequests /\ begun' = begun + 1
        /\ overlaps' = overlaps \cup {{s, request[x].seller} : x \in Active}
        /\ UNCHANGED <<profiles, handleIndex, sessions, told, issued, crashes, disturbed>>
    BY DEF CreateSellerProfile, Begin, FindSellerIdByHandle
  <1>2. begun' \in 0 .. MaxRequests
    BY <1>1, SellerAssumption DEF Inv, TypeOK
  <1>3. p \in Profile
    BY DEF Profile, NormalizeDisplayName
  <1>4. q \in Request /\ q.op = "create" /\ q.step = "list" /\ q.seller = s
        /\ q.profile.handle = h
    BY <1>3 DEF Request
  <1>5. /\ request'[r] = q /\ \A x \in Requests \ {r} : request'[x] = request[x]
        /\ request' \in [Requests -> Request \cup {Idle}]
    BY <1>1, <1>4 DEF Inv, TypeOK
  <1> HIDE DEF q
  <1>6. told[s] = None
    BY <1>1 DEF Inv, SellerOK
  <1>7. RequestOK(r)'
    <2>1. \A x \in Active' \ {r} : x \in Active /\ request'[x] = request[x]
      BY <1>5 DEF Active
    <2>2. \A t \in Sellers \ {s} : handleIndex'[h] # t
      BY <1>1, SellerAssumption
    <2> QED BY <1>1, <1>4, <1>5, <1>6, <2>1, <2>2 DEF RequestOK, Existing
  <1>8. NameOK(r)'
    BY <1>4, <1>5 DEF NameOK
  <1>9. /\ request'[r] \in Request /\ request'[r].seller = s
        /\ \A x \in Active : request[x].op = "create" => request[x].seller # s
    BY <1>1, <1>4, <1>5
  <1>10. /\ request[r] = Idle
         /\ overlaps' = overlaps \cup {{s, request[x].seller} : x \in Active}
         /\ UNCHANGED <<profiles, handleIndex, sessions, told, issued, crashes, disturbed>>
    BY <1>1
  <1> HIDE DEF p
  <1> QED BY <1>2, <1>5, <1>7, <1>8, <1>9, <1>10, BeginStep

\* A request of a shop that is logged in begins, with a copy of the profile in which a
\* name is new only when it will be looked up.
LEMMA SessionStep ==
    ASSUME Inv, NEW r \in Requests, NEW s \in Sellers, RequireSeller(s),
           NEW op \in {"update", "rotate", "ufvk"},
           NEW step \in {"list", "register", "write"},
           NEW ufvk \in ScanRefs \cup {None}, NEW p \in Profile,
           Begin(r, s, [op |-> op, step |-> step, seller |-> s, ufvk |-> ufvk,
                        unread |-> {}, profile |-> p]),
           p.handle = profiles[s].handle,
           p.accessKey = profiles[s].accessKey,
           p.sellerScanRef = profiles[s].sellerScanRef,
           step = "register" => op = "ufvk",
           op # "update" \/ step # "list" => p.displayName = profiles[s].displayName
    PROVE  Inv'
  <1> DEFINE q == [op |-> op, step |-> step, seller |-> s, ufvk |-> ufvk,
                   unread |-> {}, profile |-> p]
  <1>1. /\ request[r] = Idle
        /\ request' = [request EXCEPT ![r] = q]
        /\ begun < MaxRequests /\ begun' = begun + 1
        /\ overlaps' = overlaps \cup {{s, request[x].seller} : x \in Active}
        /\ UNCHANGED <<profiles, handleIndex, sessions, told, issued, crashes, disturbed>>
    BY DEF Begin
  <1>2. begun' \in 0 .. MaxRequests
    BY <1>1, SellerAssumption DEF Inv, TypeOK
  <1>3. /\ q \in Request /\ q.op = op /\ q.step = step /\ q.seller = s /\ q.profile = p
    BY DEF Request
  <1>4. request'[r] = q /\ (\A x \in Requests \ {r} : request'[x] = request[x])
        /\ request' \in [Requests -> Request \cup {Idle}]
    BY <1>1, <1>3 DEF Inv, TypeOK
  <1> HIDE DEF q
  <1>5. told[s] # None /\ s \in Existing
    BY DEF RequireSeller, VerifySellerSessionToken, Inv, SellerOK
  <1>6. RequestOK(r)'
    <2>1. CopyOK(r)'
      BY <1>1, <1>3, <1>4 DEF CopyOK
    <2> QED BY <1>1, <1>3, <1>4, <1>5, <2>1 DEF RequestOK
  <1>7. NameOK(r)'
    <2>1. CASE step = "list"
      BY <1>3, <1>4, <2>1 DEF NameOK
    <2>2. CASE step # "list"
      <3>1. p.displayName = profiles[s].displayName
        BY <2>2
      <3>2. \A t \in Existing \ {s} :
              profiles[t].displayName = p.displayName => {s, t} \in overlaps
        BY <1>5, <3>1 DEF Inv, SameNameMeansOverlap
      <3> QED BY <1>1, <1>3, <1>4, <3>2 DEF NameOK, Existing
    <2> QED BY <2>1, <2>2
  <1>8. \A x \in Active : request[x].op = "create" => request[x].seller # s
    BY <1>5 DEF Inv, RequestOK
  <1> QED BY <1>1, <1>2, <1>3, <1>4, <1>6, <1>7, <1>8, BeginStep

LEMMA RouteStep ==
    ASSUME Inv, NEW r \in Requests, NEW s \in Sellers,
           \/ \E given \in BOOLEAN, name \in Names \cup {None} : PatchSeller(r, s, given, name)
           \/ PostAccessKey(r, s)
           \/ \E ufvk \in ScanRefs : PostUfvk(r, s, ufvk)
    PROVE  Inv'
  <1>1. RequireSeller(s) /\ s \in Existing /\ profiles[s] \in Profile
    BY ExistingType DEF PatchSeller, PostAccessKey, PostUfvk, RequireSeller, Inv
  <1>2. ASSUME NEW given \in BOOLEAN, NEW name \in Names \cup {None},
               PatchSeller(r, s, given, name)
        PROVE  Inv'
    <2>1. ASSUME NEW p \in Profile, p = profiles[s],
                 NEW next \in Names \cup Handles,
                 next = NormalizeDisplayName(name, p.handle), given
          PROVE  Inv'
      <3>1. PICK new \in Profile :
              /\ new.handle = p.handle /\ new.displayName = next
              /\ new.accessKey = p.accessKey /\ new.sellerScanRef = p.sellerScanRef
              /\ new = [p EXCEPT !.displayName = next]
        BY DEF Profile
      <3>2. PICK step \in {"list", "register", "write"} :
              step = IF next = p.displayName THEN "write" ELSE "list"
        OBVIOUS
      <3>3. Begin(r, s, [op |-> "update", step |-> step, seller |-> s, ufvk |-> None,
                         unread |-> {}, profile |-> new])
        BY <1>2, <2>1, <3>1, <3>2 DEF PatchSeller, UpdateSellerProfile, Begin
      <3>4. step # "register" /\ (step # "list" => new.displayName = profiles[s].displayName)
        BY <2>1, <3>1, <3>2
      <3> QED BY <1>1, <2>1, <3>1, <3>3, <3>4, SessionStep
    <2>2. ASSUME NEW p \in Profile, p = profiles[s], ~given
          PROVE  Inv'
      <3>1. Begin(r, s, [op |-> "update", step |-> "write", seller |-> s, ufvk |-> None,
                         unread |-> {}, profile |-> p])
        BY <1>2, <2>2 DEF PatchSeller, UpdateSellerProfile, Begin
      <3> QED BY <1>1, <2>2, <3>1, SessionStep
    <2>3. NormalizeDisplayName(name, profiles[s].handle) \in Names \cup Handles
      BY <1>1 DEF NormalizeDisplayName, Profile
    <2> QED BY <1>1, <2>1, <2>2, <2>3
  <1>3. ASSUME PostAccessKey(r, s)
        PROVE  Inv'
    <2>1. ASSUME NEW p \in Profile, p = profiles[s]
          PROVE  Inv'
      <3>1. Begin(r, s, [op |-> "rotate", step |-> "write", seller |-> s, ufvk |-> None,
                         unread |-> {}, profile |-> p])
        BY <1>3, <2>1 DEF PostAccessKey, RotateSellerAccessKey, Begin
      <3> QED BY <1>1, <2>1, <3>1, SessionStep
    <2> QED BY <1>1, <2>1
  <1>4. ASSUME NEW ufvk \in ScanRefs, PostUfvk(r, s, ufvk)
        PROVE  Inv'
    <2>1. ASSUME NEW p \in Profile, p = profiles[s]
          PROVE  Inv'
      <3>1. Begin(r, s, [op |-> "ufvk", step |-> "register", seller |-> s, ufvk |-> ufvk,
                         unread |-> {}, profile |-> p])
        BY <1>4, <2>1 DEF PostUfvk, RegisterSellerUfvk, Begin
      <3> QED BY <1>1, <2>1, <3>1, SessionStep
    <2> QED BY <1>1, <2>1
  <1> QED BY <1>2, <1>3, <1>4

-----------------------------------------------------------------------------
(* Requests read. *)

\* A request moves on with the copy it has.
LEMMA MoveStep ==
    ASSUME Inv, NEW r \in Requests, r \in Active,
           UNCHANGED <<profiles, handleIndex, sessions, told, issued, begun, crashes,
                       overlaps, disturbed>>,
           request'[r] \in Request,
           request' = [request EXCEPT ![r] = request'[r]],
           request'[r].op = request[r].op, request'[r].seller = request[r].seller,
           request'[r].step # "index", request[r].step # "index",
           request'[r].profile.handle = request[r].profile.handle,
           request'[r].step = "register" => request[r].op = "create",
           request[r].op # "create" /\ CopyOK(r) => CopyOK(r)',
           NameOK(r)'
    PROVE  Inv'
  <1>1. \A x \in Requests \ {r} : request'[x] = request[x]
    BY DEF Inv, TypeOK
  <1>2. TypeOK'
    BY DEF Inv, TypeOK
  <1>3. RequestOK(r) /\ \A x \in Active : RequestOK(x)
    BY DEF Inv
  <1>4. \A x \in Active' \ {r} : x \in Active /\ request'[x] = request[x]
    BY <1>1 DEF Active
  <1>5. RequestOK(r)'
    <2>1. CASE request[r].op = "create"
      BY <1>3, <1>4, <2>1 DEF RequestOK, Existing
    <2>2. CASE request[r].op # "create"
      BY <1>3, <2>2 DEF RequestOK
    <2> QED BY <2>1, <2>2
  <1>6. ASSUME NEW x \in Active \ {r}
        PROVE  /\ {request'[r].seller, request[x].seller} \in overlaps'
               /\ request[x].op = "create" => request[x].seller # request'[r].seller
    BY <1>3 DEF Inv, Overlapping, RequestOK
  <1> QED BY <1>1, <1>2, <1>5, <1>6, OneRequest

LEMMA EndStep ==
    ASSUME Inv, NEW r \in Requests,
           UNCHANGED <<profiles, handleIndex, sessions, told, issued, begun, crashes,
                       overlaps, disturbed>>,
           request' = [request EXCEPT ![r] = Idle]
    PROVE  Inv'
  <1>1. /\ request' \in [Requests -> Request \cup {Idle}] /\ request'[r] = Idle
        /\ \A x \in Requests \ {r} : request'[x] = request[x]
    BY DEF Inv, TypeOK
  <1>2. TypeOK'
    BY <1>1 DEF Inv, TypeOK
  <1> QED BY <1>1, <1>2, OneRequest

\* The profiles that are still to be read have every shop with the name.
LEMMA AfterReadingStep ==
    ASSUME Inv, NEW r \in Requests, r \in Active, NEW rest \in SUBSET Sellers,
           request[r].step \in {"list", "scan"}, AfterReading(r, rest),
           UNCHANGED <<profiles, handleIndex, sessions, told, issued, begun, crashes,
                       overlaps, disturbed>>,
           \A t \in Existing \ {request[r].seller} :
               profiles[t].displayName = request[r].profile.displayName =>
                   \/ {request[r].seller, t} \in overlaps
                   \/ t \in rest
    PROVE  Inv'
  <1> DEFINE step == IF rest # {} THEN "scan"
                     ELSE IF request[r].op = "create" /\ request[r].ufvk # None
                       THEN "register" ELSE "write"
  <1>1. request[r] \in Request /\ request \in [Requests -> Request \cup {Idle}]
    BY ActiveType DEF Inv, TypeOK
  <1>2. /\ request' = [request EXCEPT ![r] = request'[r]]
        /\ request'[r] = [request[r] EXCEPT !.unread = rest, !.step = step]
    BY <1>1 DEF AfterReading
  <1>3. /\ step \in {"scan", "register", "write"} /\ (rest # {} => step = "scan")
        /\ step = "register" => request[r].op = "create"
    OBVIOUS
  <1> HIDE DEF step
  <1>4. /\ request'[r].op = request[r].op /\ request'[r].seller = request[r].seller
        /\ request'[r].profile = request[r].profile
        /\ request'[r].step = step /\ request'[r].unread = rest
    BY <1>1, <1>2 DEF Request
  <1>5. request'[r] = [op |-> request[r].op, step |-> step, seller |-> request[r].seller,
                       profile |-> request[r].profile, ufvk |-> request[r].ufvk,
                       unread |-> rest]
    BY <1>1, <1>2 DEF Request
  <1>6. request'[r] \in Request
    BY <1>1, <1>3, <1>5 DEF Request
  <1>7. NameOK(r)'
    BY <1>3, <1>4 DEF NameOK, Existing
  <1>8. CopyOK(r) => CopyOK(r)'
    BY <1>4 DEF CopyOK
  <1> QED BY <1>2, <1>3, <1>4, <1>6, <1>7, <1>8, MoveStep

LEMMA ReadStep ==
    ASSUME Inv, NEW r \in Requests, ListProfiles(r) \/ ReadProfile(r)
    PROVE  Inv'
  <1>1. r \in Active
    BY DEF ListProfiles, ReadProfile, Active, Idle
  <1>2. request[r] \in Request /\ NameOK(r)
    BY <1>1, ActiveType DEF Inv
  <1>3. UNCHANGED <<profiles, handleIndex, sessions, told, issued, begun, crashes,
                    overlaps, disturbed>>
    BY DEF ListProfiles, ReadProfile
  <1>4. CASE ListProfiles(r)
    <2>1. PICK rest \in SUBSET Sellers : rest = Existing \ {request[r].seller}
      BY DEF Existing
    <2>2. AfterReading(r, rest) /\ request[r].step = "list"
      BY <1>4, <2>1 DEF ListProfiles, AfterReading
    <2> QED BY <1>1, <1>3, <2>1, <2>2, AfterReadingStep
  <1>5. CASE ReadProfile(r)
    <2>1. PICK s \in request[r].unread :
            IF profiles[s].displayName = request[r].profile.displayName
              THEN request' = [request EXCEPT ![r] = Idle]
              ELSE AfterReading(r, request[r].unread \ {s})
      BY <1>5 DEF ReadProfile
    <2>2. CASE profiles[s].displayName = request[r].profile.displayName
      BY <1>3, <2>1, <2>2, EndStep
    <2>3. CASE profiles[s].displayName # request[r].profile.displayName
      <3>1. PICK rest \in SUBSET Sellers : rest = request[r].unread \ {s}
        BY <1>2 DEF Request
      <3>2. AfterReading(r, rest) /\ request[r].step = "scan"
        BY <1>5, <2>1, <2>3, <3>1 DEF ReadProfile, AfterReading
      <3>3. \A t \in Existing \ {request[r].seller} :
               profiles[t].displayName = request[r].profile.displayName =>
                   \/ {request[r].seller, t} \in overlaps
                   \/ t \in rest
        BY <1>2, <2>3, <3>1, <3>2 DEF NameOK
      <3> QED BY <1>1, <1>3, <3>2, <3>3, AfterReadingStep
    <2> QED BY <2>2, <2>3
  <1> QED BY <1>4, <1>5

LEMMA ScannerStep ==
    ASSUME Inv, NEW r \in Requests, ScannerAnswers(r)
    PROVE  Inv'
  <1>1. r \in Active /\ request[r].step = "register"
    BY DEF ScannerAnswers, Active, Idle
  <1>2. request[r] \in Request /\ NameOK(r) /\ request \in [Requests -> Request \cup {Idle}]
        /\ RequestOK(r)
    BY <1>1, ActiveType DEF Inv, TypeOK
  <1>3. UNCHANGED <<profiles, handleIndex, sessions, told, issued, begun, crashes,
                    overlaps, disturbed>>
    BY DEF ScannerAnswers
  <1>4. CASE request' = [request EXCEPT ![r].profile.sellerScanRef = request[r].ufvk,
                                        ![r].step = "write"]
    <2> DEFINE p == [request[r].profile EXCEPT !.sellerScanRef = request[r].ufvk]
    <2>1. request[r].profile \in Profile /\ request[r].ufvk \in ScanRefs \cup {None}
      BY <1>2 DEF Request
    <2>2. /\ p \in Profile /\ p.handle = request[r].profile.handle
          /\ p.displayName = request[r].profile.displayName
          /\ p.accessKey = request[r].profile.accessKey
      BY <2>1 DEF Profile
    <2>3. request'[r] = [request[r] EXCEPT !.profile = p, !.step = "write"]
          /\ request' = [request EXCEPT ![r] = request'[r]]
      BY <1>2, <1>4 DEF Request
    <2> HIDE DEF p
    <2>4. request'[r] = [op |-> request[r].op, step |-> "write", seller |-> request[r].seller,
                         profile |-> p, ufvk |-> request[r].ufvk, unread |-> request[r].unread]
      BY <1>2, <2>3 DEF Request
    <2>5. request'[r] \in Request
      BY <1>2, <2>2, <2>4 DEF Request
    <2>6. /\ request'[r].op = request[r].op /\ request'[r].seller = request[r].seller
          /\ request'[r].profile = p /\ request'[r].step = "write"
      BY <2>4
    <2>7. NameOK(r)'
      BY <1>1, <1>2, <1>3, <2>2, <2>6 DEF NameOK, Existing
    <2>8. request[r].op # "create" /\ CopyOK(r) => CopyOK(r)'
      BY <1>1, <1>2, <1>3, <2>2, <2>6 DEF CopyOK, RequestOK
    <2> QED BY <1>1, <1>3, <2>2, <2>3, <2>5, <2>6, <2>7, <2>8, MoveStep
  <1>5. CASE request' = [request EXCEPT ![r] = Idle]
    BY <1>3, <1>5, EndStep
  <1> QED BY <1>4, <1>5 DEF ScannerAnswers

-----------------------------------------------------------------------------
(* Requests write. *)

\* What a request that writes a profile knows, and what it writes.
LEMMA WriteFacts ==
    ASSUME Inv, NEW r \in Requests, WriteProfile(r)
    PROVE  \E s \in Sellers, p \in Profile :
             /\ r \in Active /\ request[r] \in Request /\ s = request[r].seller
             /\ RequestOK(r) /\ request[r].step = "write"
             /\ profiles' = [profiles EXCEPT ![s] = p]
             /\ p.handle = request[r].profile.handle
             /\ p.displayName = request[r].profile.displayName
             /\ p.sellerScanRef = request[r].profile.sellerScanRef
             /\ request[r].op \in {"update", "ufvk"} => p.accessKey = request[r].profile.accessKey
             /\ issued' \in Nat
             /\ IF request[r].op = "create"
                  THEN /\ request' = [request EXCEPT ![r].step = "index", ![r].profile = p]
                       /\ UNCHANGED <<told, disturbed>>
                  ELSE Finish(r, p)
             /\ UNCHANGED <<handleIndex, sessions, begun, crashes, overlaps>>
             /\ \A t \in Existing \ {s} :
                  profiles[t].displayName = p.displayName => {s, t} \in overlaps
  <1> DEFINE s == request[r].seller
             q == request[r].profile
             keyed == request[r].op \in {"create", "rotate"}
             p == [q EXCEPT !.accessKey = IF keyed THEN issued + 1 ELSE @]
  <1>1. r \in Active /\ request[r].step = "write"
    BY DEF WriteProfile, Active, Idle
  <1>2. request[r] \in Request /\ NameOK(r) /\ RequestOK(r) /\ issued \in Nat
    BY <1>1, ActiveType DEF Inv, TypeOK
  <1>3. s \in Sellers /\ q \in Profile /\ request[r].op \in {"create", "update", "rotate", "ufvk"}
    BY <1>2 DEF Request
  <1>4. /\ p \in Profile /\ p.handle = q.handle /\ p.displayName = q.displayName
        /\ p.sellerScanRef = q.sellerScanRef
        /\ ~keyed => p.accessKey = q.accessKey
    BY <1>2, <1>3 DEF Profile
  <1>5. /\ profiles' = [profiles EXCEPT ![s] = p]
        /\ IF request[r].op = "create"
             THEN /\ request' = [request EXCEPT ![r].step = "index", ![r].profile = p]
                  /\ UNCHANGED <<told, disturbed>>
             ELSE Finish(r, p)
        /\ UNCHANGED <<handleIndex, sessions, begun, crashes, overlaps>>
        /\ issued' = IF keyed THEN issued + 1 ELSE issued
    BY DEF WriteProfile, Finish
  <1>6. issued' \in Nat
    BY <1>2, <1>5
  <1>7. \A t \in Existing \ {s} : profiles[t].displayName = p.displayName => {s, t} \in overlaps
    BY <1>1, <1>2, <1>4 DEF NameOK
  <1> HIDE DEF p
  <1>8. PICK new \in Profile : new = p
    BY <1>4
  <1> QED BY <1>1, <1>2, <1>3, <1>4, <1>5, <1>6, <1>7, <1>8 DEF Finish, Answer

\* The name of a shop is new to those that its request did not overlap.
LEMMA NamesAfterWrite ==
    ASSUME Inv, NEW s \in Sellers, NEW p \in Profile,
           profiles' = [profiles EXCEPT ![s] = p], UNCHANGED overlaps,
           \A t \in Existing \ {s} :
               profiles[t].displayName = p.displayName => {s, t} \in overlaps
    PROVE  SameNameMeansOverlap' /\ Existing' = Existing \cup {s}
  <1>1. profiles'[s] = p /\ \A t \in Sellers \ {s} : profiles'[t] = profiles[t]
    BY DEF Inv, TypeOK
  <1>2. Existing' = Existing \cup {s}
    BY <1>1, NothingAssumption DEF Existing
  <1>3. ASSUME NEW a \in Existing', NEW b \in Existing', a # b,
               profiles'[a].displayName = profiles'[b].displayName
        PROVE  {a, b} \in overlaps
    <2>1. a \in Sellers /\ b \in Sellers
      BY DEF Existing
    <2>2. CASE a = s
      BY <1>1, <1>2, <1>3, <2>1, <2>2
    <2>3. CASE b = s
      <3>1. {b, a} \in overlaps
        BY <1>1, <1>2, <1>3, <2>1, <2>3
      <3> QED BY <3>1, Pair
    <2>4. CASE a # s /\ b # s
      BY <1>1, <1>2, <1>3, <2>1, <2>4 DEF Inv, SameNameMeansOverlap
    <2> QED BY <2>2, <2>3, <2>4
  <1> QED BY <1>2, <1>3 DEF SameNameMeansOverlap

LEMMA WriteNewStep ==
    ASSUME Inv, NEW r \in Requests, WriteProfile(r), request[r].op = "create"
    PROVE  Inv'
  <1>1. PICK s \in Sellers, p \in Profile :
             /\ r \in Active /\ request[r] \in Request /\ s = request[r].seller
             /\ RequestOK(r) /\ request[r].step = "write"
             /\ profiles' = [profiles EXCEPT ![s] = p]
             /\ p.handle = request[r].profile.handle
             /\ issued' \in Nat
             /\ request' = [request EXCEPT ![r].step = "index", ![r].profile = p]
             /\ UNCHANGED <<told, disturbed>>
             /\ UNCHANGED <<handleIndex, sessions, begun, crashes, overlaps>>
             /\ \A t \in Existing \ {s} :
                  profiles[t].displayName = p.displayName => {s, t} \in overlaps
    BY WriteFacts
  <1>2. /\ profiles \in [Sellers -> Profile \cup {None}]
        /\ request \in [Requests -> Request \cup {Idle}]
        /\ profiles'[s] = p /\ \A t \in Sellers \ {s} : profiles'[t] = profiles[t]
    BY <1>1 DEF Inv, TypeOK
  <1>3. /\ told[s] = None /\ s \notin Existing
        /\ \A x \in Active \ {r} : request[x].seller # s
        /\ \A t \in Sellers \ {s} : handleIndex[p.handle] = t => {s, t} \in overlaps
    BY <1>1 DEF RequestOK
  <1>4. request'[r] = [op |-> request[r].op, step |-> "index", seller |-> s, profile |-> p,
                       ufvk |-> request[r].ufvk, unread |-> request[r].unread]
        /\ \A x \in Requests \ {r} : request'[x] = request[x]
    BY <1>1, <1>2 DEF Request
  <1>5. /\ request'[r] \in Request /\ request'[r].op = "create" /\ request'[r].seller = s
        /\ request'[r].profile = p /\ request'[r].step = "index"
    <2>1. request[r] \in Request /\ s = request[r].seller
      BY <1>1
    <2>2. /\ request[r].op \in {"create", "update", "rotate", "ufvk"}
          /\ request[r].ufvk \in ScanRefs \cup {None} /\ request[r].unread \in SUBSET Sellers
      BY <2>1 DEF Request
    <2>3. request'[r] \in Request
      BY <1>4, <2>2 DEF Request
    <2> QED BY <1>4, <2>3
  <1>6. TypeOK'
    <2>1. request' \in [Requests -> Request \cup {Idle}]
      BY <1>1, <1>2, <1>5
    <2>2. profiles' \in [Sellers -> Profile \cup {None}]
      BY <1>1, <1>2
    <2> QED BY <1>1, <2>1, <2>2 DEF Inv, TypeOK
  <1>7. Active' = Active
    <2>1. request'[r] # Idle /\ request[r] # Idle
      BY <1>1, <1>5 DEF Request, Idle
    <2> QED BY <1>4, <2>1 DEF Active
  <1>8. SameNameMeansOverlap' /\ Existing' = Existing \cup {s}
    BY <1>1, NamesAfterWrite
  <1>9. \A x \in Active : request'[x].seller = request[x].seller
    BY <1>1, <1>4, <1>5 DEF Active
  <1>10. Overlapping'
    <2>1. overlaps' = overlaps
      BY <1>1
    <2> QED BY <1>7, <1>9, <2>1 DEF Inv, Overlapping
  <1>11. RequestOK(r)' /\ NameOK(r)'
    <2>1. RequestOK(r)'
      <3>1. UNCHANGED <<told, handleIndex, overlaps>>
        BY <1>1
      <3> QED BY <1>2, <1>3, <1>5, <1>7, <1>9, <3>1 DEF RequestOK
    <2>2. NameOK(r)'
      BY <1>1, <1>2, <1>3, <1>5, <1>8 DEF NameOK, Existing
    <2> QED BY <2>1, <2>2
  <1>12. ASSUME NEW x \in Active \ {r}
         PROVE  RequestOK(x)' /\ NameOK(x)'
    <2>1. /\ request'[x] = request[x] /\ RequestOK(x) /\ NameOK(x)
          /\ request[x].seller \in Sellers \ {s}
          /\ profiles'[request[x].seller] = profiles[request[x].seller]
          /\ {request[x].seller, s} \in overlaps
      BY <1>1, <1>2, <1>3, <1>4, ActiveType DEF Inv, Active, Request, Overlapping
    <2>2. request[x].seller \in Existing' <=> request[x].seller \in Existing
      BY <1>8, <2>1
    <2>3. UNCHANGED <<told, handleIndex, overlaps>>
      BY <1>1
    <2>4. RequestOK(x)'
      <3>1. CASE request[x].op = "create"
        BY <1>7, <1>9, <2>1, <2>2, <2>3, <3>1 DEF RequestOK
      <3>2. CASE request[x].op # "create"
        BY <2>1, <2>3, <3>2 DEF RequestOK, CopyOK
      <3> QED BY <3>1, <3>2
    <2>5. NameOK(x)'
      BY <1>2, <1>8, <2>1, <2>3 DEF NameOK, Existing
    <2> QED BY <2>4, <2>5
  <1>13. ASSUME NEW t \in Sellers
         PROVE  SellerOK(t)'
    <2>1. SellerOK(t)
      BY DEF Inv
    <2>2. CASE t = s
      BY <1>1, <1>3, <2>1, <2>2 DEF SellerOK
    <2>3. CASE t # s
      BY <1>1, <1>2, <1>8, <2>1, <2>3 DEF SellerOK
    <2> QED BY <2>2, <2>3
  <1> QED BY <1>6, <1>7, <1>8, <1>10, <1>11, <1>12, <1>13 DEF Inv

LEMMA WriteOldStep ==
    ASSUME Inv, NEW r \in Requests, WriteProfile(r), request[r].op # "create"
    PROVE  Inv'
  <1>1. PICK s \in Sellers, p \in Profile :
             /\ r \in Active /\ request[r] \in Request /\ s = request[r].seller
             /\ RequestOK(r)
             /\ profiles' = [profiles EXCEPT ![s] = p]
             /\ p.handle = request[r].profile.handle
             /\ p.displayName = request[r].profile.displayName
             /\ p.sellerScanRef = request[r].profile.sellerScanRef
             /\ request[r].op \in {"update", "ufvk"} => p.accessKey = request[r].profile.accessKey
             /\ issued' \in Nat /\ Finish(r, p)
             /\ UNCHANGED <<handleIndex, sessions, begun, crashes, overlaps>>
             /\ \A t \in Existing \ {s} :
                  profiles[t].displayName = p.displayName => {s, t} \in overlaps
    BY WriteFacts
  <1>2. /\ profiles \in [Sellers -> Profile \cup {None}]
        /\ request \in [Requests -> Request \cup {Idle}]
        /\ told \in [Sellers -> View \cup {None}] /\ disturbed \subseteq Sellers
        /\ profiles'[s] = p /\ \A t \in Sellers \ {s} : profiles'[t] = profiles[t]
    BY <1>1 DEF Inv, TypeOK
  <1>3. UNCHANGED <<handleIndex, sessions, overlaps>> /\ s = request[r].seller /\ r \in Active
    BY <1>1
  <1>4. /\ told[s] # None /\ s \in Existing /\ p.handle = profiles[s].handle
        /\ {s} \notin overlaps => CopyOK(r)
    BY <1>1 DEF RequestOK, Inv, SellerOK
  <1>5. told[s] \in View /\ profiles[s] \in Profile
    BY <1>2, <1>4, ExistingType DEF Inv
  <1> DEFINE answer == Answer(r, p)
  <1>6. /\ answer = (CASE request[r].op = "update" -> [told[s] EXCEPT !.displayName = p.displayName]
                       [] request[r].op = "rotate" -> [told[s] EXCEPT !.accessKey = p.accessKey]
                       [] request[r].op = "ufvk" -> [told[s] EXCEPT !.sellerScanRef = p.sellerScanRef])
        /\ request[r].op \in {"update", "rotate", "ufvk"}
    BY <1>1 DEF Answer, OnSaveSettings, OnRegenerateAccessKey, OnUfvkConfirmed, Request
  <1>7. answer \in View /\ answer # None
    BY <1>5, <1>6, NothingAssumption DEF View, Profile
  <1>8. told[s] = ViewOf(profiles[s]) /\ {s} \notin overlaps => answer = ViewOf(p)
    <2>1. SUFFICES ASSUME told[s] = ViewOf(profiles[s]), {s} \notin overlaps
                   PROVE  answer = ViewOf(p)
      OBVIOUS
    <2>2. CopyOK(r) /\ request[r].profile \in Profile
      BY <1>1, <1>4, <2>1 DEF Request
    <2>3. told[s] = [displayName |-> profiles[s].displayName,
                     accessKey |-> profiles[s].accessKey,
                     sellerScanRef |-> profiles[s].sellerScanRef]
      BY <2>1 DEF ViewOf
    <2>4. /\ request[r].op = "update" => /\ p.accessKey = profiles[s].accessKey
                                         /\ p.sellerScanRef = profiles[s].sellerScanRef
          /\ request[r].op = "rotate" => /\ p.displayName = profiles[s].displayName
                                         /\ p.sellerScanRef = profiles[s].sellerScanRef
          /\ request[r].op = "ufvk" => /\ p.accessKey = profiles[s].accessKey
                                       /\ p.displayName = profiles[s].displayName
      BY <1>1, <2>2 DEF CopyOK
    <2> HIDE DEF answer
    <2>5. CASE request[r].op = "update"
      BY <1>6, <2>3, <2>4, <2>5 DEF ViewOf
    <2>6. CASE request[r].op = "rotate"
      BY <1>6, <2>3, <2>4, <2>6 DEF ViewOf
    <2>7. CASE request[r].op = "ufvk"
      BY <1>6, <2>3, <2>4, <2>7 DEF ViewOf
    <2> QED BY <1>6, <2>5, <2>6, <2>7
  <1>9. /\ request' = [request EXCEPT ![r] = Idle]
        /\ \/ told' = [told EXCEPT ![s] = answer] /\ UNCHANGED disturbed
           \/ disturbed' = disturbed \cup {s} /\ UNCHANGED told
    BY <1>1 DEF Finish
  <1> HIDE DEF answer
  <1>10. /\ request'[r] = Idle
         /\ \A x \in Requests \ {r} : request'[x] = request[x]
         /\ \A t \in Sellers \ {s} : told'[t] = told[t]
         /\ told'[s] # None
         /\ \A t \in Sellers : told[t] # None <=> told'[t] # None
    BY <1>2, <1>4, <1>7, <1>9
  <1>11. TypeOK'
    <2>1. request' \in [Requests -> Request \cup {Idle}]
      BY <1>2, <1>9
    <2>2. profiles' \in [Sellers -> Profile \cup {None}]
      BY <1>1, <1>2
    <2>3. told' \in [Sellers -> View \cup {None}] /\ disturbed' \subseteq Sellers
      BY <1>2, <1>7, <1>9
    <2> QED BY <1>1, <2>1, <2>2, <2>3 DEF Inv, TypeOK
  <1>12. Active' = Active \ {r}
    BY <1>10 DEF Active
  <1>13. SameNameMeansOverlap' /\ Existing' = Existing
    BY <1>1, <1>4, NamesAfterWrite
  <1>14. Overlapping'
    BY <1>3, <1>10, <1>12 DEF Inv, Overlapping, Active
  <1>15. ASSUME NEW x \in Active \ {r}
         PROVE  RequestOK(x)' /\ NameOK(x)'
    <2>1. /\ request'[x] = request[x] /\ RequestOK(x) /\ NameOK(x)
          /\ request[x].seller \in Sellers
          /\ {request[x].seller, s} \in overlaps
      BY <1>3, <1>10, ActiveType DEF Inv, Active, Request, Overlapping
    <2>2. NameOK(x)'
      BY <1>2, <1>3, <1>13, <2>1 DEF NameOK, Existing
    <2>3. CASE request[x].op = "create"
      <3>1. request[x].seller # s /\ told'[request[x].seller] = None
            /\ profiles'[request[x].seller] = profiles[request[x].seller]
        BY <1>2, <1>3, <1>10, <2>1, <2>3 DEF RequestOK
      <3>2. \A y \in Active' \ {x} : y \in Active /\ request'[y] = request[y]
        BY <1>10, <1>12 DEF Active
      <3>3. RequestOK(x)'
        BY <1>3, <1>13, <2>1, <2>3, <3>1, <3>2 DEF RequestOK
      <3> QED BY <2>2, <3>3
    <2>4. CASE request[x].op # "create"
      <3>1. told'[request[x].seller] # None
        BY <1>10, <2>1, <2>4 DEF RequestOK
      <3>2. CASE request[x].seller = s
        <4>1. {s} \in overlaps
          BY <2>1, <3>2
        <4>2. request[x].profile.handle = profiles'[s].handle
          BY <1>2, <1>4, <2>1, <2>4, <3>2 DEF RequestOK
        <4>3. RequestOK(x)'
          BY <1>3, <2>1, <2>4, <3>1, <3>2, <4>1, <4>2 DEF RequestOK
        <4> QED BY <2>2, <4>3
      <3>3. CASE request[x].seller # s
        <4>1. profiles'[request[x].seller] = profiles[request[x].seller]
          BY <1>2, <2>1, <3>3
        <4>2. RequestOK(x)'
          BY <1>3, <2>1, <2>4, <3>1, <4>1 DEF RequestOK, CopyOK
        <4> QED BY <2>2, <4>2
      <3> QED BY <3>2, <3>3
    <2> QED BY <2>3, <2>4
  <1>16. ASSUME NEW t \in Sellers
         PROVE  SellerOK(t)'
    <2>1. SellerOK(t)
      BY DEF Inv
    <2>2. CASE t = s
      <3>1. s \notin disturbed' /\ {s} \notin overlaps => told'[s] = ViewOf(profiles'[s])
        BY <1>2, <1>4, <1>8, <1>9, <2>1, <2>2 DEF SellerOK
      <3> QED BY <1>2, <1>3, <1>4, <1>10, <1>13, <2>1, <2>2, <3>1 DEF SellerOK
    <2>3. CASE t # s
      <3>1. t \notin disturbed' => t \notin disturbed
        BY <1>9
      <3> QED BY <1>2, <1>3, <1>10, <1>13, <2>1, <2>3, <3>1 DEF SellerOK
    <2> QED BY <2>2, <2>3
  <1> QED BY <1>11, <1>12, <1>13, <1>14, <1>15, <1>16 DEF Inv

LEMMA IndexStep ==
    ASSUME Inv, NEW r \in Requests, WriteHandleIndex(r)
    PROVE  Inv'
  <1> DEFINE s == request[r].seller
             h == request[r].profile.handle
  <1>1. r \in Active /\ request[r].step = "index"
    BY DEF WriteHandleIndex, Active, Idle
  <1>2. /\ request[r] \in Request /\ RequestOK(r)
        /\ request \in [Requests -> Request \cup {Idle}]
        /\ told \in [Sellers -> View \cup {None}] /\ disturbed \subseteq Sellers
        /\ handleIndex \in [Handles -> Sellers \cup {None}]
    BY <1>1, ActiveType DEF Inv, TypeOK
  <1>3. s \in Sellers /\ h \in Handles /\ request[r].profile \in Profile
    BY <1>2 DEF Request, Profile
  <1>4. /\ request[r].op = "create" /\ told[s] = None
        /\ profiles[s] = request[r].profile
        /\ \A x \in Active \ {r} : request[x].seller # s
        /\ \A t \in Sellers \ {s} : handleIndex[h] = t => {s, t} \in overlaps
    BY <1>1, <1>2 DEF RequestOK
  <1> DEFINE answer == ViewOf(request[r].profile)
  <1>5. answer \in View /\ answer # None
    BY <1>3, NothingAssumption DEF ViewOf, Profile, View
  <1>6. Answer(r, request[r].profile) = answer
    BY <1>4 DEF Answer, OnCreateSeller
  <1>7. /\ request' = [request EXCEPT ![r] = Idle]
        /\ \/ told' = [told EXCEPT ![s] = answer] /\ UNCHANGED disturbed
           \/ disturbed' = disturbed \cup {s} /\ UNCHANGED told
        /\ handleIndex' = [handleIndex EXCEPT ![h] = s]
        /\ IF told'[s] # None THEN sessions' = sessions \cup {s} ELSE UNCHANGED sessions
        /\ UNCHANGED <<profiles, issued, begun, crashes, overlaps>>
    BY <1>6 DEF WriteHandleIndex, PostSellersAnswer, Finish, CreateSellerSessionToken
  <1> HIDE DEF answer
  <1>8. /\ request'[r] = Idle
        /\ \A x \in Requests \ {r} : request'[x] = request[x]
        /\ \A t \in Sellers \ {s} : told'[t] = told[t]
        /\ told'[s] \in {None, answer}
        /\ handleIndex'[h] = s /\ \A g \in Handles \ {h} : handleIndex'[g] = handleIndex[g]
    BY <1>2, <1>3, <1>4, <1>7
  <1>9. TypeOK'
    <2>1. request' \in [Requests -> Request \cup {Idle}]
          /\ handleIndex' \in [Handles -> Sellers \cup {None}]
      BY <1>2, <1>3, <1>7
    <2>2. told' \in [Sellers -> View \cup {None}] /\ disturbed' \subseteq Sellers
      BY <1>2, <1>3, <1>5, <1>7
    <2>3. sessions' \subseteq Sellers
      BY <1>3, <1>7 DEF Inv, TypeOK
    <2> QED BY <1>7, <2>1, <2>2, <2>3 DEF Inv, TypeOK
  <1>10. Active' = Active \ {r} /\ Existing' = Existing
    BY <1>7, <1>8 DEF Active, Existing
  <1>11. Overlapping' /\ SameNameMeansOverlap'
    BY <1>7, <1>8, <1>10 DEF Inv, Overlapping, Active, SameNameMeansOverlap
  <1>12. ASSUME NEW x \in Active \ {r}
         PROVE  RequestOK(x)' /\ NameOK(x)'
    <2>1. /\ request'[x] = request[x] /\ RequestOK(x) /\ NameOK(x)
          /\ request[x] \in Request /\ request[x].seller \in Sellers \ {s}
          /\ {request[x].seller, s} \in overlaps
      BY <1>1, <1>4, <1>8, ActiveType DEF Inv, Active, Request, Overlapping
    <2>2. NameOK(x)'
      BY <1>7, <1>10, <2>1 DEF NameOK
    <2>3. told'[request[x].seller] = told[request[x].seller]
      BY <1>8, <2>1
    <2>4. CASE request[x].op = "create"
      <3>1. \A y \in Active' \ {x} : y \in Active /\ request'[y] = request[y]
        BY <1>8, <1>10 DEF Active
      <3>2. ASSUME NEW t \in Sellers \ {request[x].seller},
                   handleIndex'[request[x].profile.handle] = t
            PROVE  {request[x].seller, t} \in overlaps
        <4>1. request[x].profile.handle \in Handles
          BY <2>1 DEF Request, Profile
        <4>2. CASE request[x].profile.handle = h
          BY <1>8, <2>1, <3>2, <4>2
        <4>3. CASE request[x].profile.handle # h
          BY <1>8, <2>1, <2>4, <3>2, <4>1, <4>3 DEF RequestOK
        <4> QED BY <4>2, <4>3
      <3>3. RequestOK(x)'
        BY <1>7, <1>10, <2>1, <2>3, <2>4, <3>1, <3>2 DEF RequestOK
      <3> QED BY <2>2, <3>3
    <2>5. CASE request[x].op # "create"
      <3>1. RequestOK(x)'
        BY <1>7, <2>1, <2>3, <2>5 DEF RequestOK, CopyOK
      <3> QED BY <2>2, <3>1
    <2> QED BY <2>4, <2>5
  <1>13. ASSUME NEW t \in Sellers
         PROVE  SellerOK(t)'
    <2>1. SellerOK(t)
      BY DEF Inv
    <2>2. CASE t = s
      <3>1. s \in sessions' => told'[s] # None
        BY <1>4, <1>7, <2>1, <2>2 DEF SellerOK
      <3>2. ASSUME told'[s] # None
            PROVE  /\ s \in Existing'
                   /\ told'[s] = ViewOf(profiles'[s])
                   /\ handleIndex'[profiles'[s].handle] = s
        <4>1. s \in Existing
          BY <1>3, <1>4, ExistingType DEF Inv
        <4> QED BY <1>4, <1>7, <1>8, <1>10, <3>2, <4>1 DEF answer
      <3> QED BY <2>2, <3>1, <3>2 DEF SellerOK
    <2>3. CASE t # s
      <3>1. /\ told'[t] = told[t] /\ (t \notin disturbed' => t \notin disturbed)
            /\ t \in sessions' => t \in sessions
        BY <1>7, <1>8, <2>3
      <3>2. ASSUME told[t] # None
            PROVE  \/ handleIndex'[profiles[t].handle] = t
                   \/ \E u \in Sellers \ {t} : {t, u} \in overlaps
        <4>1. profiles[t].handle \in Handles
          BY <2>1, <3>2, ExistingType DEF SellerOK, Inv, Profile
        <4>2. CASE handleIndex[profiles[t].handle] = t /\ profiles[t].handle = h
          <5>1. {s, t} \in overlaps
            BY <1>4, <2>3, <4>2
          <5>2. {t, s} \in overlaps
            BY <5>1, Pair
          <5> QED BY <1>3, <2>3, <5>2
        <4>3. CASE handleIndex[profiles[t].handle] = t /\ profiles[t].handle # h
          BY <1>8, <4>1, <4>3
        <4>4. CASE handleIndex[profiles[t].handle] # t
          BY <2>1, <3>2, <4>4 DEF SellerOK
        <4> QED BY <4>2, <4>3, <4>4
      <3> QED BY <1>7, <1>10, <2>1, <3>1, <3>2 DEF SellerOK
    <2> QED BY <2>2, <2>3
  <1> QED BY <1>9, <1>10, <1>11, <1>12, <1>13 DEF Inv

-----------------------------------------------------------------------------
(* Sessions, and crashes. *)

LEMMA SessionsStep ==
    ASSUME Inv, NEW s \in Sellers, OnLoginSeller(s) \/ LoadSellerSession(s) \/ OnLogout(s)
    PROVE  Inv'
  <1>1. /\ UNCHANGED <<profiles, handleIndex, request, issued, begun, crashes, overlaps, disturbed>>
        /\ sessions' \subseteq sessions \cup {s}
        /\ told[s] # None
        /\ \/ told' = told
           \/ told' = [told EXCEPT ![s].displayName = profiles[s].displayName]
    BY DEF OnLoginSeller, LoadSellerSession, OnLogout, ApplySeller, PostSellerSession,
           GetSellerSession, CreateSellerSessionToken, DeleteSellerSession, RequireSeller,
           VerifySellerSessionToken, Inv, SellerOK
  <1>2. /\ told \in [Sellers -> View \cup {None}] /\ told[s] \in View
        /\ s \in Existing /\ profiles[s] \in Profile
    BY <1>1, ExistingType DEF Inv, TypeOK, SellerOK
  <1>3. /\ told'[s] \in View /\ told'[s] # None
        /\ told[s] = ViewOf(profiles[s]) => told'[s] = told[s]
        /\ \A t \in Sellers \ {s} : told'[t] = told[t]
        /\ told' \in [Sellers -> View \cup {None}]
    <2>1. CASE told' = told
      BY <1>1, <1>2, <2>1
    <2>2. CASE told' = [told EXCEPT ![s].displayName = profiles[s].displayName]
      <3>1. /\ told'[s] = [told[s] EXCEPT !.displayName = profiles[s].displayName]
            /\ told' = [told EXCEPT ![s] = told'[s]]
        BY <1>2, <2>2
      <3>2. told'[s] \in View /\ told'[s] # None
        BY <1>2, <3>1, NothingAssumption DEF View, Profile
      <3>3. told[s] = ViewOf(profiles[s]) => told'[s] = told[s]
        BY <3>1 DEF ViewOf
      <3> QED BY <1>2, <3>1, <3>2, <3>3
    <2> QED BY <1>1, <2>1, <2>2
  <1>4. TypeOK'
    BY <1>1, <1>3 DEF Inv, TypeOK
  <1>5. Overlapping' /\ SameNameMeansOverlap' /\ Active' = Active
    BY <1>1 DEF Inv, Overlapping, SameNameMeansOverlap, Active, Existing
  <1>6. ASSUME NEW x \in Active
        PROVE  RequestOK(x)' /\ NameOK(x)'
    <2>1. /\ RequestOK(x) /\ NameOK(x) /\ request'[x] = request[x]
          /\ request[x].seller \in Sellers
      BY <1>1, ActiveType DEF Inv, Active, Request
    <2>2. told'[request[x].seller] = None <=> told[request[x].seller] = None
      BY <1>1, <1>3, <2>1
    <2>3. RequestOK(x)' /\ NameOK(x)'
      BY <1>1, <2>1, <2>2 DEF RequestOK, NameOK, CopyOK, Active, Existing
    <2> QED BY <2>3
  <1>7. ASSUME NEW t \in Sellers
        PROVE  SellerOK(t)'
    <2>1. SellerOK(t)
      BY DEF Inv
    <2>2. CASE t = s
      <3>1. s \notin disturbed /\ {s} \notin overlaps => told'[s] = ViewOf(profiles[s])
        BY <1>1, <1>3, <2>1, <2>2 DEF SellerOK
      <3> QED BY <1>1, <1>3, <2>1, <2>2, <3>1 DEF SellerOK, Existing
    <2>3. CASE t # s
      BY <1>1, <1>3, <2>1, <2>3 DEF SellerOK, Existing
    <2> QED BY <2>2, <2>3
  <1> QED BY <1>4, <1>5, <1>6, <1>7 DEF Inv

LEMMA CrashStep ==
    ASSUME Inv, Crash
    PROVE  Inv'
  <1>1. /\ UNCHANGED <<profiles, handleIndex, sessions, told, issued, begun, overlaps>>
        /\ request' = [r \in Requests |-> Idle]
        /\ disturbed' = disturbed \cup {request[r].seller : r \in Active}
        /\ crashes' \in 0 .. MaxCrashes
    BY SellerAssumption DEF Crash, Inv, TypeOK
  <1>2. \A r \in Active : request[r].seller \in Sellers
    BY ActiveType DEF Inv, Active, Request
  <1>3. disturbed \subseteq disturbed' /\ disturbed' \subseteq Sellers
    BY <1>1, <1>2 DEF Inv, TypeOK
  <1>4. TypeOK'
    BY <1>1, <1>3 DEF Inv, TypeOK
  <1>5. Active' = {}
    BY <1>1 DEF Active
  <1> QED BY <1>1, <1>3, <1>4, <1>5, SellersStay DEF Inv, Overlapping

-----------------------------------------------------------------------------
LEMMA Invariance == Inv /\ [Next]_vars => Inv'
  <1> SUFFICES ASSUME Inv, [Next]_vars PROVE Inv'
    OBVIOUS
  <1>1. ASSUME NEW r \in Requests, NEW s \in Sellers,
               \/ \E h \in Handles, name \in Names \cup {None}, ufvk \in ScanRefs \cup {None} :
                    CreateSellerProfile(r, s, h, name, ufvk)
               \/ \E given \in BOOLEAN, name \in Names \cup {None} :
                    PatchSeller(r, s, given, name)
               \/ PostAccessKey(r, s)
               \/ \E ufvk \in ScanRefs : PostUfvk(r, s, ufvk)
        PROVE  Inv'
    <2>1. ASSUME NEW h \in Handles, NEW name \in Names \cup {None},
                 NEW ufvk \in ScanRefs \cup {None}, CreateSellerProfile(r, s, h, name, ufvk)
          PROVE  Inv'
      BY <2>1, CreateStep
    <2> QED BY <1>1, <2>1, RouteStep
  <1>2. ASSUME NEW r \in Requests,
               \/ ListProfiles(r) \/ ReadProfile(r) \/ ScannerAnswers(r)
               \/ WriteProfile(r) \/ WriteHandleIndex(r)
        PROVE  Inv'
    BY <1>2, ReadStep, ScannerStep, WriteNewStep, WriteOldStep, IndexStep
  <1>3. ASSUME UNCHANGED vars
        PROVE  Inv'
    <2>1. UNCHANGED <<profiles, handleIndex, sessions, told, request, issued, begun,
                      crashes, overlaps, disturbed>>
      BY <1>3 DEF vars
    <2> QED BY <2>1 DEF Inv, TypeOK, Overlapping, RequestOK, CopyOK, NameOK, SellerOK,
                        SameNameMeansOverlap, Active, Existing
  <1> QED BY <1>1, <1>2, <1>3, SessionsStep, CrashStep DEF Next

\* The invariant of requests and shops holds in every reachable state.
THEOREM InvAlways == Spec => []Inv
  BY InitInv, Invariance, PTL DEF Spec

\* The variables keep their types.
THEOREM TypeCorrect == Spec => []TypeOK
  <1>1. Inv => TypeOK
    BY DEF Inv
  <1> QED BY <1>1, InvAlways, PTL

\* isDisplayNameAvailable reads the profiles one by one and takes no lock: nothing but a
\* race of two shops' requests gives them one name.
THEOREM NamesDiffer == Spec => []SameNameMeansOverlap
  <1>1. Inv => SameNameMeansOverlap
    BY DEF Inv
  <1> QED BY <1>1, InvAlways, PTL

\* createSellerProfile writes the profile before the handle index: nothing but a race of
\* two shops' requests hides an answered shop from its handle.
THEOREM HandlesFind == Spec => []HandleFindsItsSeller
  <1>1. Inv => HandleFindsItsSeller
    <2> SUFFICES ASSUME Inv, NEW s \in Sellers, told[s] # None,
                        \A t \in Sellers \ {s} : {s, t} \notin overlaps
                 PROVE  FindSellerIdByHandle(profiles[s].handle) = s
      BY DEF HandleFindsItsSeller
    <2> QED BY DEF Inv, SellerOK, FindSellerIdByHandle
  <1> QED BY <1>1, InvAlways, PTL

\* A seller whose requests come one at a time and are all answered finds the profile, and
\* the access key, as the page was told (the read-modify-writes of seller-store.ts).
THEOREM AnswersHold == Spec => []LastAnswerHolds
  <1>1. Inv => LastAnswerHolds
    BY DEF Inv, SellerOK, LastAnswerHolds
  <1> QED BY <1>1, InvAlways, PTL
=============================================================================
