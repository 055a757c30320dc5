----------------------------- MODULE ProtoProofs -----------------------------
(***************************************************************************)
(* What TLAPS proves about Proto, for any number of connections, remote    *)
(* nodes, questions and seconds: no answer stops an actor, every question  *)
(* is forgotten in time, and a handler gives up for a reason.              *)
(***************************************************************************)
EXTENDS Proto, TLAPS

Question ==
  [kind : Kind, key : Key, ch : BOOLEAN, result : {"waiting", "answer", "timeout"},
   conn : Conn \cup {None}, keepAlive : BOOLEAN, deadline : Nat,
   displaced : BOOLEAN, lost : BOOLEAN]

Job == [do : {"send", "response", "expire"}, id : Nat] \cup [do : {"cleanup"}]

Types ==
  /\ now \in Nat
  /\ asked \in Seq(Question)
  /\ inbox \in [Actor -> Seq(Job)]
  /\ requests \in [Kind -> [Key -> Request \cup {None}]]
  /\ cleanup \in Nat \cup {None}
  /\ net \subseteq [type : {"request", "response"}, id : Nat, size : Nat]

\* Some actor has been told to do this for this question, or to clean up.
Has(q, what, id) == \E j \in DOMAIN q : q[j].do = what /\ q[j].id = id
Pending(what, id) == \E a \in Actor : Has(inbox[a], what, id)
HasCleanup(q) == \E j \in DOMAIN q : q[j].do = "cleanup"
Cleaning == \E a \in Actor : HasCleanup(inbox[a])

\* The question of an entry.
Holds(kind, key, id) == requests[kind][key] # None /\ requests[kind][key].id = id

\* Messages and jobs are about questions.
Known ==
  /\ \A m \in net : m.id \in DOMAIN asked
  /\ \A what \in {"send", "response", "expire"}, id \in Nat :
       Pending(what, id) => id \in DOMAIN asked

\* A question is sent once.
SentOnce ==
  \A a, b \in Actor : \A i \in DOMAIN inbox[a], j \in DOMAIN inbox[b] :
    (/\ inbox[a][i].do = "send" /\ inbox[b][j].do = "send"
     /\ inbox[a][i].id = inbox[b][j].id) => a = b /\ i = j

\* Until it is sent a question has no entry and no answer.
Unsent ==
  \A id \in DOMAIN asked : Pending("send", id) =>
    ~asked[id].ch /\ \A kind \in Kind, key \in Key : ~Holds(kind, key, id)

\* An entry is of a question to its node, which has no answer yet.
Open ==
  \A kind \in Kind, key \in Key, id \in Nat : Holds(kind, key, id) =>
    /\ id \in DOMAIN asked
    /\ asked[id].kind = kind /\ asked[id].key = key
    /\ ~asked[id].ch

\* An entry of protoHandler has its timer, which is not overdue, or the actor
\* has been told that it expired.
Timed ==
  \A kind \in Kind, key \in Key, id \in Nat : (kind # "getnodeinfo" /\ Holds(kind, key, id)) =>
    LET e == requests[kind][key]
    IN  /\ now <= e.created + Minute
        /\ e.timer # None => e.timer = e.created + Minute
        /\ e.timer = None => Pending("expire", id)

\* An entry of nodeinfo lasts until the clean-up after next at most, and one is
\* due, or the actor has been told.
Cleaned ==
  /\ cleanup # None => now <= cleanup /\ cleanup <= now + HalfMinute
  /\ cleanup = None => Cleaning
  /\ \A key \in Key : requests["getnodeinfo"][key] # None =>
       LET e == requests["getnodeinfo"][key]
       IN  /\ e.timer = None
           /\ now <= e.created + Minute + HalfMinute
           /\ cleanup # None => cleanup <= e.created + Minute + HalfMinute

\* A handler waits no longer than to its deadline, which comes before the entry
\* of its question is old.
Patient ==
  \A id \in DOMAIN asked : Waits(id) =>
    /\ now <= asked[id].deadline
    /\ Pending("send", id) => asked[id].deadline = now + Wait
    /\ ~Pending("expire", id)
    /\ \A kind \in Kind, key \in Key : Holds(kind, key, id) =>
         asked[id].deadline = requests[kind][key].created + Wait

\* As long as a handler waits, there is a reason to: its question is still to be
\* sent, or it or its answer is on its way and the entry is there, or the answer
\* has come; otherwise it waits in vain.
OnItsWay(id) == (\E m \in net : m.id = id) \/ Pending("response", id)
Reason ==
  \A id \in DOMAIN asked : Waits(id) =>
    \/ asked[id].displaced \/ asked[id].lost \/ asked[id].ch
    \/ Pending("send", id)
    \/ (\E kind \in Kind, key \in Key : Holds(kind, key, id)) /\ OnItsWay(id)

Inv == Known /\ SentOnce /\ Unsent /\ Open /\ Timed /\ Cleaned /\ Patient /\ Reason

-----------------------------------------------------------------------------
(* The inboxes *)

\* What Append does to a queue of jobs.
LEMMA AppendJob ==
  ASSUME NEW q \in Seq(Job), NEW m \in Job
  PROVE  /\ Append(q, m) \in Seq(Job)
         /\ DOMAIN Append(q, m) = DOMAIN q \cup {Len(q) + 1}
         /\ \A i \in DOMAIN q : i # Len(q) + 1 /\ Append(q, m)[i] = q[i]
         /\ Append(q, m)[Len(q) + 1] = m
  OBVIOUS

\* What Head and Tail do to it.
LEMMA TailJob ==
  ASSUME NEW q \in Seq(Job), q # <<>>
  PROVE  /\ Tail(q) \in Seq(Job) /\ Head(q) \in Job
         /\ 1 \in DOMAIN q /\ Head(q) = q[1]
         /\ \A i \in DOMAIN Tail(q) : i \in Nat /\ i + 1 # 1 /\ i + 1 \in DOMAIN q
                                        /\ Tail(q)[i] = q[i + 1]
         /\ \A i \in DOMAIN q : i \in Nat /\ (i # 1 => i - 1 \in DOMAIN Tail(q) /\ Tail(q)[i - 1] = q[i])
  OBVIOUS

\* The jobs of a queue with one more.
LEMMA AppendHas ==
  ASSUME NEW q \in Seq(Job), NEW m \in Job
  PROVE  /\ \A what, id : Has(Append(q, m), what, id) <=> Has(q, what, id) \/ (m.do = what /\ m.id = id)
         /\ HasCleanup(Append(q, m)) <=> HasCleanup(q) \/ m.do = "cleanup"
  BY AppendJob DEF Has, HasCleanup

\* The jobs of a queue without the first.
LEMMA TailHas ==
  ASSUME NEW q \in Seq(Job), q # <<>>
  PROVE  LET m == Head(q)
         IN  /\ \A what, id : Has(q, what, id) <=> Has(Tail(q), what, id) \/ (m.do = what /\ m.id = id)
             /\ HasCleanup(q) <=> HasCleanup(Tail(q)) \/ m.do = "cleanup"
  <1>1. ASSUME NEW j \in DOMAIN q PROVE q[j] = Head(q) \/ \E i \in DOMAIN Tail(q) : q[j] = Tail(q)[i]
    <2>1. CASE j = 1
      BY <2>1, TailJob, ZenonT(30)
    <2>2. CASE j # 1
      <3>1. j - 1 \in DOMAIN Tail(q) /\ Tail(q)[j - 1] = q[j]
        BY <2>2, TailJob, ZenonT(30)
      <3>2. QED
        BY <3>1, ZenonT(30)
    <2>3. QED
      BY <2>1, <2>2, ZenonT(30)
  <1>2. ASSUME NEW i \in DOMAIN Tail(q) PROVE \E j \in DOMAIN q : q[j] = Tail(q)[i]
    <2>1. i + 1 \in DOMAIN q /\ Tail(q)[i] = q[i + 1]
      BY TailJob, ZenonT(30)
    <2>2. QED
      BY <2>1, ZenonT(30)
  <1>3. \E j \in DOMAIN q : q[j] = Head(q)
    BY TailJob, ZenonT(30)
  <1> DEFINE t == Tail(q)
             m == Head(q)
  <1> HIDE DEF t, m
  <1>4. /\ \A j \in DOMAIN q : q[j] = m \/ \E i \in DOMAIN t : q[j] = t[i]
        /\ \A i \in DOMAIN t : \E j \in DOMAIN q : q[j] = t[i]
        /\ \E j \in DOMAIN q : q[j] = m
    BY <1>1, <1>2, <1>3, ZenonT(30) DEF t, m
  <1>5. \A what, id : Has(q, what, id) <=> Has(t, what, id) \/ (m.do = what /\ m.id = id)
    BY <1>4 DEF Has
  <1>6. HasCleanup(q) <=> HasCleanup(t) \/ m.do = "cleanup"
    BY <1>4, ZenonT(30) DEF HasCleanup
  <1>7. QED
    BY <1>5, <1>6, ZenonT(30) DEF t, m

\* An actor is told something more.
LEMMA Told ==
  ASSUME Types, NEW a \in Actor, NEW m \in Job, Tell(a, m)
  PROVE  /\ inbox' \in [Actor -> Seq(Job)]
         /\ \A what, id : Pending(what, id)' <=> Pending(what, id) \/ (m.do = what /\ m.id = id)
         /\ Cleaning' <=> Cleaning \/ m.do = "cleanup"
         /\ (SentOnce /\ (m.do = "send" => ~Pending("send", m.id))) => SentOnce'
  <1> DEFINE n == Len(inbox[a]) + 1
  <1>1. inbox[a] \in Seq(Job) /\ inbox' = [inbox EXCEPT ![a] = Append(inbox[a], m)]
    BY ZenonT(30) DEF Types, Tell
  <1>2. inbox'[a] = Append(inbox[a], m) /\ \A b \in Actor : b # a => inbox'[b] = inbox[b]
    BY <1>1, ZenonT(30) DEF Types
  <1>3. /\ inbox'[a] \in Seq(Job)
        /\ DOMAIN inbox'[a] = DOMAIN inbox[a] \cup {n}
        /\ \A i \in DOMAIN inbox[a] : i # n /\ inbox'[a][i] = inbox[a][i]
        /\ inbox'[a][n] = m
    BY <1>1, <1>2, AppendJob
  <1> HIDE DEF n
  <1>4. inbox' \in [Actor -> Seq(Job)]
    BY <1>1, <1>2, <1>3, ZenonT(30) DEF Types
  <1>5. \A what, id : Pending(what, id)' <=> Pending(what, id) \/ (m.do = what /\ m.id = id)
    BY <1>1, <1>2, AppendHas DEF Pending
  <1>6. Cleaning' <=> Cleaning \/ m.do = "cleanup"
    <2>1. HasCleanup(inbox'[a]) <=> HasCleanup(inbox[a]) \/ m.do = "cleanup"
      BY <1>1, <1>2, AppendHas, ZenonT(30)
    <2>2. QED
      BY <1>2, <2>1, ZenonT(30) DEF Cleaning
  <1>7. ASSUME SentOnce, m.do = "send" => ~Pending("send", m.id)
        PROVE  SentOnce'
    <2>1. \A b \in Actor : \A i \in DOMAIN inbox[b] :
            ~(m.do = "send" /\ inbox[b][i].do = "send" /\ inbox[b][i].id = m.id)
      BY <1>7, ZenonT(30) DEF Pending, Has
    <2>2. QED
      <3> SUFFICES ASSUME NEW b \in Actor, NEW c \in Actor,
                          NEW i \in DOMAIN inbox'[b], NEW j \in DOMAIN inbox'[c],
                          inbox'[b][i].do = "send", inbox'[c][j].do = "send",
                          inbox'[b][i].id = inbox'[c][j].id
                   PROVE  b = c /\ i = j
        BY DEF SentOnce
      <3>1. (b = a /\ i = n /\ inbox'[b][i] = m) \/ (i \in DOMAIN inbox[b] /\ inbox'[b][i] = inbox[b][i])
        BY <1>2, <1>3, ZenonT(30)
      <3>2. (c = a /\ j = n /\ inbox'[c][j] = m) \/ (j \in DOMAIN inbox[c] /\ inbox'[c][j] = inbox[c][j])
        BY <1>2, <1>3, ZenonT(30)
      <3>3. QED
        BY <1>7, <2>1, <3>1, <3>2 DEF SentOnce
  <1>8. QED
    BY <1>4, <1>5, <1>6, <1>7, ZenonT(30)

\* An actor takes the first job.
LEMMA Taken ==
  ASSUME Types, NEW a \in Actor, inbox[a] # <<>>, inbox' = [inbox EXCEPT ![a] = Tail(@)]
  PROVE  LET m == Head(inbox[a])
         IN  /\ m \in Job
             /\ inbox' \in [Actor -> Seq(Job)]
             /\ \A what, id : Pending(what, id) <=> Pending(what, id)' \/ (m.do = what /\ m.id = id)
             /\ Cleaning <=> Cleaning' \/ m.do = "cleanup"
             /\ SentOnce => SentOnce' /\ \A id : (m.do = "send" /\ m.id = id) => ~Pending("send", id)'
  <1> DEFINE m == Head(inbox[a])
  <1>1. inbox[a] \in Seq(Job)
    BY ZenonT(30) DEF Types
  <1>2. inbox'[a] = Tail(inbox[a]) /\ \A b \in Actor : b # a => inbox'[b] = inbox[b]
    BY ZenonT(30) DEF Types
  <1>3. /\ inbox'[a] \in Seq(Job) /\ m \in Job
        /\ 1 \in DOMAIN inbox[a] /\ m = inbox[a][1]
        /\ \A i \in DOMAIN inbox'[a] : i \in Nat /\ i + 1 # 1 /\ i + 1 \in DOMAIN inbox[a]
                                        /\ inbox'[a][i] = inbox[a][i + 1]
    <2> DEFINE q == inbox[a]
    <2>1. /\ Tail(q) \in Seq(Job) /\ Head(q) \in Job
          /\ 1 \in DOMAIN q /\ Head(q) = q[1]
          /\ \A i \in DOMAIN Tail(q) : i \in Nat /\ i + 1 # 1 /\ i + 1 \in DOMAIN q
                                        /\ Tail(q)[i] = q[i + 1]
      BY <1>1, TailJob, ZenonT(30)
    <2>2. QED
      BY <1>2, <2>1, ZenonT(30)
  <1> HIDE DEF m
  <1>4. inbox' \in [Actor -> Seq(Job)]
    BY <1>1, <1>2, <1>3, ZenonT(30) DEF Types
  <1>5. \A what, id : Pending(what, id) <=> Pending(what, id)' \/ (m.do = what /\ m.id = id)
    BY <1>1, <1>2, TailHas DEF Pending, m
  <1>6. Cleaning <=> Cleaning' \/ m.do = "cleanup"
    <2>1. HasCleanup(inbox[a]) <=> HasCleanup(inbox'[a]) \/ m.do = "cleanup"
      BY <1>1, <1>2, TailHas, ZenonT(30) DEF m
    <2>2. QED
      BY <1>2, <2>1, ZenonT(30) DEF Cleaning
  <1>7. SentOnce => SentOnce'
    BY <1>2, <1>3 DEF SentOnce
  <1>8. SentOnce => \A id : (m.do = "send" /\ m.id = id) => ~Pending("send", id)'
    <2> SUFFICES ASSUME SentOnce, NEW id, m.do = "send", m.id = id,
                        NEW b \in Actor, NEW i \in DOMAIN inbox'[b],
                        inbox'[b][i].do = "send", inbox'[b][i].id = id
                 PROVE  FALSE
      BY ZenonT(30) DEF Pending, Has
    <2>1. CASE b = a
      BY <1>3, <2>1 DEF SentOnce
    <2>2. CASE b # a
      BY <1>2, <1>3, <2>2 DEF SentOnce
    <2>3. QED
      BY <2>1, <2>2, ZenonT(30)
  <1>9. QED
    BY <1>3, <1>4, <1>5, <1>6, <1>7, <1>8, ZenonT(30) DEF m

-----------------------------------------------------------------------------
(* Questions *)

\* A message of a question is lost.
LEMMA LostField ==
  ASSUME NEW q \in Question, NEW b \in BOOLEAN, NEW r, r = [q EXCEPT !.lost = b]
  PROVE  /\ r \in Question /\ r.kind = q.kind /\ r.key = q.key
         /\ r.result = q.result /\ r.deadline = q.deadline
         /\ (r.ch <=> q.ch) /\ (r.displaced <=> q.displaced) /\ (r.lost <=> b)
  BY ZenonT(30) DEF Question

\* A question loses its entry.
LEMMA DisplacedField ==
  ASSUME NEW q \in Question, NEW b \in BOOLEAN, NEW r, r = [q EXCEPT !.displaced = b]
  PROVE  /\ r \in Question /\ r.kind = q.kind /\ r.key = q.key
         /\ r.result = q.result /\ r.deadline = q.deadline
         /\ (r.ch <=> q.ch) /\ (r.displaced <=> b) /\ (r.lost <=> q.lost)
  BY ZenonT(30) DEF Question

\* What is known of a question.
LEMMA QuestionType ==
  ASSUME Types, NEW id \in DOMAIN asked
  PROVE  /\ asked[id] \in Question /\ id \in Nat
         /\ asked[id].kind \in Kind /\ asked[id].key \in Key /\ asked[id].deadline \in Nat
  <1>1. asked[id] \in Question /\ id \in Nat
    BY DEF Types
  <1>2. QED
    BY <1>1, ZenonT(30) DEF Question

\* One question is changed.
LEMMA Changed ==
  ASSUME Types, NEW i \in DOMAIN asked, NEW r \in Question, asked' = [asked EXCEPT ![i] = r]
  PROVE  /\ asked' \in Seq(Question) /\ DOMAIN asked' = DOMAIN asked
         /\ asked'[i] = r /\ \A j \in DOMAIN asked : j # i => asked'[j] = asked[j]
  BY DEF Types

\* A question is asked: it is the next, and waits to be sent.
LEMMA AskEffect ==
  ASSUME Types, NEW c \in Conn, NEW kind \in Kind, NEW key \in Key, NEW keepAlive \in BOOLEAN,
         HandleAdmin(c, kind, key, keepAlive)
  PROVE  LET n == Len(asked) + 1
         IN  /\ n \in Nat /\ n \notin DOMAIN asked
             /\ Tell(ActorOf(kind), [do |-> "send", id |-> n])
             /\ ActorOf(kind) \in Actor /\ [do |-> "send", id |-> n] \in Job
             /\ asked' \in Seq(Question) /\ DOMAIN asked' = DOMAIN asked \cup {n}
             /\ \A i \in DOMAIN asked : asked'[i] = asked[i]
             /\ ~asked'[n].ch /\ asked'[n].deadline = now + Wait
             /\ UNCHANGED <<now, requests, cleanup, net>>
  <1> DEFINE n == Len(asked) + 1
             q == [kind |-> kind, key |-> key, ch |-> FALSE, result |-> "waiting",
                   conn |-> c, keepAlive |-> keepAlive, deadline |-> now + Wait,
                   displaced |-> FALSE, lost |-> FALSE]
  <1>1. /\ Tell(ActorOf(kind), [do |-> "send", id |-> n]) /\ asked' = Append(asked, q)
        /\ UNCHANGED <<now, requests, cleanup, net>>
    BY ZenonT(30) DEF HandleAdmin, GetSelfHandler, GetPeersHandler, GetTreeHandler, NodeInfoAdminHandler,
           Ask, rigid
  <1>2. q \in Question /\ ~q.ch /\ q.deadline = now + Wait
    BY ProtoAssumption DEF Types, Question
  <1>3. /\ n \in Nat /\ n \notin DOMAIN asked /\ asked \in Seq(Question)
    BY DEF Types
  <1>4. ActorOf(kind) \in Actor /\ [do |-> "send", id |-> n] \in Job
    BY <1>3, ZenonT(30) DEF ActorOf, Actor, Job
  <1> HIDE DEF q
  <1>5. /\ asked' \in Seq(Question) /\ DOMAIN asked' = DOMAIN asked \cup {n}
        /\ \A i \in DOMAIN asked : asked'[i] = asked[i]
        /\ asked'[n] = q
    BY <1>1, <1>2, <1>3
  <1>6. QED
    BY <1>1, <1>2, <1>3, <1>4, <1>5, ZenonT(30)

\* A handler answers its caller, and waits no more.
LEMMA RespondEffect ==
  ASSUME Types, NEW id \in DOMAIN asked, NEW x \in {"answer", "timeout"}, Respond(id, x)
  PROVE  /\ asked' \in Seq(Question) /\ DOMAIN asked' = DOMAIN asked
         /\ \A j \in DOMAIN asked : j # id => asked'[j] = asked[j]
         /\ asked'[id].kind = asked[id].kind /\ asked'[id].key = asked[id].key
         /\ ~asked'[id].ch /\ asked'[id].result = x
         /\ UNCHANGED <<now, inbox, requests, cleanup, net>>
  <1> DEFINE r == [asked[id] EXCEPT !.result = x, !.ch = FALSE, !.conn = None, !.keepAlive = FALSE,
                                    !.deadline = 0, !.displaced = FALSE, !.lost = FALSE]
  <1>1. asked[id] \in Question
    BY DEF Types
  <1>2. r \in Question /\ r.kind = asked[id].kind /\ r.key = asked[id].key /\ ~r.ch /\ r.result = x
    BY <1>1, ZenonT(30) DEF Question
  <1>3. asked' = [asked EXCEPT ![id] = r] /\ UNCHANGED <<now, inbox, requests, cleanup, net>>
    BY ZenonT(30) DEF Respond, rigid
  <1> HIDE DEF r
  <1>4. QED
    BY <1>2, <1>3, Changed, ZenonT(30)

-----------------------------------------------------------------------------
(* Entries *)

\* Constants that the proofs calculate with.
LEMMA Constants ==
  /\ Wait \in Nat /\ Wait > 0 /\ HalfMinute \in Nat /\ HalfMinute > 0
  /\ Minute = 2 * HalfMinute /\ Minute \in Nat /\ Wait < Minute
  BY ProtoAssumption DEF Minute

\* What is known of an entry.
LEMMA EntryType ==
  ASSUME Types, NEW kind \in Kind, NEW key \in Key, requests[kind][key] # None
  PROVE  /\ requests[kind][key] \in Request /\ requests[kind][key].id \in Nat
         /\ requests[kind][key].created \in Nat /\ requests[kind][key].timer \in Nat \cup {None}
  <1>1. requests[kind][key] \in Request
    BY ZenonT(30) DEF Types
  <1>2. QED
    BY <1>1, ZenonT(30) DEF Request

\* One entry is changed.
LEMMA EntrySet ==
  ASSUME Types, NEW id \in DOMAIN asked, NEW e \in Request \cup {None}, SetEntry(id, e)
  PROVE  /\ asked[id].kind \in Kind /\ asked[id].key \in Key
         /\ requests' \in [Kind -> [Key -> Request \cup {None}]]
         /\ requests'[asked[id].kind][asked[id].key] = e
         /\ \A kind \in Kind, key \in Key : (kind # asked[id].kind \/ key # asked[id].key) =>
              requests'[kind][key] = requests[kind][key]
  <1>1. asked[id].kind \in Kind /\ asked[id].key \in Key
    BY QuestionType, ZenonT(30)
  <1>2. QED
    BY <1>1, ZenonT(30) DEF Types, SetEntry

\* A handler whose entry is taken is marked, and nothing else happens to it.
LEMMA DisplaceEffect ==
  ASSUME Types, NEW id \in DOMAIN asked, Displace(id)
  PROVE  /\ asked' \in Seq(Question) /\ DOMAIN asked' = DOMAIN asked
         /\ \A i \in DOMAIN asked :
              /\ asked'[i].kind = asked[i].kind /\ asked'[i].key = asked[i].key
              /\ asked'[i].result = asked[i].result /\ asked'[i].deadline = asked[i].deadline
              /\ (asked'[i].ch <=> asked[i].ch) /\ (asked'[i].lost <=> asked[i].lost)
              /\ asked[i].displaced => asked'[i].displaced
              /\ (Waits(i) /\ Holds(asked[id].kind, asked[id].key, i)) => asked'[i].displaced
  <1> DEFINE r(i) == [asked[i] EXCEPT !.displaced = @ \/ Waits(i)]
             d(i) == IF Entry(id) # None /\ i = Entry(id).id THEN r(i) ELSE asked[i]
  <1>1. asked' = [i \in DOMAIN asked |-> d(i)]
    BY ZenonT(30) DEF Displace
  <1>2. ASSUME NEW i \in DOMAIN asked
        PROVE  /\ asked[i] \in Question
               /\ d(i) \in Question
               /\ d(i).kind = asked[i].kind /\ d(i).key = asked[i].key
               /\ d(i).result = asked[i].result /\ d(i).deadline = asked[i].deadline
               /\ (d(i).ch <=> asked[i].ch) /\ (d(i).lost <=> asked[i].lost)
               /\ asked[i].displaced => d(i).displaced
               /\ (Waits(i) /\ Holds(asked[id].kind, asked[id].key, i)) => d(i).displaced
    <2>1. asked[i] \in Question
      BY DEF Types
    <2>2. PICK b \in BOOLEAN : b = (asked[i].displaced \/ Waits(i))
      BY Zenon
    <2>3. r(i) = [asked[i] EXCEPT !.displaced = b]
      BY <2>1, <2>2, ZenonT(30) DEF Question
    <2> HIDE DEF r
    <2>4. /\ r(i) \in Question /\ r(i).kind = asked[i].kind /\ r(i).key = asked[i].key
          /\ r(i).result = asked[i].result /\ r(i).deadline = asked[i].deadline
          /\ (r(i).ch <=> asked[i].ch) /\ (r(i).lost <=> asked[i].lost)
          /\ (r(i).displaced <=> b)
      BY <2>1, <2>3, DisplacedField
    <2>5. r(i).displaced <=> (asked[i].displaced \/ Waits(i))
      BY <2>2, <2>4, ZenonT(30)
    <2>6. QED
      BY <2>1, <2>4, <2>5, ZenonT(30) DEF Holds, Entry
  <1>3. PICK n \in Nat : DOMAIN asked = 1..n
    BY DEF Types
  <1> HIDE DEF d
  <1>4. asked' \in Seq(Question) /\ DOMAIN asked' = DOMAIN asked
    <2>1. asked' \in [1..n -> Question]
      BY <1>1, <1>2, <1>3, ZenonT(30)
    <2>2. QED
      BY <1>3, <2>1
  <1>5. \A i \in DOMAIN asked : asked'[i] = d(i)
    BY <1>1, ZenonT(30)
  <1>6. QED
    BY <1>2, <1>4, <1>5, ZenonT(30)

\* A question is sent: it takes the place of another, and has a message under way.
LEMMA SendEffect ==
  ASSUME Types, NEW id \in DOMAIN asked, Send(id)
  PROVE  LET k == asked[id].kind
             n == asked[id].key
         IN  /\ k \in Kind /\ n \in Key /\ Displace(id)
             /\ requests' \in [Kind -> [Key -> Request \cup {None}]]
             /\ \A kind \in Kind, key \in Key : (kind # k \/ key # n) =>
                  requests'[kind][key] = requests[kind][key]
             /\ requests'[k][n] # None /\ requests'[k][n].id = id /\ requests'[k][n].created = now
             /\ requests'[k][n].timer = IF k = "getnodeinfo" THEN None ELSE now + Minute
             /\ net' \subseteq [type : {"request", "response"}, id : Nat, size : Nat]
             /\ net \subseteq net' /\ (\E m \in net' : m.id = id)
             /\ \A m \in net' : m \in net \/ m.id = id
             /\ cleanup' = cleanup
  <1> DEFINE k == asked[id].kind
             n == asked[id].key
             T == IF k = "getnodeinfo" THEN None ELSE now + Minute
             e == [id |-> id, created |-> now, timer |-> T]
             m == [type |-> "request", id |-> id, size |-> IF k = "getnodeinfo" THEN 2 ELSE 3]
  <1>1. k \in Kind /\ n \in Key /\ id \in Nat /\ now \in Nat
    BY QuestionType, ZenonT(30) DEF Types
  <1>2. e \in Request /\ e # None
    BY <1>1, Constants, NoneAssumption DEF Request
  <1>3. Displace(id) /\ SetEntry(id, e) /\ cleanup' = cleanup
    BY ZenonT(30) DEF Send, SendGetSelfRequest, SendGetPeersRequest, SendGetTreeRequest, SendReq,
           SendDebugRequest, AddCallback
  <1>4. m \in [type : {"request", "response"}, id : Nat, size : Nat] /\ m.id = id /\ WriteTo(m) = {m}
    BY <1>1, ProtoAssumption DEF WriteTo
  <1>5. net' = net \cup WriteTo(m)
    BY DEF Send, SendGetSelfRequest, SendGetPeersRequest, SendGetTreeRequest, SendReq,
           SendDebugRequest, Debug
  <1>6. /\ requests' \in [Kind -> [Key -> Request \cup {None}]] /\ requests'[k][n] = e
        /\ \A kind \in Kind, key \in Key : (kind # k \/ key # n) =>
             requests'[kind][key] = requests[kind][key]
    BY <1>2, <1>3, EntrySet
  <1>7. e.id = id /\ e.created = now /\ e.timer = T
    OBVIOUS
  <1>8. /\ net' \subseteq [type : {"request", "response"}, id : Nat, size : Nat]
        /\ net \subseteq net' /\ (\E x \in net' : x.id = id)
        /\ \A x \in net' : x \in net \/ x.id = id
    <2> HIDE DEF m
    <2>1. QED
      BY <1>4, <1>5, ZenonT(30) DEF Types
  <1> HIDE DEF e
  <1>9. QED
    BY <1>1, <1>2, <1>3, <1>6, <1>7, <1>8, ZenonT(30)

\* An answer goes to the question that has the entry, which then has none.
LEMMA ResponseEffect ==
  ASSUME Types, Open, NEW id \in DOMAIN asked, HandleResponse(id)
  PROVE  LET k == asked[id].kind
             n == asked[id].key
             e == requests[k][n]
         IN  /\ k \in Kind /\ n \in Key /\ UNCHANGED <<net, cleanup>>
             /\ \/ e = None /\ UNCHANGED <<asked, requests>>
                \/ /\ e # None /\ e.id \in DOMAIN asked /\ e.id \in Nat
                   /\ asked' \in Seq(Question) /\ DOMAIN asked' = DOMAIN asked
                   /\ \A j \in DOMAIN asked : j # e.id => asked'[j] = asked[j]
                   /\ asked'[e.id].kind = asked[e.id].kind /\ asked'[e.id].key = asked[e.id].key
                   /\ asked'[e.id].ch /\ asked'[e.id].result = asked[e.id].result
                   /\ asked'[e.id].deadline = asked[e.id].deadline
                   /\ requests' \in [Kind -> [Key -> Request \cup {None}]]
                   /\ requests'[k][n] = None
                   /\ \A kind \in Kind, key \in Key : (kind # k \/ key # n) =>
                        requests'[kind][key] = requests[kind][key]
  <1> DEFINE k == asked[id].kind
             n == asked[id].key
             e == requests[k][n]
  <1>1. k \in Kind /\ n \in Key
    BY QuestionType, ZenonT(30)
  <1>2. HandleDebugResponse(id) /\ UNCHANGED <<net, cleanup>>
    BY ZenonT(30) DEF HandleResponse, HandleGetSelfResponse, HandleGetPeersResponse, HandleGetTreeResponse,
           Callback
  <1>3. CASE e = None
    BY <1>1, <1>2, <1>3, ZenonT(30) DEF HandleDebugResponse, Entry
  <1>4. CASE e # None
    <2> DEFINE r == [asked[e.id] EXCEPT !.ch = TRUE]
    <2>1. e \in Request
      BY <1>1, <1>4, ZenonT(30) DEF Types
    <2>2. e.id \in Nat
      BY <2>1, ZenonT(30) DEF Request
    <2>3. e.id \in DOMAIN asked
      BY <1>1, <1>4, <2>2 DEF Open, Holds
    <2>4. asked[e.id] \in Question
      BY <2>3, QuestionType, ZenonT(30)
    <2>5. asked' = [asked EXCEPT ![e.id] = r] /\ SetEntry(id, None)
      BY <1>2, <1>4, ZenonT(30) DEF HandleDebugResponse, Entry
    <2>6. /\ r \in Question /\ r.ch /\ r.kind = asked[e.id].kind /\ r.key = asked[e.id].key
          /\ r.result = asked[e.id].result /\ r.deadline = asked[e.id].deadline
      <3>1. PICK q \in Question : q = asked[e.id]
        BY <2>4, ZenonT(30)
      <3>2. r = [q EXCEPT !.ch = TRUE]
        BY <3>1, ZenonT(30)
      <3> HIDE DEF r
      <3>3. QED
        BY <3>1, <3>2, ZenonT(30) DEF Question
    <2> HIDE DEF r
    <2>7. /\ asked' \in Seq(Question) /\ DOMAIN asked' = DOMAIN asked
          /\ asked'[e.id] = r /\ \A j \in DOMAIN asked : j # e.id => asked'[j] = asked[j]
      BY <2>3, <2>5, <2>6, Changed, ZenonT(30)
    <2>8. /\ requests' \in [Kind -> [Key -> Request \cup {None}]] /\ requests'[k][n] = None
          /\ \A kind \in Kind, key \in Key : (kind # k \/ key # n) =>
               requests'[kind][key] = requests[kind][key]
      BY <2>5, EntrySet, ZenonT(30)
    <2> HIDE DEF e, k, n
    <2>9. QED
      BY <1>1, <1>2, <1>4, <2>2, <2>3, <2>6, <2>7, <2>8, ZenonT(30) DEF e, k, n
  <1>5. QED
    BY <1>3, <1>4, ZenonT(30)

\* An entry that expired goes, if it is still of that question.
LEMMA ExpireEffect ==
  ASSUME Types, NEW id \in DOMAIN asked, Expire(id)
  PROVE  LET k == asked[id].kind
             n == asked[id].key
         IN  /\ k \in Kind /\ n \in Key /\ UNCHANGED <<asked, net, cleanup>>
             /\ requests' \in [Kind -> [Key -> Request \cup {None}]]
             /\ requests'[k][n] = IF Holds(k, n, id) THEN None ELSE requests[k][n]
             /\ \A kind \in Kind, key \in Key : (kind # k \/ key # n) =>
                  requests'[kind][key] = requests[kind][key]
  <1> DEFINE k == asked[id].kind
             n == asked[id].key
             e == IF Holds(k, n, id) THEN None ELSE requests[k][n]
  <1>1. k \in Kind /\ n \in Key
    BY QuestionType, ZenonT(30)
  <1>2. SetEntry(id, e) /\ UNCHANGED <<asked, net, cleanup>>
    BY ZenonT(30) DEF Expire, Holds, Entry
  <1>3. e \in Request \cup {None}
    BY <1>1, ZenonT(30) DEF Types
  <1> HIDE DEF e
  <1>4. QED
    BY <1>1, <1>2, <1>3, EntrySet, ZenonT(30) DEF e

\* The clean-up leaves the entries that are not older than a minute.
LEMMA CleanupEffect ==
  ASSUME Types, Cleanup
  PROVE  /\ requests' \in [Kind -> [Key -> Request \cup {None}]]
         /\ \A kind \in Kind, key \in Key : kind # "getnodeinfo" =>
              requests'[kind][key] = requests[kind][key]
         /\ \A key \in Key : requests'["getnodeinfo"][key] =
              IF /\ requests["getnodeinfo"][key] # None
                 /\ now - requests["getnodeinfo"][key].created > Minute
                THEN None ELSE requests["getnodeinfo"][key]
         /\ cleanup' = now + HalfMinute /\ UNCHANGED <<asked, net>>
  BY ZenonT(30) DEF Types, Cleanup, Kind

\* The timer of an entry fires once.
LEMMA TimerEffect ==
  ASSUME Types, NEW k \in Kind, NEW n \in Key, TimerFires(k, n)
  PROVE  LET e == requests[k][n]
         IN  /\ e # None /\ e.id \in Nat /\ e.timer \in Nat /\ now >= e.timer /\ e.timer # None
             /\ requests' \in [Kind -> [Key -> Request \cup {None}]]
             /\ requests'[k][n] # None /\ requests'[k][n].id = e.id
             /\ requests'[k][n].created = e.created /\ requests'[k][n].timer = None
             /\ \A kind \in Kind, key \in Key : (kind # k \/ key # n) =>
                  requests'[kind][key] = requests[kind][key]
             /\ [do |-> "expire", id |-> e.id] \in Job
             /\ Tell("proto", [do |-> "expire", id |-> e.id])
             /\ UNCHANGED <<now, asked, cleanup, net>>
  <1> DEFINE e == requests[k][n]
             f == [e EXCEPT !.timer = None]
  <1>1. e # None /\ e.timer # None /\ now >= e.timer
    BY ZenonT(30) DEF TimerFires, TimerDue
  <1>2. e \in Request
    BY <1>1, ZenonT(30) DEF Types
  <1>3. e.id \in Nat /\ e.timer \in Nat /\ f \in Request /\ f.id = e.id /\ f.created = e.created /\ f.timer = None
    BY <1>1, <1>2, ZenonT(30) DEF Request
  <1>4. requests' = [requests EXCEPT ![k][n] = f]
    BY ZenonT(30) DEF TimerFires
  <1> HIDE DEF f
  <1>5. /\ requests' \in [Kind -> [Key -> Request \cup {None}]] /\ requests'[k][n] = f
        /\ \A kind \in Kind, key \in Key : (kind # k \/ key # n) =>
             requests'[kind][key] = requests[kind][key]
    BY <1>3, <1>4, ZenonT(30) DEF Types
  <1> USE NoneAssumption
  <1>6. /\ [do |-> "expire", id |-> e.id] \in Job
    BY <1>3, ZenonT(30) DEF Job
  <1>7. /\ Tell("proto", [do |-> "expire", id |-> e.id])
        /\ UNCHANGED <<now, asked, cleanup, net>>
    BY ZenonT(30) DEF TimerFires, rigid
  <1>8. QED
    BY <1>1, <1>3, <1>5, <1>6, <1>7, ZenonT(30)

-----------------------------------------------------------------------------
(* Messages *)

\* The keys that fit are at most (MTU - 2) / KeySize, and there are no more
\* than there is room for.
LEMMA KeysFit ==
  ASSUME NEW number \in Nat
  PROVE  Keys(number) \in Nat /\ Keys(number) + 3 <= PacketMTU
  <1> DEFINE M == MTU - 2
             S == {n \in 0 .. number : n * KeySize + 2 <= MTU}
             w == M \div KeySize
             x == IF w <= number THEN w ELSE number
  <1>1. MTU \in Nat /\ MTU <= PacketMTU - 1 /\ MTU > 2
    <2>1. \E y \in {PacketMTU - 1, MaxMTU} : \A z \in {PacketMTU - 1, MaxMTU} : y <= z
      BY ProtoAssumption
    <2>2. MTU \in {PacketMTU - 1, MaxMTU} /\ MTU <= PacketMTU - 1
      BY <2>1, ZenonT(30) DEF MTU, Min
    <2>3. QED
      BY <2>2, ProtoAssumption
  <1>2. M \in Nat /\ KeySize \in Nat /\ KeySize > 0
    BY <1>1, ProtoAssumption
  <1> HIDE DEF M
  <1>3. w \in Nat /\ w * KeySize <= M /\ M < (w + 1) * KeySize
    BY <1>2
  <1> HIDE DEF w
  <1>4. ASSUME NEW n \in Nat, n * KeySize <= M PROVE n <= w
    <2> SUFFICES ASSUME n >= w + 1 PROVE FALSE
      BY <1>3
    <2>1. n * KeySize >= (w + 1) * KeySize
      BY <1>2, <1>3
    <2>2. QED
      BY <1>2, <1>3, <1>4, <2>1
  <1>5. x \in Nat /\ x <= number /\ x <= w
    BY <1>3
  <1>6. x * KeySize <= M
    BY <1>2, <1>3, <1>5
  <1>7. \A n \in Nat : n * KeySize \in Nat
    BY <1>2
  <1>8. x \in S /\ \A y \in S : x >= y
    BY <1>1, <1>4, <1>5, <1>6, <1>7 DEF M
  <1>9. PICK y \in S : y = Max(S)
    BY <1>8, ZenonT(30) DEF Max
  <1>10. y * KeySize + 2 <= MTU /\ y \in Nat
    BY <1>9
  <1>11. Keys(number) = KeySize * y
    BY <1>9, ZenonT(30) DEF Keys
  <1>12. KeySize * y = y * KeySize
    BY <1>2, <1>10
  <1>13. QED
    BY <1>1, <1>2, <1>7, <1>10, <1>11, <1>12, ProtoAssumption

\* The remote node's answer takes the place of the question on the net.
LEMMA RequestEffect ==
  ASSUME Types, Known, NEW m \in net, HandleRequest(m)
  PROVE  /\ net' \subseteq [type : {"request", "response"}, id : Nat, size : Nat]
         /\ \E x \in net' : x.id = m.id
         /\ \A x \in net' : x \in net \/ x.id = m.id
         /\ \A x \in net : x # m => x \in net'
         /\ UNCHANGED <<now, asked, inbox, requests, cleanup>>
  <1>1. m.id \in DOMAIN asked
    BY ZenonT(30) DEF Known
  <1>2. asked[m.id].kind \in Kind /\ asked[m.id].key \in Key /\ m.id \in Nat
    BY <1>1, QuestionType, ZenonT(30)
  <1>3. PICK r : /\ \E size \in Nat : r = [type |-> "response", id |-> m.id, size |-> size] /\ size <= PacketMTU
                 /\ net' = (net \ {m}) \cup WriteTo(r)
    <2>1. NumPeers[asked[m.id].key] \in Nat /\ NumTree[asked[m.id].key] \in Nat
      BY <1>2, ProtoAssumption, ZenonT(30)
    <2>2. CASE asked[m.id].kind = "getself"
      BY <2>2, ProtoAssumption DEF HandleRequest, GetSelfResponse, Debug
    <2>3. CASE asked[m.id].kind = "getpeers"
      BY <2>1, <2>3, KeysFit, ProtoAssumption DEF HandleRequest, GetPeersResponse, Debug
    <2>4. CASE asked[m.id].kind = "gettree"
      BY <2>1, <2>4, KeysFit, ProtoAssumption DEF HandleRequest, GetTreeResponse, Debug
    <2>5. CASE asked[m.id].kind = "getnodeinfo"
      <3>1. PICK size \in NodeInfo : net' = (net \ {m}) \cup WriteTo(SendRes(m.id, size))
        BY <2>5, ZenonT(30) DEF HandleRequest
      <3>2. 2 + size \in Nat /\ 2 + size <= PacketMTU
        BY <3>1, ProtoAssumption DEF NodeInfo
      <3>3. QED
        BY <3>1, <3>2, ZenonT(30) DEF SendRes
    <2>6. QED
      BY <1>2, <2>2, <2>3, <2>4, <2>5, ZenonT(30) DEF Kind
  <1>4. /\ r \in [type : {"request", "response"}, id : Nat, size : Nat] /\ r.id = m.id
        /\ WriteTo(r) = {r}
    BY <1>2, <1>3, ProtoAssumption DEF WriteTo
  <1>5. UNCHANGED <<now, asked, inbox, requests, cleanup>>
    BY ZenonT(30) DEF HandleRequest, rigid
  <1>6. QED
    BY <1>3, <1>4, <1>5, ZenonT(30) DEF Types

\* An answer arrives, and its actor is told.
LEMMA ProtoEffect ==
  ASSUME Types, Known, NEW m \in net, HandleProto(m)
  PROVE  /\ net' = net \ {m} /\ m.id \in DOMAIN asked
         /\ \E a \in Actor : Tell(a, [do |-> "response", id |-> m.id])
         /\ [do |-> "response", id |-> m.id] \in Job
         /\ UNCHANGED <<now, asked, requests, cleanup>>
  <1>1. m.id \in DOMAIN asked
    BY DEF Known
  <1>2. m.id \in Nat
    BY <1>1, QuestionType, ZenonT(30)
  <1>3. QED
    BY <1>1, <1>2, ZenonT(30) DEF HandleProto, ActorOf, Actor, Job, rigid

\* A message is lost, and the handler that waits for it is marked.
LEMMA LoseEffect ==
  ASSUME Types, Known, NEW m \in net, Lose(m)
  PROVE  /\ net' = net \ {m} /\ m.id \in DOMAIN asked
         /\ asked' \in Seq(Question) /\ DOMAIN asked' = DOMAIN asked
         /\ \A i \in DOMAIN asked :
              /\ asked'[i].kind = asked[i].kind /\ asked'[i].key = asked[i].key
              /\ asked'[i].result = asked[i].result /\ asked'[i].deadline = asked[i].deadline
              /\ (asked'[i].ch <=> asked[i].ch) /\ (asked'[i].displaced <=> asked[i].displaced)
              /\ i # m.id => (asked'[i].lost <=> asked[i].lost)
              /\ i = m.id => (asked'[i].lost <=> Waits(i))
         /\ UNCHANGED <<now, inbox, requests, cleanup>>
  <1> DEFINE j == m.id
             r == [asked[j] EXCEPT !.lost = Waits(j)]
  <1>1. j \in DOMAIN asked
    BY ZenonT(30) DEF Known
  <1>2. asked[j] \in Question
    BY <1>1, QuestionType, ZenonT(30)
  <1>3. net' = net \ {m} /\ UNCHANGED <<now, inbox, requests, cleanup>>
    BY ZenonT(30) DEF Lose, rigid
  <1>4. asked' = [asked EXCEPT ![j] = r]
    BY ZenonT(30) DEF Lose
  <1>5. /\ r \in Question /\ r.kind = asked[j].kind /\ r.key = asked[j].key
        /\ r.result = asked[j].result /\ r.deadline = asked[j].deadline
        /\ (r.ch <=> asked[j].ch) /\ (r.displaced <=> asked[j].displaced) /\ (r.lost <=> Waits(j))
    <2>1. PICK b \in BOOLEAN : b = Waits(j)
      BY ZenonT(30) DEF Waits
    <2>2. PICK q \in Question : q = asked[j]
      BY <1>2, ZenonT(30)
    <2>3. r = [q EXCEPT !.lost = b]
      BY <2>1, <2>2, ZenonT(30)
    <2> HIDE DEF r
    <2>4. QED
      BY <2>1, <2>2, <2>3, LostField
  <1> HIDE DEF r, j
  <1>6. /\ asked' \in Seq(Question) /\ DOMAIN asked' = DOMAIN asked
        /\ asked'[j] = r /\ \A i \in DOMAIN asked : i # j => asked'[i] = asked[i]
    BY <1>1, <1>4, <1>5, Changed, ZenonT(30)
  <1>7. QED
    BY <1>1, <1>3, <1>5, <1>6, ZenonT(30) DEF j

-----------------------------------------------------------------------------
(* The steps of an actor *)

\* What a handler that waits can rely on.
LEMMA PatientAt ==
  ASSUME Inv, NEW i \in DOMAIN asked, Waits(i)
  PROVE  /\ now <= asked[i].deadline
         /\ Pending("send", i) => asked[i].deadline = now + Wait
         /\ ~Pending("expire", i)
         /\ \A kind \in Kind, key \in Key : Holds(kind, key, i) =>
              asked[i].deadline = requests[kind][key].created + Wait
  BY ZenonT(30) DEF Inv, Patient

\* A job that is about a question is about one that was asked.
LEMMA JobKnown ==
  ASSUME Types, Known, NEW a \in Actor, inbox[a] # <<>>, Head(inbox[a]).do # "cleanup"
  PROVE  Head(inbox[a]).id \in DOMAIN asked
  <1> DEFINE m == Head(inbox[a])
  <1>1. inbox[a] \in Seq(Job)
    BY ZenonT(30) DEF Types
  <1>2. m \in Job /\ Has(inbox[a], m.do, m.id)
    BY <1>1, TailJob, ZenonT(30) DEF Has
  <1>3. m.do \in {"send", "response", "expire"} /\ m.id \in Nat
    BY <1>2, ZenonT(30) DEF Job
  <1>4. Pending(m.do, m.id)
    BY <1>2, ZenonT(30) DEF Pending
  <1> HIDE DEF m
  <1>5. m.id \in DOMAIN asked
    BY <1>3, <1>4, ZenonT(30) DEF Known
  <1>6. QED
    BY <1>5, ZenonT(30) DEF m

\* The start.
LEMMA InitInv == Init => Types /\ Inv
  <1> SUFFICES ASSUME Init PROVE Types /\ Inv
    OBVIOUS
  <1>1. Types
    BY Constants DEF Init, Types
  <1>2. /\ net = {} /\ DOMAIN asked = {} /\ now = 0 /\ cleanup = HalfMinute
        /\ \A a \in Actor : inbox[a] = <<>> /\ DOMAIN inbox[a] = {}
        /\ \A kind \in Kind, key \in Key : requests[kind][key] = None
    BY DEF Init
  <1>3. (\A what, id : ~Pending(what, id)) /\ \A kind \in Kind, key \in Key, id \in Nat : ~Holds(kind, key, id)
    BY <1>2, ZenonT(30) DEF Pending, Has, Holds
  <1>4. Known /\ SentOnce /\ Unsent /\ Open /\ Patient /\ Reason
    BY <1>2, <1>3, ZenonT(30) DEF Known, SentOnce, Unsent, Open, Patient, Reason
  <1>5. Timed
    BY <1>3, ZenonT(30) DEF Timed
  <1>6. Cleaned
    BY <1>2, Constants, NoneAssumption DEF Cleaned, Kind
  <1>7. QED
    BY <1>1, <1>4, <1>5, <1>6, ZenonT(30) DEF Inv

\* An actor does a job of this kind.
Does(a, what) == Run(a) /\ Head(inbox[a]).do = what

\* What it does, and what it does not touch.
LEMMA DoesEffect ==
  ASSUME Types, Inv, NEW a \in Actor, NEW what, Does(a, what)
  PROVE  /\ inbox[a] # <<>> /\ inbox' = [inbox EXCEPT ![a] = Tail(@)] /\ now' = now
         /\ what = "send" => Send(Head(inbox[a]).id)
         /\ what = "response" => HandleResponse(Head(inbox[a]).id)
         /\ what = "expire" => Expire(Head(inbox[a]).id)
         /\ what = "cleanup" => Cleanup
         /\ what # "cleanup" => Head(inbox[a]).id \in DOMAIN asked
         /\ inbox' \in [Actor -> Seq(Job)] /\ SentOnce'
         /\ what # "cleanup" => (Cleaning' <=> Cleaning)
  <1>1. /\ inbox[a] # <<>> /\ inbox' = [inbox EXCEPT ![a] = Tail(@)] /\ now' = now
        /\ what = "send" => Send(Head(inbox[a]).id)
        /\ what = "response" => HandleResponse(Head(inbox[a]).id)
        /\ what = "expire" => Expire(Head(inbox[a]).id)
        /\ what = "cleanup" => Cleanup
    BY ZenonT(30) DEF Does, Run, rigid
  <1>2. Head(inbox[a]).do = what
    BY ZenonT(30) DEF Does
  <1>3. what # "cleanup" => Head(inbox[a]).id \in DOMAIN asked
    BY <1>1, <1>2, JobKnown, ZenonT(30) DEF Inv
  <1>4. inbox' \in [Actor -> Seq(Job)] /\ SentOnce' /\ (what # "cleanup" => (Cleaning' <=> Cleaning))
    BY <1>1, <1>2, Taken, ZenonT(30) DEF Inv
  <1>5. QED
    BY <1>1, <1>3, <1>4, ZenonT(30)

\* Its job is done, and the others are still to do.
LEMMA DoesPending ==
  ASSUME Types, Inv, NEW a \in Actor, NEW what, Does(a, what), NEW id, id = Head(inbox[a]).id
  PROVE  /\ \A do, x : Pending(do, x) <=> Pending(do, x)' \/ (what = do /\ id = x)
         /\ what = "send" => ~Pending("send", id)'
  <1>1. Head(inbox[a]).do = what
    BY ZenonT(30) DEF Does
  <1>2. QED
    BY <1>1, DoesEffect, Taken DEF Inv

\* An actor sends a question.
LEMMA SendStep ==
  ASSUME Types, Inv, NEW a \in Actor, Does(a, "send")
  PROVE  Types' /\ Inv'
  <1>1. PICK id \in DOMAIN asked : id = Head(inbox[a]).id
    BY DoesEffect
  <1>2. PICK k \in Kind, n \in Key : k = asked[id].kind /\ n = asked[id].key
    BY QuestionType, ZenonT(30)
  <1>3. /\ inbox' \in [Actor -> Seq(Job)] /\ SentOnce' /\ (Cleaning' <=> Cleaning)
        /\ now' = now /\ Send(id)
    BY <1>1, DoesEffect
  <1>4. /\ ~Pending("send", id)' /\ Pending("send", id)
        /\ \A what, x : Pending(what, x) <=> Pending(what, x)' \/ (what = "send" /\ x = id)
    BY <1>1, DoesPending
  <1>5. /\ Displace(id)
        /\ requests' \in [Kind -> [Key -> Request \cup {None}]]
        /\ \A kind \in Kind, key \in Key : (kind # k \/ key # n) =>
             requests'[kind][key] = requests[kind][key]
        /\ requests'[k][n] # None /\ requests'[k][n].id = id /\ requests'[k][n].created = now
        /\ requests'[k][n].timer = IF k = "getnodeinfo" THEN None ELSE now + Minute
    BY <1>2, <1>3, SendEffect
  <1>6. /\ net' \subseteq [type : {"request", "response"}, id : Nat, size : Nat]
        /\ net \subseteq net' /\ (\E m \in net' : m.id = id)
        /\ \A m \in net' : m \in net \/ m.id = id
        /\ cleanup' = cleanup
    BY <1>3, SendEffect, ZenonT(30)
  <1>7. /\ asked' \in Seq(Question) /\ DOMAIN asked' = DOMAIN asked
        /\ \A i \in DOMAIN asked :
             /\ asked'[i].kind = asked[i].kind /\ asked'[i].key = asked[i].key
             /\ asked'[i].result = asked[i].result /\ asked'[i].deadline = asked[i].deadline
             /\ (asked'[i].ch <=> asked[i].ch) /\ (asked'[i].lost <=> asked[i].lost)
             /\ asked[i].displaced => asked'[i].displaced
             /\ (Waits(i) /\ Holds(k, n, i)) => asked'[i].displaced
    BY <1>2, <1>5, DisplaceEffect, ZenonT(30)
  <1>8. Types'
    BY <1>3, <1>5, <1>6, <1>7, ZenonT(30) DEF Types
  <1>9. /\ \A kind \in Kind, key \in Key, x \in Nat : (kind # k \/ key # n) =>
             (Holds(kind, key, x)' <=> Holds(kind, key, x))
        /\ \A x \in Nat : Holds(k, n, x)' <=> x = id
    BY <1>5, ZenonT(30) DEF Holds
  <1>10. \A i \in DOMAIN asked : (Waits(i)' <=> Waits(i)) /\ i \in Nat /\ asked[i].deadline \in Nat
    BY <1>7, QuestionType, ZenonT(30) DEF Waits
  <1>11. Known'
    BY <1>4, <1>6, <1>7, ZenonT(30) DEF Inv, Known
  <1>12. Unsent'
    BY <1>4, <1>7, <1>9, <1>10 DEF Inv, Unsent
  <1>13. Open'
    BY <1>2, <1>4, <1>7, <1>9, <1>10 DEF Inv, Unsent, Open
  <1>14. Timed'
    <2>1. now \in Nat /\ now <= now + Minute /\ now + Minute # None
      BY Constants, NoneAssumption DEF Types
    <2>2. ASSUME NEW kind \in Kind, NEW key \in Key, NEW x \in Nat, kind # "getnodeinfo", Holds(kind, key, x)'
          PROVE  /\ now' <= requests'[kind][key].created + Minute
                 /\ requests'[kind][key].timer # None =>
                      requests'[kind][key].timer = requests'[kind][key].created + Minute
                 /\ requests'[kind][key].timer = None => Pending("expire", x)'
      <3>1. CASE kind = k /\ key = n
        BY <1>3, <1>5, <2>1, <2>2, <3>1, ZenonT(30)
      <3>2. CASE kind # k \/ key # n
        BY <1>3, <1>4, <1>5, <1>9, <2>2, <3>2 DEF Inv, Timed
      <3>3. QED
        BY <3>1, <3>2, ZenonT(30)
    <2>3. QED
      BY <2>2, ZenonT(30) DEF Timed
  <1>15. Cleaned'
    <2>1. now \in Nat /\ "getnodeinfo" \in Kind
      BY ZenonT(30) DEF Types, Kind
    <2>2. ASSUME NEW key \in Key, requests'["getnodeinfo"][key] # None
          PROVE  LET e == requests'["getnodeinfo"][key]
                 IN  /\ e.timer = None
                     /\ now' <= e.created + Minute + HalfMinute
                     /\ cleanup' # None => cleanup' <= e.created + Minute + HalfMinute
      <3>1. CASE k = "getnodeinfo" /\ key = n
        <4>1. /\ requests'["getnodeinfo"][key].timer = None /\ requests'["getnodeinfo"][key].created = now
              /\ now' = now /\ cleanup' = cleanup
          BY <1>3, <1>5, <1>6, <3>1
        <4>2. cleanup # None => cleanup \in Nat /\ cleanup <= now + HalfMinute
          BY ZenonT(30) DEF Inv, Cleaned, Types
        <4>3. QED
          BY <2>1, <4>1, <4>2, Constants
      <3>2. CASE k # "getnodeinfo" \/ key # n
        BY <1>3, <1>5, <1>6, <2>1, <2>2, <3>2, ZenonT(30) DEF Inv, Cleaned
      <3>3. QED
        BY <3>1, <3>2, ZenonT(30)
    <2>3. QED
      BY <1>3, <1>6, <2>2, ZenonT(30) DEF Inv, Cleaned
  <1>16. Patient'
    <2>1. asked[id].deadline = now + Wait \/ ~Waits(id)
      BY <1>4, ZenonT(30) DEF Inv, Patient
    <2>2. ASSUME NEW i \in DOMAIN asked, Waits(i)
          PROVE  /\ now' <= asked'[i].deadline
                 /\ Pending("send", i)' => asked'[i].deadline = now' + Wait
                 /\ ~Pending("expire", i)'
      BY <1>3, <1>4, <1>7, <2>2, ZenonT(30) DEF Inv, Patient
    <2>3. ASSUME NEW i \in DOMAIN asked, Waits(i), NEW kind \in Kind, NEW key \in Key,
                 Holds(kind, key, i)'
          PROVE  asked'[i].deadline = requests'[kind][key].created + Wait
      <3>1. CASE kind = k /\ key = n
        BY <1>5, <1>7, <1>9, <1>10, <2>1, <2>3, <3>1
      <3>2. CASE kind # k \/ key # n
        BY <1>5, <1>7, <1>9, <1>10, <2>3, <3>2 DEF Inv, Patient
      <3>3. QED
        BY <3>1, <3>2, ZenonT(30)
    <2>4. QED
      BY <1>7, <1>10, <2>2, <2>3, ZenonT(30) DEF Patient
  <1>17. Reason'
    <2>1. ASSUME NEW i \in DOMAIN asked, Waits(i), ~asked'[i].displaced, ~asked'[i].lost, ~asked'[i].ch,
                 ~Pending("send", i)'
          PROVE  (\E kind \in Kind, key \in Key : Holds(kind, key, i))' /\ OnItsWay(i)'
      <3>1. CASE i = id
        BY <1>6, <1>9, <1>10, <3>1, ZenonT(30) DEF OnItsWay
      <3>2. CASE i # id
        <4>1. OnItsWay(i) => OnItsWay(i)'
          BY <1>4, <1>6, ZenonT(30) DEF OnItsWay
        <4>2. PICK kind \in Kind, key \in Key : Holds(kind, key, i)
          BY <1>4, <1>7, <2>1, <3>2, ZenonT(30) DEF Inv, Reason
        <4>3. Holds(kind, key, i)'
          BY <1>7, <1>9, <1>10, <2>1, <4>2, ZenonT(30)
        <4>4. QED
          BY <1>4, <1>7, <2>1, <3>2, <4>1, <4>3, ZenonT(30) DEF Inv, Reason
      <3>3. QED
        BY <3>1, <3>2, ZenonT(30)
    <2>2. QED
      BY <1>7, <1>10, <2>1, ZenonT(30) DEF Reason
  <1>18. QED
    BY <1>3, <1>8, <1>11, <1>12, <1>13, <1>14, <1>15, <1>16, <1>17, ZenonT(30) DEF Inv

\* An actor takes an answer.
LEMMA ResponseStep ==
  ASSUME Types, Inv, NEW a \in Actor, Does(a, "response")
  PROVE  Types' /\ Inv'
  <1>1. PICK id \in DOMAIN asked : id = Head(inbox[a]).id
    BY DoesEffect
  <1>2. PICK k \in Kind, n \in Key : k = asked[id].kind /\ n = asked[id].key
    BY QuestionType, ZenonT(30)
  <1>3. /\ inbox' \in [Actor -> Seq(Job)] /\ SentOnce' /\ (Cleaning' <=> Cleaning)
        /\ now' = now /\ HandleResponse(id)
    BY <1>1, DoesEffect
  <1>4. \A what, x : Pending(what, x) <=> Pending(what, x)' \/ (what = "response" /\ x = id)
    BY <1>1, DoesPending
  <1>5. Open /\ Types
    BY ZenonT(30) DEF Inv
  <1>6. \A kind \in Kind, key \in Key : Holds(kind, key, id) => kind = k /\ key = n
    BY <1>2, QuestionType DEF Inv, Open
  <1>7. UNCHANGED <<net, cleanup>>
    BY <1>3, <1>5, ResponseEffect, ZenonT(30)
  <1>8. \A i : i # id => (OnItsWay(i) => OnItsWay(i)')
    BY <1>4, <1>7, ZenonT(30) DEF OnItsWay
  <1>9. CASE requests[k][n] = None
    <2>1. UNCHANGED <<asked, requests>>
      BY <1>2, <1>3, <1>5, <1>9, ResponseEffect, ZenonT(30)
    <2>2. /\ \A kind \in Kind, key \in Key, x \in Nat : Holds(kind, key, x)' <=> Holds(kind, key, x)
          /\ \A i : Waits(i)' <=> Waits(i)
      BY <2>1, ZenonT(30) DEF Holds, Waits
    <2>3. \A kind \in Kind, key \in Key : ~Holds(kind, key, id)
      BY <1>6, <1>9, ZenonT(30) DEF Holds
    <2>4. Types'
      BY <1>3, <1>7, <2>1, ZenonT(30) DEF Types
    <2>5. Known' /\ Unsent' /\ Open'
      BY <1>4, <1>7, <2>1, <2>2, QuestionType DEF Inv, Known, Unsent, Open
    <2>6. Timed' /\ Cleaned'
      BY <1>3, <1>4, <1>7, <2>1, <2>2, ZenonT(30) DEF Inv, Timed, Cleaned
    <2>7. Patient'
      BY <1>3, <1>4, <2>1, <2>2, QuestionType DEF Inv, Patient
    <2>8. Reason'
      BY <1>4, <1>8, <2>1, <2>2, <2>3, QuestionType, ZenonT(30) DEF Inv, Reason
    <2>9. QED
      BY <1>3, <2>4, <2>5, <2>6, <2>7, <2>8, ZenonT(30) DEF Inv
  <1>10. CASE requests[k][n] # None
    <2>1. PICK j \in DOMAIN asked : j \in Nat /\ j = requests[k][n].id
      BY <1>2, <1>3, <1>5, <1>10, ResponseEffect, ZenonT(30)
    <2>2. /\ asked' \in Seq(Question) /\ DOMAIN asked' = DOMAIN asked
          /\ \A i \in DOMAIN asked : i # j => asked'[i] = asked[i]
          /\ asked'[j].kind = asked[j].kind /\ asked'[j].key = asked[j].key
          /\ asked'[j].ch /\ asked'[j].result = asked[j].result
          /\ asked'[j].deadline = asked[j].deadline
      BY <1>2, <1>3, <1>5, <1>10, <2>1, ResponseEffect, ZenonT(60)
    <2>3. /\ requests' \in [Kind -> [Key -> Request \cup {None}]]
          /\ requests'[k][n] = None
          /\ \A kind \in Kind, key \in Key : (kind # k \/ key # n) =>
               requests'[kind][key] = requests[kind][key]
      <3>1. requests' \in [Kind -> [Key -> Request \cup {None}]]
        BY <1>2, <1>3, <1>5, <1>10, ResponseEffect, ZenonT(30)
      <3>2. requests'[k][n] = None
        BY <1>2, <1>3, <1>5, <1>10, ResponseEffect, ZenonT(30)
      <3>3. requests[asked[id].kind][asked[id].key] # None
        BY <1>2, <1>10, ZenonT(30)
      <3>4. \A kind \in Kind, key \in Key : (kind # asked[id].kind \/ key # asked[id].key) =>
              requests'[kind][key] = requests[kind][key]
        BY <1>3, <1>5, <3>3, ResponseEffect, ZenonT(30)
      <3>5. QED
        BY <1>2, <3>1, <3>2, <3>4, ZenonT(30)
    <2>4. Holds(k, n, j)
      BY <1>10, <2>1, ZenonT(30) DEF Holds
    <2>5. /\ \A kind \in Kind, key \in Key : Holds(kind, key, j) => kind = k /\ key = n
          /\ \A x \in Nat : Holds(k, n, x) => x = j
      BY <2>1, <2>4 DEF Inv, Open, Holds
    <2>6. /\ \A kind \in Kind, key \in Key, x \in Nat : Holds(kind, key, x)' <=> Holds(kind, key, x) /\ x # j
          /\ \A kind \in Kind, key \in Key, x \in Nat : Holds(kind, key, x)' =>
               requests'[kind][key] = requests[kind][key]
      BY <2>3, <2>5 DEF Holds
    <2>7. \A i \in DOMAIN asked : (Waits(i)' <=> Waits(i)) /\ asked'[i].deadline = asked[i].deadline
      BY <2>2, ZenonT(30) DEF Waits
    <2>8. Types'
      BY <1>3, <1>7, <2>2, <2>3, ZenonT(30) DEF Types
    <2>9. Known'
      BY <1>4, <1>7, <2>2, ZenonT(30) DEF Inv, Known
    <2>10. Unsent'
      BY <1>4, <2>2, <2>4, <2>6, QuestionType DEF Inv, Unsent
    <2>11. Open'
      BY <2>2, <2>6 DEF Inv, Open
    <2>12. Timed'
      BY <1>3, <1>4, <2>6 DEF Inv, Timed
    <2>13. Cleaned'
      <3>1. \A key \in Key : requests'["getnodeinfo"][key] = None \/ requests'["getnodeinfo"][key] = requests["getnodeinfo"][key]
        BY <2>3, ZenonT(30) DEF Kind
      <3>2. QED
        BY <1>3, <1>7, <3>1, ZenonT(30) DEF Inv, Cleaned
    <2>14. Patient'
      <3>1. ASSUME NEW i \in DOMAIN asked, Waits(i)
            PROVE  /\ now <= asked[i].deadline
                   /\ Pending("send", i)' => asked[i].deadline = now + Wait
                   /\ ~Pending("expire", i)'
                   /\ \A kind \in Kind, key \in Key : Holds(kind, key, i)' =>
                        asked[i].deadline = requests'[kind][key].created + Wait
        <4>1. \A kind \in Kind, key \in Key : Holds(kind, key, i)' =>
                Holds(kind, key, i) /\ requests'[kind][key] = requests[kind][key]
          BY <2>6, QuestionType, ZenonT(30)
        <4>2. /\ ~Pending("expire", i)'
              /\ Pending("send", i)' => Pending("send", i)
          BY <1>4, <3>1, PatientAt, ZenonT(30)
        <4>3. \A kind \in Kind, key \in Key : Holds(kind, key, i)' =>
                asked[i].deadline = requests'[kind][key].created + Wait
          BY <3>1, <4>1, PatientAt
        <4>4. QED
          BY <3>1, <4>2, <4>3, PatientAt, ZenonT(30)
      <3>2. QED
        BY <1>3, <2>2, <2>7, <3>1, ZenonT(30) DEF Patient
    <2>15. Reason'
      <3>1. ASSUME NEW i \in DOMAIN asked, Waits(i), ~asked'[i].displaced, ~asked'[i].lost, ~asked'[i].ch,
                   ~Pending("send", i)'
            PROVE  (\E kind \in Kind, key \in Key : Holds(kind, key, i))' /\ OnItsWay(i)'
        <4>1. i # j /\ i \in Nat
          BY <2>2, <3>1, QuestionType, ZenonT(30)
        <4>2. (\E kind \in Kind, key \in Key : Holds(kind, key, i)) /\ OnItsWay(i)
          BY <1>4, <2>2, <3>1, <4>1, ZenonT(30) DEF Inv, Reason
        <4>3. i # id
          BY <1>6, <2>5, <4>1, <4>2, ZenonT(30)
        <4>4. QED
          BY <1>8, <2>6, <4>1, <4>2, <4>3, ZenonT(30)
      <3>2. QED
        BY <2>2, <2>7, <3>1, ZenonT(30) DEF Reason
    <2>16. QED
      BY <1>3, <2>8, <2>9, <2>10, <2>11, <2>12, <2>13, <2>14, <2>15, ZenonT(30) DEF Inv
  <1>11. QED
    BY <1>9, <1>10, ZenonT(30)

\* An actor drops an entry that expired: nobody waits for it any more.
LEMMA ExpireStep ==
  ASSUME Types, Inv, NEW a \in Actor, Does(a, "expire")
  PROVE  Types' /\ Inv'
  <1>1. PICK id \in DOMAIN asked : id = Head(inbox[a]).id
    BY DoesEffect
  <1>2. PICK k \in Kind, n \in Key : k = asked[id].kind /\ n = asked[id].key
    BY QuestionType, ZenonT(30)
  <1>3. /\ inbox' \in [Actor -> Seq(Job)] /\ SentOnce' /\ (Cleaning' <=> Cleaning)
        /\ now' = now /\ Expire(id)
    BY <1>1, DoesEffect
  <1>4. /\ Pending("expire", id) /\ id \in Nat
        /\ \A what, x : Pending(what, x) <=> Pending(what, x)' \/ (what = "expire" /\ x = id)
    BY <1>1, DoesPending, QuestionType
  <1>5. \A kind \in Kind, key \in Key : Holds(kind, key, id) => kind = k /\ key = n
    BY <1>2, QuestionType DEF Inv, Open
  <1>6. /\ UNCHANGED <<asked, net, cleanup>>
        /\ requests' \in [Kind -> [Key -> Request \cup {None}]]
        /\ requests'[k][n] = IF Holds(k, n, id) THEN None ELSE requests[k][n]
        /\ \A kind \in Kind, key \in Key : (kind # k \/ key # n) =>
             requests'[kind][key] = requests[kind][key]
    BY <1>2, <1>3, ExpireEffect
  <1>7. /\ \A kind \in Kind, key \in Key, x \in Nat : Holds(kind, key, x)' <=> Holds(kind, key, x) /\ x # id
        /\ \A kind \in Kind, key \in Key :
             requests'[kind][key] = None \/ requests'[kind][key] = requests[kind][key]
    BY <1>4, <1>5, <1>6 DEF Holds
  <1>8. \A i : (Waits(i)' <=> Waits(i)) /\ (OnItsWay(i)' <=> OnItsWay(i))
    BY <1>4, <1>6 DEF Waits, OnItsWay
  <1>9. Types'
    BY <1>3, <1>6, ZenonT(30) DEF Types
  <1>10. Known' /\ Unsent' /\ Open'
    <2>1. Known'
      BY <1>4, <1>6, ZenonT(30) DEF Inv, Known
    <2>2. Unsent'
      BY <1>4, <1>6, <1>7, QuestionType DEF Inv, Unsent
    <2>3. Open'
      BY <1>6, <1>7 DEF Inv, Open
    <2>4. QED
      BY <2>1, <2>2, <2>3
  <1>11. Timed'
    <2>1. \A kind \in Kind, key \in Key, x \in Nat : Holds(kind, key, x)' =>
            requests'[kind][key] = requests[kind][key]
      BY <1>7, ZenonT(30) DEF Holds
    <2>2. QED
      BY <1>3, <1>4, <1>7, <2>1 DEF Inv, Timed
  <1>12. Cleaned'
    BY <1>3, <1>6, <1>7, ZenonT(30) DEF Inv, Cleaned, Kind
  <1>13. Patient'
    <2>1. \A kind \in Kind, key \in Key, x \in Nat : Holds(kind, key, x)' =>
            requests'[kind][key] = requests[kind][key]
      BY <1>7 DEF Holds
    <2>2. ASSUME NEW i \in DOMAIN asked, Waits(i)
          PROVE  /\ now <= asked[i].deadline
                 /\ Pending("send", i)' => asked[i].deadline = now + Wait
                 /\ ~Pending("expire", i)'
                 /\ \A kind \in Kind, key \in Key : Holds(kind, key, i)' =>
                      asked[i].deadline = requests'[kind][key].created + Wait
      <3>1. \A kind \in Kind, key \in Key : Holds(kind, key, i)' =>
              Holds(kind, key, i) /\ requests'[kind][key] = requests[kind][key]
        BY <1>7, <2>1, QuestionType, ZenonT(30)
      <3>2. /\ ~Pending("expire", i)'
            /\ Pending("send", i)' => Pending("send", i)
        BY <1>4, <2>2, PatientAt, ZenonT(30)
      <3>3. \A kind \in Kind, key \in Key : Holds(kind, key, i)' =>
              asked[i].deadline = requests'[kind][key].created + Wait
        BY <2>2, <3>1, PatientAt
      <3>4. QED
        BY <2>2, <3>2, <3>3, PatientAt, ZenonT(30)
    <2>3. QED
      BY <1>3, <1>6, <1>8, <2>2, ZenonT(30) DEF Patient
  <1>14. Reason'
    <2>1. ~Waits(id)
      BY <1>4, ZenonT(30) DEF Inv, Patient
    <2>2. QED
      BY <1>4, <1>6, <1>7, <1>8, <2>1, QuestionType, ZenonT(30) DEF Inv, Reason
  <1>15. QED
    BY <1>3, <1>9, <1>10, <1>11, <1>12, <1>13, <1>14, ZenonT(30) DEF Inv

\* The actor of nodeinfo cleans up: nobody waits for an entry that is so old.
LEMMA CleanupStep ==
  ASSUME Types, Inv, NEW a \in Actor, Does(a, "cleanup")
  PROVE  Types' /\ Inv'
  <1>1. PICK id : id = Head(inbox[a]).id
    OBVIOUS
  <1>2. inbox' \in [Actor -> Seq(Job)] /\ SentOnce' /\ now' = now /\ Cleanup
    BY DoesEffect, ZenonT(30)
  <1>3. \A what, x : what # "cleanup" => (Pending(what, x)' <=> Pending(what, x))
    BY <1>1, DoesPending
  <1>4. /\ UNCHANGED <<asked, net>> /\ cleanup' = now + HalfMinute
        /\ requests' \in [Kind -> [Key -> Request \cup {None}]]
    BY <1>2, CleanupEffect, ZenonT(30)
  <1>5. /\ \A kind \in Kind, key \in Key : requests'[kind][key] = requests[kind][key] \/ requests'[kind][key] = None
        /\ \A kind \in Kind, key \in Key :
             (/\ requests[kind][key] # None
              /\ kind = "getnodeinfo" => ~(now - requests[kind][key].created > Minute))
               => requests'[kind][key] = requests[kind][key]
        /\ \A key \in Key : requests'["getnodeinfo"][key] # None =>
             ~(now - requests["getnodeinfo"][key].created > Minute)
    BY <1>2, CleanupEffect, ZenonT(30)
  <1>6. \A kind \in Kind, key \in Key, x \in Nat : Holds(kind, key, x)' =>
          Holds(kind, key, x) /\ requests'[kind][key] = requests[kind][key]
    BY <1>5, ZenonT(30) DEF Holds
  <1>7. \A i : (Waits(i)' <=> Waits(i)) /\ (OnItsWay(i)' <=> OnItsWay(i))
    BY <1>3, <1>4, ZenonT(30) DEF Waits, OnItsWay
  <1>8. ASSUME NEW kind \in Kind, NEW key \in Key, NEW i \in DOMAIN asked, Waits(i), Holds(kind, key, i)
        PROVE  Holds(kind, key, i)'
    <2>1. now <= asked[i].deadline /\ asked[i].deadline = requests[kind][key].created + Wait
      BY <1>8, ZenonT(30) DEF Inv, Patient
    <2>2. requests[kind][key] # None /\ requests[kind][key].created \in Nat
      BY <1>8, EntryType, ZenonT(30) DEF Holds
    <2>3. ~(now - requests[kind][key].created > Minute)
      BY <2>1, <2>2, Constants DEF Types
    <2>4. requests'[kind][key] = requests[kind][key]
      BY <1>5, <2>2, <2>3, ZenonT(30)
    <2>5. QED
      BY <1>8, <2>4, ZenonT(30) DEF Holds
  <1>9. Types'
    <2>1. cleanup' \in Nat
      BY <1>4, Constants DEF Types
    <2>2. QED
      BY <1>2, <1>4, <2>1, ZenonT(30) DEF Types
  <1>10. Known' /\ Unsent' /\ Open'
    BY <1>3, <1>4, <1>6, QuestionType DEF Inv, Known, Unsent, Open
  <1>11. Timed'
    BY <1>2, <1>3, <1>6 DEF Inv, Timed
  <1>12. Cleaned'
    <2>1. now \in Nat
      BY ZenonT(30) DEF Types
    <2>2. cleanup' # None /\ now' <= cleanup' /\ cleanup' <= now' + HalfMinute
      BY <1>2, <1>4, <2>1, Constants, NoneAssumption
    <2>3. ASSUME NEW key \in Key, requests'["getnodeinfo"][key] # None
          PROVE  LET e == requests'["getnodeinfo"][key]
                 IN  /\ e.timer = None /\ now <= e.created + Minute + HalfMinute
                     /\ cleanup' <= e.created + Minute + HalfMinute
      <3>1. "getnodeinfo" \in Kind
        BY ZenonT(30) DEF Kind
      <3>2. PICK e : e = requests["getnodeinfo"][key]
        OBVIOUS
      <3>3. requests'["getnodeinfo"][key] = e /\ e # None
        BY <1>5, <2>3, <3>1, <3>2, ZenonT(30)
      <3>4. e.created \in Nat
        BY <3>1, <3>2, <3>3, EntryType, ZenonT(30)
      <3>5. ~(now - e.created > Minute)
        BY <1>5, <2>3, <3>2, ZenonT(30)
      <3>6. e.timer = None
        BY <3>2, <3>3, ZenonT(30) DEF Inv, Cleaned
      <3>7. QED
        BY <1>4, <2>1, <3>3, <3>4, <3>5, <3>6, Constants
    <2>4. QED
      BY <1>2, <2>2, <2>3, ZenonT(30) DEF Cleaned
  <1>13. Patient'
    <2>1. ASSUME NEW i \in DOMAIN asked, Waits(i)
          PROVE  /\ now <= asked[i].deadline
                 /\ Pending("send", i)' => asked[i].deadline = now + Wait
                 /\ ~Pending("expire", i)'
                 /\ \A kind \in Kind, key \in Key : Holds(kind, key, i)' =>
                      asked[i].deadline = requests'[kind][key].created + Wait
      <3>1. i \in Nat
        BY QuestionType, ZenonT(30)
      <3>2. \A kind \in Kind, key \in Key : Holds(kind, key, i)' =>
              Holds(kind, key, i) /\ requests'[kind][key] = requests[kind][key]
        BY <1>6, <3>1, ZenonT(30)
      <3>3. QED
        BY <1>3, <2>1, <3>2 DEF Inv, Patient
    <2>2. QED
      BY <1>2, <1>4, <1>7, <2>1, ZenonT(30) DEF Patient
  <1>14. Reason'
    <2>1. ASSUME NEW i \in DOMAIN asked, Waits(i),
                 ~asked[i].displaced, ~asked[i].lost, ~asked[i].ch, ~Pending("send", i)
          PROVE  (\E kind \in Kind, key \in Key : Holds(kind, key, i))' /\ OnItsWay(i)'
      BY <1>7, <1>8, <2>1, ZenonT(30) DEF Inv, Reason
    <2>2. QED
      BY <1>3, <1>4, <1>7, <2>1, ZenonT(30) DEF Reason
  <1>15. QED
    BY <1>2, <1>9, <1>10, <1>11, <1>12, <1>13, <1>14, ZenonT(30) DEF Inv

\* What an actor does.
LEMMA RunStep ==
  ASSUME Types, Inv, NEW a \in Actor, Run(a)
  PROVE  Types' /\ Inv'
  <1>1. \E what \in {"send", "response", "expire", "cleanup"} : Does(a, what)
    BY ZenonT(30) DEF Run, Does
  <1>2. QED
    BY <1>1, SendStep, ResponseStep, ExpireStep, CleanupStep, ZenonT(30)

-----------------------------------------------------------------------------
(* The steps of the handlers, the timers and the network *)

\* A question is asked.
LEMMA AskStep ==
  ASSUME Types, Inv, NEW c \in Conn, NEW k \in Kind, NEW n \in Key, NEW keepAlive \in BOOLEAN,
         HandleAdmin(c, k, n, keepAlive)
  PROVE  Types' /\ Inv'
  <1>1. PICK j \in Nat : j = Len(asked) + 1
    BY AskEffect, ZenonT(30)
  <1>2. /\ j \notin DOMAIN asked
        /\ Tell(ActorOf(k), [do |-> "send", id |-> j])
        /\ ActorOf(k) \in Actor /\ [do |-> "send", id |-> j] \in Job
        /\ asked' \in Seq(Question) /\ DOMAIN asked' = DOMAIN asked \cup {j}
        /\ ~asked'[j].ch /\ asked'[j].deadline = now + Wait
        /\ UNCHANGED <<now, requests, cleanup, net>>
    BY <1>1, AskEffect, ZenonT(30)
  <1>3. \A i \in DOMAIN asked : asked'[i] = asked[i]
    BY AskEffect, ZenonT(30)
  <1>4. \A what \in {"send", "response", "expire"} : ~Pending(what, j)
    BY <1>2, ZenonT(30) DEF Inv, Known
  <1>5. /\ inbox' \in [Actor -> Seq(Job)] /\ SentOnce' /\ (Cleaning' <=> Cleaning)
        /\ \A what, x : Pending(what, x)' <=> Pending(what, x) \/ (what = "send" /\ x = j)
    <2>1. PICK m \in Job : m.do = "send" /\ m.id = j /\ Tell(ActorOf(k), m)
      BY <1>2, ZenonT(30)
    <2>2. QED
      BY <1>2, <1>4, <2>1, Told, ZenonT(30) DEF Inv
  <1>6. /\ \A kind \in Kind, key \in Key, x \in Nat : Holds(kind, key, x)' <=> Holds(kind, key, x)
        /\ \A kind \in Kind, key \in Key : ~Holds(kind, key, j)
    BY <1>2 DEF Holds, Inv, Open
  <1>7. /\ \A i \in DOMAIN asked : Waits(i)' <=> Waits(i)
        /\ \A i : OnItsWay(i)' <=> OnItsWay(i)
    BY <1>2, <1>3, <1>5, ZenonT(30) DEF Waits, OnItsWay
  <1>8. Types'
    BY <1>2, <1>5, ZenonT(30) DEF Types
  <1>9. Known' /\ Unsent' /\ Open'
    <2>1. Known'
      BY <1>2, <1>5, ZenonT(30) DEF Inv, Known
    <2>2. Unsent'
      <3>1. ASSUME NEW i \in DOMAIN asked, Pending("send", i)'
            PROVE  ~asked[i].ch /\ \A kind \in Kind, key \in Key : ~Holds(kind, key, i)'
        <4>1. i # j /\ i \in Nat
          BY <1>2, QuestionType, ZenonT(30)
        <4>2. Pending("send", i)
          BY <1>5, <3>1, <4>1, ZenonT(30)
        <4>3. QED
          BY <1>6, <4>1, <4>2, ZenonT(30) DEF Inv, Unsent
      <3>2. QED
        BY <1>2, <1>3, <1>6, <3>1 DEF Unsent
    <2>3. Open'
      BY <1>2, <1>3, <1>6 DEF Inv, Open
    <2>4. QED
      BY <2>1, <2>2, <2>3, ZenonT(30)
  <1>10. Timed' /\ Cleaned'
    BY <1>2, <1>5, <1>6, ZenonT(30) DEF Inv, Timed, Cleaned
  <1>11. Patient'
    <2>1. now \in Nat /\ now <= now + Wait
      BY Constants DEF Types
    <2>2. ASSUME NEW i \in DOMAIN asked, Waits(i)
          PROVE  /\ now <= asked[i].deadline
                 /\ Pending("send", i)' => asked[i].deadline = now + Wait
                 /\ ~Pending("expire", i)'
                 /\ \A kind \in Kind, key \in Key : Holds(kind, key, i)' =>
                      asked[i].deadline = requests[kind][key].created + Wait
      <3>1. i # j /\ i \in Nat
        BY <1>2, QuestionType, ZenonT(30)
      <3>2. QED
        BY <1>5, <1>6, <2>2, <3>1, PatientAt, ZenonT(30)
    <2>3. \A kind \in Kind, key \in Key : ~Holds(kind, key, j)'
      BY <1>6, ZenonT(30)
    <2>4. ~Pending("expire", j)'
      <3>1. ~Pending("expire", j)
        BY <1>4, ZenonT(30)
      <3>2. QED
        BY <1>5, <3>1
    <2>5. now <= asked'[j].deadline
      BY <1>2, <2>1
    <2>6. QED
      BY <1>2, <1>3, <1>7, <2>2, <2>3, <2>4, <2>5 DEF Patient
  <1>12. Reason'
    BY <1>2, <1>3, <1>5, <1>6, <1>7, QuestionType, ZenonT(30) DEF Inv, Reason
  <1>13. QED
    BY <1>5, <1>8, <1>9, <1>10, <1>11, <1>12, ZenonT(30) DEF Inv

\* A handler answers its caller.
LEMMA RespondStep ==
  ASSUME Types, Inv, NEW id \in DOMAIN asked, NEW x \in {"answer", "timeout"}, Respond(id, x)
  PROVE  Types' /\ Inv'
  <1>1. /\ asked' \in Seq(Question) /\ DOMAIN asked' = DOMAIN asked
        /\ \A j \in DOMAIN asked : j # id => asked'[j] = asked[j]
        /\ asked'[id].kind = asked[id].kind /\ asked'[id].key = asked[id].key
        /\ ~asked'[id].ch /\ asked'[id].result = x
        /\ UNCHANGED <<now, inbox, requests, cleanup, net>>
    BY RespondEffect, ZenonT(30)
  <1>2. /\ \A what, j : Pending(what, j)' <=> Pending(what, j)
        /\ Cleaning' <=> Cleaning
        /\ \A j : \A kind \in Kind, key \in Key : Holds(kind, key, j)' <=> Holds(kind, key, j)
    BY <1>1, ZenonT(30) DEF Pending, Cleaning, Holds
  <1>3. /\ ~Waits(id)'
        /\ \A i \in DOMAIN asked : Waits(i)' => Waits(i) /\ asked'[i] = asked[i]
        /\ \A i : OnItsWay(i)' <=> OnItsWay(i)
    BY <1>1, <1>2, ZenonT(30) DEF Waits, OnItsWay
  <1>4. Types'
    BY <1>1, ZenonT(30) DEF Types
  <1>5. Known' /\ SentOnce'
    <2>1. Known'
      BY <1>1, <1>2, ZenonT(30) DEF Inv, Known
    <2>2. SentOnce'
      BY <1>1 DEF Inv, SentOnce
    <2>3. QED
      BY <2>1, <2>2
  <1>6. Unsent'
    BY <1>1, <1>2, ZenonT(30) DEF Inv, Unsent
  <1>7. Open'
    <2>1. ASSUME NEW kind \in Kind, NEW key \in Key, NEW j \in Nat, Holds(kind, key, j)
          PROVE  /\ j \in DOMAIN asked' /\ asked'[j].kind = kind /\ asked'[j].key = key
                 /\ ~asked'[j].ch
      <3>1. j \in DOMAIN asked /\ asked[j].kind = kind /\ asked[j].key = key /\ ~asked[j].ch
        BY <2>1 DEF Inv, Open
      <3>2. QED
        BY <1>1, <3>1
    <2>2. QED
      BY <1>2, <2>1 DEF Open
  <1>8. Timed' /\ Cleaned'
    BY <1>1, <1>2, ZenonT(30) DEF Inv, Timed, Cleaned
  <1>9. Patient'
    BY <1>1, <1>2, <1>3 DEF Inv, Patient
  <1>10. Reason'
    BY <1>1, <1>2, <1>3, ZenonT(30) DEF Inv, Reason
  <1>11. QED
    BY <1>4, <1>5, <1>6, <1>7, <1>8, <1>9, <1>10, ZenonT(30) DEF Inv

\* A timer fires: its handler has given up before.
LEMMA TimerStep ==
  ASSUME Types, Inv, NEW k \in Kind, NEW n \in Key, TimerFires(k, n)
  PROVE  Types' /\ Inv'
  <1>1. PICK e \in Request, j \in Nat : e = requests[k][n] /\ j = e.id
    BY TimerEffect, EntryType, ZenonT(30)
  <1>2. /\ e # None /\ e.timer \in Nat /\ now >= e.timer /\ e.timer # None
        /\ requests' \in [Kind -> [Key -> Request \cup {None}]]
        /\ requests'[k][n] # None /\ requests'[k][n].id = j
        /\ requests'[k][n].created = e.created /\ requests'[k][n].timer = None
        /\ [do |-> "expire", id |-> j] \in Job
        /\ Tell("proto", [do |-> "expire", id |-> j])
        /\ UNCHANGED <<now, asked, cleanup, net>>
    BY <1>1, TimerEffect, ZenonT(30)
  <1>3. \A kind \in Kind, key \in Key : (kind # k \/ key # n) =>
          requests'[kind][key] = requests[kind][key]
    BY TimerEffect, ZenonT(30)
  <1>4. Holds(k, n, j) /\ k # "getnodeinfo"
    BY <1>1, <1>2, ZenonT(30) DEF Holds, Inv, Cleaned
  <1>5. e.timer = e.created + Minute /\ j \in DOMAIN asked
    BY <1>1, <1>2, <1>4, ZenonT(30) DEF Inv, Timed, Open
  <1>6. ~Waits(j)
    <2> SUFFICES ASSUME Waits(j) PROVE FALSE
      OBVIOUS
    <2>1. now <= asked[j].deadline /\ asked[j].deadline = e.created + Wait
      BY <1>1, <1>4, <1>5, ZenonT(30) DEF Inv, Patient
    <2>2. e.created \in Nat /\ now \in Nat
      BY <1>1, ZenonT(30) DEF Types, Request
    <2>3. QED
      BY <1>2, <1>5, <2>1, <2>2, Constants
  <1>7. /\ inbox' \in [Actor -> Seq(Job)] /\ SentOnce' /\ (Cleaning' <=> Cleaning)
        /\ \A what, x : Pending(what, x)' <=> Pending(what, x) \/ (what = "expire" /\ x = j)
    <2>1. PICK m \in Job : m.do = "expire" /\ m.id = j /\ Tell("proto", m)
      BY <1>2, ZenonT(30)
    <2>2. "proto" \in Actor
      BY ZenonT(30) DEF Actor
    <2>3. QED
      BY <2>1, <2>2, Told, ZenonT(30) DEF Inv
  <1>8. /\ \A kind \in Kind, key \in Key, x \in Nat : Holds(kind, key, x)' <=> Holds(kind, key, x)
        /\ \A kind \in Kind, key \in Key, x \in Nat : Holds(kind, key, x)' =>
             requests'[kind][key].created = requests[kind][key].created
    BY <1>1, <1>2, <1>3 DEF Holds
  <1>9. \A i : (Waits(i)' <=> Waits(i)) /\ (OnItsWay(i)' <=> OnItsWay(i))
    BY <1>2, <1>7 DEF Waits, OnItsWay
  <1>10. Types'
    BY <1>2, <1>7, ZenonT(30) DEF Types
  <1>11. Known'
    BY <1>2, <1>5, <1>7, ZenonT(30) DEF Inv, Known
  <1>12. Unsent' /\ Open'
    BY <1>2, <1>7, <1>8, QuestionType DEF Inv, Unsent, Open
  <1>13. Timed'
    <2> SUFFICES ASSUME NEW kind \in Kind, NEW key \in Key, NEW x \in Nat,
                        kind # "getnodeinfo", Holds(kind, key, x)'
                 PROVE  /\ now <= requests'[kind][key].created + Minute
                        /\ requests'[kind][key].timer # None =>
                             requests'[kind][key].timer = requests'[kind][key].created + Minute
                        /\ requests'[kind][key].timer = None => Pending("expire", x)'
      BY <1>2, ZenonT(30) DEF Timed
    <2>1. Holds(kind, key, x)
      BY <1>8, ZenonT(30)
    <2>2. CASE kind = k /\ key = n
      <3>1. x = j
        BY <1>2, <2>1, <2>2, <1>1, ZenonT(30) DEF Holds
      <3>2. now <= e.created + Minute
        BY <1>1, <2>1, <2>2, ZenonT(30) DEF Inv, Timed
      <3>3. QED
        BY <1>2, <1>7, <2>2, <3>1, <3>2, ZenonT(30)
    <2>3. CASE kind # k \/ key # n
      BY <1>3, <1>7, <2>1, <2>3 DEF Inv, Timed
    <2>4. QED
      BY <2>2, <2>3, ZenonT(30)
  <1>14. Cleaned'
    <2>1. \A key \in Key : requests'["getnodeinfo"][key] = requests["getnodeinfo"][key]
      BY <1>3, <1>4, ZenonT(30) DEF Kind
    <2>2. QED
      BY <1>2, <1>7, <2>1, ZenonT(30) DEF Inv, Cleaned
  <1>15. Patient'
    <2>1. ASSUME NEW i \in DOMAIN asked, Waits(i)
          PROVE  /\ now <= asked[i].deadline
                 /\ Pending("send", i)' => asked[i].deadline = now + Wait
                 /\ ~Pending("expire", i)'
                 /\ \A kind \in Kind, key \in Key : Holds(kind, key, i)' =>
                      asked[i].deadline = requests'[kind][key].created + Wait
      <3>1. i \in Nat /\ i # j
        BY <1>6, <2>1, QuestionType, ZenonT(30)
      <3>2. \A kind \in Kind, key \in Key : Holds(kind, key, i)' =>
              Holds(kind, key, i) /\ requests'[kind][key].created = requests[kind][key].created
        BY <1>8, <3>1, ZenonT(30)
      <3>3. /\ ~Pending("expire", i)'
            /\ Pending("send", i)' => Pending("send", i)
        BY <1>7, <2>1, <3>1, PatientAt, ZenonT(30)
      <3>4. \A kind \in Kind, key \in Key : Holds(kind, key, i)' =>
              asked[i].deadline = requests'[kind][key].created + Wait
        BY <2>1, <3>2, PatientAt
      <3>5. QED
        BY <2>1, <3>3, <3>4, PatientAt, ZenonT(30)
    <2>2. QED
      BY <1>2, <1>9, <2>1, ZenonT(30) DEF Patient
  <1>16. Reason'
    BY <1>2, <1>7, <1>8, <1>9, QuestionType, ZenonT(30) DEF Inv, Reason
  <1>17. QED
    BY <1>7, <1>10, <1>11, <1>12, <1>13, <1>14, <1>15, <1>16, ZenonT(30) DEF Inv

\* The steps that change the net: all but Known and Reason is as before.
LEMMA NetStep ==
  ASSUME Types, Inv, UNCHANGED <<now, inbox, requests, cleanup>>,
         net' \subseteq [type : {"request", "response"}, id : Nat, size : Nat],
         asked' \in Seq(Question), DOMAIN asked' = DOMAIN asked,
         \A x \in net' : x.id \in DOMAIN asked,
         \A i \in DOMAIN asked :
           /\ asked'[i].kind = asked[i].kind /\ asked'[i].key = asked[i].key
           /\ asked'[i].result = asked[i].result /\ asked'[i].deadline = asked[i].deadline
           /\ (asked'[i].ch <=> asked[i].ch) /\ (asked[i].displaced => asked'[i].displaced)
           /\ Waits(i) => \/ asked'[i].lost
                          \/ (OnItsWay(i) => OnItsWay(i)') /\ (asked'[i].lost <=> asked[i].lost)
  PROVE  Types' /\ Inv'
  <1>1. /\ \A what, j : Pending(what, j)' <=> Pending(what, j)
        /\ Cleaning' <=> Cleaning
        /\ \A j : \A kind \in Kind, key \in Key : Holds(kind, key, j)' <=> Holds(kind, key, j)
    BY ZenonT(30) DEF Pending, Cleaning, Holds
  <1>2. \A i \in DOMAIN asked : Waits(i)' <=> Waits(i)
    BY ZenonT(30) DEF Waits
  <1>3. Types'
    BY ZenonT(30) DEF Types
  <1>4. Known' /\ SentOnce'
    <2>1. Known'
      BY <1>1, ZenonT(30) DEF Inv, Known
    <2>2. SentOnce'
      <3>1. inbox' = inbox /\ SentOnce
        BY DEF Inv
      <3>2. QED
        BY <3>1 DEF SentOnce
    <2>3. QED
      BY <2>1, <2>2
  <1>5. Unsent' /\ Open'
    <2>1. Unsent'
      BY <1>1, ZenonT(30) DEF Inv, Unsent
    <2>2. Open'
      BY <1>1, SMTT(30) DEF Inv, Open
    <2>3. QED
      BY <2>1, <2>2
  <1>6. Timed' /\ Cleaned'
    BY <1>1, ZenonT(30) DEF Inv, Timed, Cleaned
  <1>7. Patient'
    BY <1>1, <1>2, ZenonT(30) DEF Inv, Patient
  <1>8. Reason'
    BY <1>1, <1>2, ZenonT(30) DEF Inv, Reason
  <1>9. QED
    BY <1>3, <1>4, <1>5, <1>6, <1>7, <1>8, ZenonT(30) DEF Inv

\* The remote node answers.
LEMMA RequestStep ==
  ASSUME Types, Inv, NEW m \in net, HandleRequest(m)
  PROVE  Types' /\ Inv'
  <1>1. /\ net' \subseteq [type : {"request", "response"}, id : Nat, size : Nat]
        /\ \E x \in net' : x.id = m.id
        /\ \A x \in net' : x \in net \/ x.id = m.id
        /\ \A x \in net : x # m => x \in net'
        /\ UNCHANGED <<now, asked, inbox, requests, cleanup>>
    BY RequestEffect, ZenonT(30) DEF Inv
  <1>2. \A x \in net' : x.id \in DOMAIN asked
    BY <1>1, ZenonT(30) DEF Inv, Known
  <1>3. \A i : OnItsWay(i) => OnItsWay(i)'
    BY <1>1, ZenonT(30) DEF OnItsWay, Pending
  <1>4. QED
    BY <1>1, <1>2, <1>3, NetStep, ZenonT(30) DEF Types

\* A message is lost.
LEMMA LoseStep ==
  ASSUME Types, Inv, NEW m \in net, Lose(m)
  PROVE  Types' /\ Inv'
  <1>1. PICK j \in DOMAIN asked : j = m.id
    BY LoseEffect, ZenonT(30) DEF Inv
  <1>2. /\ net' = net \ {m}
        /\ asked' \in Seq(Question) /\ DOMAIN asked' = DOMAIN asked
        /\ \A i \in DOMAIN asked :
             /\ asked'[i].kind = asked[i].kind /\ asked'[i].key = asked[i].key
             /\ asked'[i].result = asked[i].result /\ asked'[i].deadline = asked[i].deadline
             /\ (asked'[i].ch <=> asked[i].ch) /\ (asked'[i].displaced <=> asked[i].displaced)
             /\ i # j => (asked'[i].lost <=> asked[i].lost)
             /\ i = j => (asked'[i].lost <=> Waits(i))
        /\ UNCHANGED <<now, inbox, requests, cleanup>>
    BY <1>1, LoseEffect, ZenonT(30) DEF Inv
  <1>3. \A i : i # j /\ OnItsWay(i) => OnItsWay(i)'
    BY <1>1, <1>2, ZenonT(30) DEF OnItsWay, Pending
  <1>4. /\ net' \subseteq [type : {"request", "response"}, id : Nat, size : Nat]
        /\ \A x \in net' : x.id \in DOMAIN asked
    BY <1>2, ZenonT(30) DEF Types, Inv, Known
  <1>5. QED
    BY <1>2, <1>3, <1>4, NetStep, ZenonT(30)

\* An answer arrives.
LEMMA ProtoStep ==
  ASSUME Types, Inv, NEW m \in net, HandleProto(m)
  PROVE  Types' /\ Inv'
  <1>1. PICK j \in DOMAIN asked : j = m.id
    BY ProtoEffect, ZenonT(30) DEF Inv
  <1>2. PICK a \in Actor : Tell(a, [do |-> "response", id |-> j])
    BY <1>1, ProtoEffect, ZenonT(30) DEF Inv
  <1>3. /\ net' = net \ {m} /\ [do |-> "response", id |-> j] \in Job
        /\ UNCHANGED <<now, asked, requests, cleanup>>
    BY <1>1, ProtoEffect, ZenonT(30) DEF Inv
  <1>4. /\ inbox' \in [Actor -> Seq(Job)] /\ SentOnce' /\ (Cleaning' <=> Cleaning)
        /\ \A what, x : Pending(what, x)' <=> Pending(what, x) \/ (what = "response" /\ x = j)
    <2>1. PICK r \in Job : r.do = "response" /\ r.id = j /\ Tell(a, r)
      BY <1>2, <1>3, ZenonT(30)
    <2>2. QED
      BY <2>1, Told, ZenonT(30) DEF Inv
  <1>5. \A x : \A kind \in Kind, key \in Key : Holds(kind, key, x)' <=> Holds(kind, key, x)
    BY <1>3, ZenonT(30) DEF Holds
  <1>6. \A i : (Waits(i)' <=> Waits(i)) /\ (OnItsWay(i) => OnItsWay(i)')
    BY <1>1, <1>3, <1>4, ZenonT(30) DEF Waits, OnItsWay
  <1>7. Types'
    BY <1>3, <1>4, ZenonT(30) DEF Types
  <1>8. Known'
    BY <1>3, <1>4, ZenonT(30) DEF Inv, Known
  <1>9. Unsent' /\ Open'
    BY <1>3, <1>4, <1>5 DEF Inv, Unsent, Open
  <1>10. Timed' /\ Cleaned'
    BY <1>3, <1>4, <1>5, ZenonT(30) DEF Inv, Timed, Cleaned
  <1>11. Patient'
    BY <1>3, <1>4, <1>5, <1>6 DEF Inv, Patient
  <1>12. Reason'
    BY <1>3, <1>4, <1>5, <1>6, ZenonT(30) DEF Inv, Reason
  <1>13. QED
    BY <1>4, <1>7, <1>8, <1>9, <1>10, <1>11, <1>12, ZenonT(30) DEF Inv

\* The timer of the clean-up fires.
LEMMA CleanupFiresStep ==
  ASSUME Types, Inv, CleanupFires
  PROVE  Types' /\ Inv'
  <1>1. PICK m : m = [do |-> "cleanup"]
    BY Zenon
  <1>2. /\ m \in Job /\ m.do = "cleanup" /\ Tell("nodeinfo", m) /\ "nodeinfo" \in Actor
        /\ cleanup' = None /\ UNCHANGED <<now, asked, requests, net>>
    BY <1>1, ZenonT(30) DEF CleanupFires, rigid, Job, Actor
  <1>3. /\ inbox' \in [Actor -> Seq(Job)] /\ SentOnce' /\ Cleaning'
        /\ \A what, x : what # "cleanup" => (Pending(what, x)' <=> Pending(what, x))
    BY <1>2, Told, ZenonT(30) DEF Inv
  <1>4. \A x : \A kind \in Kind, key \in Key : Holds(kind, key, x)' <=> Holds(kind, key, x)
    BY <1>2, ZenonT(30) DEF Holds
  <1>5. \A i : (Waits(i)' <=> Waits(i)) /\ (OnItsWay(i)' <=> OnItsWay(i))
    BY <1>2, <1>3, ZenonT(30) DEF Waits, OnItsWay
  <1>6. Types'
    BY <1>2, <1>3, ZenonT(30) DEF Types
  <1>7. Known' /\ Unsent' /\ Open'
    BY <1>2, <1>3, <1>4 DEF Inv, Known, Unsent, Open
  <1>8. Timed' /\ Cleaned'
    BY <1>2, <1>3, <1>4, ZenonT(30) DEF Inv, Timed, Cleaned
  <1>9. Patient'
    BY <1>2, <1>3, <1>4, <1>5, ZenonT(30) DEF Inv, Patient
  <1>10. Reason'
    BY <1>2, <1>3, <1>4, <1>5, ZenonT(30) DEF Inv, Reason
  <1>11. QED
    BY <1>3, <1>6, <1>7, <1>8, <1>9, <1>10, ZenonT(30) DEF Inv

\* A second passes, when everybody is done with the one before.
LEMMA TickStep ==
  ASSUME Types, Inv, Tick
  PROVE  Types' /\ Inv'
  <1>1. /\ now' = now + 1 /\ now \in Nat /\ UNCHANGED <<asked, inbox, requests, cleanup, net>>
        /\ \A a \in Actor : inbox[a] = <<>>
        /\ \A i \in DOMAIN asked : Waits(i) => now < asked[i].deadline
        /\ \A kind \in Kind, key \in Key : ~TimerDue(kind, key)
        /\ cleanup # None => now < cleanup
    BY ZenonT(30) DEF Tick, Types
  <1>2. ~Cleaning /\ \A what, x : ~Pending(what, x)
    BY <1>1 DEF Cleaning, HasCleanup, Pending, Has
  <1>3. (Cleaning' <=> Cleaning) /\ \A what, x : ~Pending(what, x)'
    BY <1>1, <1>2, ZenonT(30) DEF Cleaning, Pending
  <1>4. \A x : \A kind \in Kind, key \in Key : Holds(kind, key, x)' <=> Holds(kind, key, x)
    BY <1>1, ZenonT(30) DEF Holds
  <1>5. \A i : (Waits(i)' <=> Waits(i)) /\ (OnItsWay(i)' <=> OnItsWay(i))
    BY <1>1, <1>2, <1>3, ZenonT(30) DEF Waits, OnItsWay
  <1>6. Types'
    <2>1. now' \in Nat
      BY <1>1
    <2>2. QED
      BY <1>1, <2>1, ZenonT(30) DEF Types
  <1>7. Known' /\ SentOnce' /\ Unsent' /\ Open'
    BY <1>1, <1>3, <1>4 DEF Inv, Known, SentOnce, Unsent, Open
  <1>8. Timed'
    <2>1. ASSUME NEW kind \in Kind, NEW key \in Key, NEW x \in Nat,
                 kind # "getnodeinfo", Holds(kind, key, x)
          PROVE  /\ requests[kind][key].timer # None
                 /\ requests[kind][key].timer = requests[kind][key].created + Minute
                 /\ now + 1 <= requests[kind][key].created + Minute
      <3>1. /\ requests[kind][key].timer # None
            /\ requests[kind][key].timer = requests[kind][key].created + Minute
        BY <1>2, <2>1, ZenonT(30) DEF Inv, Timed
      <3>2. requests[kind][key] # None
        BY <2>1, ZenonT(30) DEF Holds
      <3>3. ~(now >= requests[kind][key].timer)
        BY <1>1, <3>1, <3>2, ZenonT(30) DEF TimerDue
      <3>4. requests[kind][key].created \in Nat
        BY <3>2, EntryType, ZenonT(30)
      <3>5. QED
        BY <1>1, <3>1, <3>3, <3>4, Constants
    <2>2. QED
      BY <1>1, <1>4, <2>1, ZenonT(30) DEF Timed
  <1>9. Cleaned'
    <2>1. cleanup # None /\ cleanup \in Nat /\ now < cleanup /\ cleanup <= now + HalfMinute
      BY <1>1, <1>2, ZenonT(30) DEF Inv, Cleaned, Types
    <2>2. now + 1 <= cleanup /\ cleanup <= (now + 1) + HalfMinute
      BY <1>1, <2>1, Constants
    <2>3. ASSUME NEW key \in Key, requests["getnodeinfo"][key] # None
          PROVE  /\ requests["getnodeinfo"][key].timer = None
                 /\ now + 1 <= requests["getnodeinfo"][key].created + Minute + HalfMinute
                 /\ cleanup <= requests["getnodeinfo"][key].created + Minute + HalfMinute
      <3>1. requests["getnodeinfo"][key].created \in Nat
        BY <2>3, EntryType, ZenonT(30) DEF Kind
      <3>2. /\ requests["getnodeinfo"][key].timer = None
            /\ cleanup <= requests["getnodeinfo"][key].created + Minute + HalfMinute
        BY <2>1, <2>3, ZenonT(30) DEF Inv, Cleaned
      <3>3. QED
        BY <1>1, <2>1, <2>2, <3>1, <3>2, Constants
    <2>4. QED
      BY <1>1, <2>1, <2>2, <2>3, ZenonT(30) DEF Cleaned
  <1>10. Patient'
    <2>1. \A i \in DOMAIN asked : Waits(i) => now + 1 <= asked[i].deadline
      BY <1>1, QuestionType
    <2>2. QED
      BY <1>1, <1>3, <1>4, <1>5, <2>1, ZenonT(30) DEF Inv, Patient
  <1>11. Reason'
    BY <1>1, <1>2, <1>4, <1>5, ZenonT(30) DEF Inv, Reason
  <1>12. QED
    BY <1>6, <1>7, <1>8, <1>9, <1>10, <1>11, ZenonT(30) DEF Inv

\* The other steps are of connections that do not ask.
LEMMA QuietStep ==
  ASSUME Types, Inv, UNCHANGED <<now, asked, inbox, requests, cleanup, net>>
  PROVE  Types' /\ Inv'
  <1>1. \A i : OnItsWay(i) => OnItsWay(i)'
    BY ZenonT(30) DEF OnItsWay, Pending
  <1>2. QED
    BY <1>1, NetStep, ZenonT(30) DEF Types, Inv, Known

\* The steps of Next.
LEMMA NextCases ==
  ASSUME Types, [Next]_vars
  PROVE  \/ \E c \in Conn, kind \in Kind, key \in Key, keepAlive \in BOOLEAN :
              HandleAdmin(c, kind, key, keepAlive)
         \/ \E i \in DOMAIN asked : Answer(i) \/ Timeout(i)
         \/ \E kind \in Kind, key \in Key : TimerFires(kind, key)
         \/ \E a \in Actor : Run(a)
         \/ \E m \in net : HandleRequest(m) \/ HandleProto(m) \/ Lose(m)
         \/ CleanupFires \/ Tick
         \/ UNCHANGED <<now, asked, inbox, requests, cleanup, net>>
  BY ZenonT(30) DEF Next, vars, rigid, Accept, BadRequest, SetAdmin, Stop

\* Every step keeps the invariant.
LEMMA NextInv ==
  ASSUME Types, Inv, [Next]_vars
  PROVE  Types' /\ Inv'
  <1>1. ASSUME NEW i \in DOMAIN asked, Answer(i) \/ Timeout(i) PROVE Types' /\ Inv'
    <2>1. \E x \in {"answer", "timeout"} : Respond(i, x)
      BY <1>1, ZenonT(30) DEF Answer, Timeout
    <2>2. QED
      BY <2>1, RespondStep, ZenonT(30)
  <1>2. QED
    BY <1>1, NextCases, AskStep, TimerStep, RunStep, RequestStep, ProtoStep, LoseStep,
       CleanupFiresStep, TickStep, QuietStep, ZenonT(30)

\* The inductive invariant holds in every state.
LEMMA ProtoInvariant == Spec => [](Types /\ Inv)
  <1>1. Init => Types /\ Inv
    BY InitInv, ZenonT(30)
  <1>2. (Types /\ Inv) /\ [Next]_vars => (Types /\ Inv)'
    BY NextInv, ZenonT(30)
  <1>3. QED
    BY <1>1, <1>2, PTL DEF Spec

-----------------------------------------------------------------------------
(* Theorems *)

\* No answer stops protoHandler or nodeinfo, whose callbacks write to a channel
\* that may be full: an entry is of a question without an answer, because an
\* answer takes the entry away, and a question is sent only once.
THEOREM ActorsGoOn == Spec => []NeverBlocks
  <1>1. Types /\ Inv => NeverBlocks
    <2> SUFFICES ASSUME Types, Inv, NEW a \in Actor, Blocked(a) PROVE FALSE
      BY ZenonT(30) DEF NeverBlocks
    <2>1. Head(inbox[a]).id \in DOMAIN asked
      BY JobKnown, ZenonT(30) DEF Blocked, Inv
    <2>2. PICK id \in DOMAIN asked : id = Head(inbox[a]).id
      BY <2>1, ZenonT(30)
    <2>3. PICK k \in Kind, n \in Key : k = asked[id].kind /\ n = asked[id].key
      BY QuestionType, ZenonT(30)
    <2>4. requests[k][n] # None /\ asked[requests[k][n].id].ch
      BY <2>2, <2>3, ZenonT(30) DEF Blocked, Entry
    <2>5. requests[k][n].id \in Nat /\ Holds(k, n, requests[k][n].id)
      BY <2>4, EntryType, ZenonT(30) DEF Holds
    <2>6. QED
      BY <2>4, <2>5 DEF Inv, Open
  <1>2. QED
    BY <1>1, ProtoInvariant, PTL

\* Every question is forgotten in time: the timer of an entry of protoHandler is
\* set for the minute after it and only fires when the actor can be told, and
\* the clean-up of nodeinfo is never more than half a minute away.
THEOREM QuestionsForgotten == Spec => []Forgotten
  <1>1. Types /\ Inv => Forgotten
    <2> SUFFICES ASSUME Types, Inv, NEW kind \in Kind, NEW key \in Key, requests[kind][key] # None
                 PROVE  now - requests[kind][key].created <=
                          (IF kind = "getnodeinfo" THEN Minute + HalfMinute ELSE Minute)
      BY ZenonT(30) DEF Forgotten
    <2>1. PICK c \in Nat, j \in Nat : c = requests[kind][key].created /\ j = requests[kind][key].id
      BY EntryType, ZenonT(30)
    <2>2. now \in Nat
      BY ZenonT(30) DEF Types
    <2>3. CASE kind = "getnodeinfo"
      <3>1. now <= c + Minute + HalfMinute
        BY <2>1, <2>3, ZenonT(30) DEF Inv, Cleaned
      <3>2. QED
        BY <2>1, <2>2, <2>3, <3>1, Constants
    <2>4. CASE kind # "getnodeinfo"
      <3>1. now <= c + Minute
        BY <2>1, <2>4, ZenonT(30) DEF Inv, Timed, Holds
      <3>2. QED
        BY <2>1, <2>2, <2>4, <3>1, Constants
    <2>5. QED
      BY <2>3, <2>4, ZenonT(30)
  <1>2. QED
    BY <1>1, ProtoInvariant, PTL

\* Nothing but its own patience ends a handler's wait without an answer.
LEMMA OnlyTimeout ==
  ASSUME Types, Inv, [Next]_vars, NEW i \in DOMAIN asked, Waits(i), asked'[i].result = "timeout"
  PROVE  Timeout(i)
  <1>1. asked[i].result = "waiting"
    BY ZenonT(30) DEF Waits
  <1>2. asked' # asked
    BY <1>1, ZenonT(30)
  <1>3. ASSUME NEW c \in Conn, NEW kind \in Kind, NEW key \in Key, NEW keepAlive \in BOOLEAN,
               HandleAdmin(c, kind, key, keepAlive)
        PROVE  FALSE
    BY <1>1, <1>3, AskEffect, ZenonT(30)
  <1>4. ASSUME NEW j \in DOMAIN asked, Answer(j) PROVE FALSE
    BY <1>1, <1>4, RespondEffect, ZenonT(30) DEF Answer
  <1>5. ASSUME NEW j \in DOMAIN asked, Timeout(j) PROVE Timeout(i)
    BY <1>1, <1>5, RespondEffect, ZenonT(30) DEF Timeout
  <1>6. ASSUME NEW a \in Actor, Run(a) PROVE FALSE
    <2>1. PICK what \in {"send", "response", "expire", "cleanup"} : Does(a, what)
      BY <1>6, ZenonT(30) DEF Run, Does
    <2>2. what = "send" \/ what = "response"
      BY <1>2, <2>1, DoesEffect, ZenonT(30) DEF Expire, Cleanup
    <2>3. PICK id \in DOMAIN asked : id = Head(inbox[a]).id
      BY <2>1, <2>2, DoesEffect, ZenonT(30)
    <2>4. Send(id) \/ HandleResponse(id)
      BY <2>1, <2>2, <2>3, DoesEffect, ZenonT(30)
    <2>5. CASE Send(id)
      BY <1>1, <2>5, SendEffect, DisplaceEffect
    <2>6. CASE HandleResponse(id)
      BY <1>1, <1>2, <2>6, ResponseEffect, ZenonT(30) DEF Inv
    <2>7. QED
      BY <2>4, <2>5, <2>6, ZenonT(30)
  <1>7. ASSUME NEW m \in net, HandleRequest(m) \/ HandleProto(m) \/ Lose(m) PROVE FALSE
    <2>1. Lose(m)
      BY <1>2, <1>7, ZenonT(30) DEF HandleRequest, HandleProto
    <2>2. QED
      BY <1>1, <2>1, LoseEffect, ZenonT(30) DEF Inv
  <1>8. (\A kind \in Kind, key \in Key : ~TimerFires(kind, key)) /\ ~CleanupFires /\ ~Tick
    BY <1>2, ZenonT(30) DEF TimerFires, CleanupFires, Tick
  <1>9. QED
    BY <1>2, <1>3, <1>4, <1>5, <1>6, <1>7, <1>8, NextCases, ZenonT(30)

\* A handler of the admin socket gives up only when its question or its answer
\* was lost or is still on its way, or somebody else's question took its place:
\* as long as it waits, neither the minute's timer, nor the clean-up, nor the
\* answer to another question takes its entry away.
THEOREM GivesUpForAReason == Spec => Answered
  <1>1. Types /\ Inv /\ [Next]_vars =>
          [\A i \in DOMAIN asked :
             Waits(i) /\ asked'[i].result = "timeout" =>
               asked[i].displaced \/ asked[i].lost \/ Late(i)]_vars
    <2> SUFFICES ASSUME Types, Inv, [Next]_vars, NEW i \in DOMAIN asked, Waits(i),
                        asked'[i].result = "timeout"
                 PROVE  asked[i].displaced \/ asked[i].lost \/ Late(i)
      OBVIOUS
    <2>1. now >= asked[i].deadline /\ now <= asked[i].deadline
      BY OnlyTimeout, ZenonT(30) DEF Timeout, Inv, Patient
    <2>2. now \in Nat /\ asked[i].deadline \in Nat
      BY QuestionType, ZenonT(30) DEF Types
    <2>3. ~Pending("send", i)
      <3>1. Pending("send", i) => asked[i].deadline = now + Wait
        BY ZenonT(30) DEF Inv, Patient
      <3>2. asked[i].deadline # now + Wait
        BY <2>1, <2>2, Constants
      <3>3. QED
        BY <3>1, <3>2, ZenonT(30)
    <2>4. asked[i].displaced \/ asked[i].lost \/ asked[i].ch \/ OnItsWay(i)
      BY <2>3, ZenonT(30) DEF Inv, Reason
    <2>5. ASSUME Pending("response", i)
          PROVE  \E m \in UNION {Range(inbox[a]) : a \in Actor} : m.do = "response" /\ m.id = i
      <3>1. PICK a \in Actor : \E j \in DOMAIN inbox[a] : inbox[a][j].do = "response" /\ inbox[a][j].id = i
        BY <2>5, ZenonT(30) DEF Pending, Has
      <3>2. PICK j \in DOMAIN inbox[a] : inbox[a][j].do = "response" /\ inbox[a][j].id = i
        BY <3>1, ZenonT(30)
      <3>3. inbox[a][j] \in Range(inbox[a])
        BY ZenonT(30) DEF Range
      <3>4. inbox[a][j] \in UNION {Range(inbox[b]) : b \in Actor}
        BY <3>3, ZenonT(30)
      <3>5. QED
        BY <3>2, <3>4, ZenonT(30)
    <2>6. OnItsWay(i) => Late(i)
      BY <2>5, ZenonT(30) DEF OnItsWay, Late
    <2>7. asked[i].ch => Late(i)
      BY ZenonT(30) DEF Late
    <2>8. QED
      BY <2>4, <2>6, <2>7, ZenonT(30)
  <1>2. QED
    BY <1>1, ProtoInvariant, PTL DEF Spec, Answered
=============================================================================
