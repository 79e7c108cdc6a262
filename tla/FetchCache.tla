------------------------------ MODULE FetchCache ------------------------------
(***************************************************************************)
(* What a caching schema fetcher promises, whatever it keeps its entries   *)
(* in.  A call for a URL is answered with an error, or with a result the   *)
(* inner fetcher produced (or a caller seeded) for that URL, whole: the    *)
(* content and the final URL of one and the same fetch.  A result obtained *)
(* through a redirect also stands for the URL it was redirected to, which  *)
(* the relative references of a hinted document are resolved against.      *)
(***************************************************************************)
CONSTANTS
  Callers,   \* the threads or tasks that call the fetcher
  Urls,
  Bodies,    \* document contents
  Idle,      \* no call in progress
  Failed     \* a call that ended in an error

VARIABLES
  known,     \* known[u]: the results obtained for u so far
  answer     \* answer[c]: what c's call was answered, until c takes it

cacheVars == <<known, answer>>

Results == [body : Bodies, final : Urls]

Answers == [url : Urls, result : Results]

CacheInit ==
  /\ known  = [u \in Urls |-> {}]
  /\ answer = [c \in Callers |-> Idle]

(* The inner fetcher answers a request for u, or a caller seeds u.         *)
Obtain(u, r) ==
  /\ known' = [v \in Urls |-> IF v \in {u, r.final} THEN known[v] \cup {r} ELSE known[v]]
  /\ UNCHANGED answer

Answer(c, u) ==
  /\ answer[c] = Idle
  /\ \E r \in known[u] : answer' = [answer EXCEPT ![c] = [url |-> u, result |-> r]]
  /\ UNCHANGED known

Fail(c) ==
  /\ answer[c] = Idle
  /\ answer' = [answer EXCEPT ![c] = Failed]
  /\ UNCHANGED known

(* Callers take their answers, or go away (a process crash) without.       *)
Take(C) ==
  /\ answer' = [c \in Callers |-> IF c \in C THEN Idle ELSE answer[c]]
  /\ UNCHANGED known

CacheNext ==
  \/ \E u \in Urls, r \in Results : Obtain(u, r)
  \/ \E c \in Callers, u \in Urls : Answer(c, u)
  \/ \E c \in Callers : Fail(c)
  \/ \E C \in SUBSET Callers : Take(C)

CacheSpec == CacheInit /\ [][CacheNext]_cacheVars

==============================================================================
