-------------------------- MODULE FcgiRequestProofs ---------------------------
(***************************************************************************)
(* Proofs about FcgiRequest, for any connections, any requests on them and *)
(* any choice of FCGI_KEEP_CONN.                                           *)
(***************************************************************************)
EXTENDS FcgiRequest, TLAPS

(* What the runs' properties need to be inductive.                          *)

End == [request : Nat, status : Statuses \cup {0}]
Domains ==
    /\ drains \in BOOLEAN
    /\ sent \in [Conns -> Nat] /\ got \in [Conns -> Nat] /\ used \in [Conns -> Nat]
    /\ ended \in [Conns -> Seq(End)]

\* The web server waits for an answer before it goes on; the request that
\* was answered last has been begun.
Exchange ==
    \A c \in Conns :
        /\ sent[c] <= 4 * Len(ended[c]) + 4
        /\ 4 * Len(ended[c]) <= used[c] + 3

\* The connections.
Connected ==
    /\ \A c \in Conns : web[c] \in {"new", "waiting"} => c \notin closed /\ got[c] = 0
    /\ ipcFd # None => web[ipcFd] \in {"open", "cut"}

\* Where FCGX_Accept_r is, and which of the streams there are.
Streams ==
    /\ pc = "fill" => in \in {"begin", "params"}
    /\ pc = "serving" => in = "stdin"
    /\ pc \in {"idle", "accept", "stopped"} => in = "none"
    /\ pc # "serving" => nWriters = 0 /\ ~inError /\ ~outError
    /\ pc = "serving" /\ (inError \/ outError) => web[ipcFd] = "cut"

\* The request that is being served: begun, and answered once the last of its
\* writers is closed, unless the connection is broken.
Begun == in \in {"params", "stdin"}
Current ==
    /\ Begun => /\ cur \in 1 .. Len(Keeps[ipcFd])
                /\ 4 * cur <= used[ipcFd] + 3
                /\ keepConnection = Keeps[ipcFd][cur]
    /\ in = "params" \/ nWriters > 0 => cur = Len(ended[ipcFd]) + 1
    /\ pc = "serving" /\ nWriters = 0 => cur = Len(ended[ipcFd]) \/ web[ipcFd] = "cut"

\* An application that reads all its input leaves a connection that is kept
\* between two requests.
Drained ==
    drains =>
        /\ in \in {"none", "begin"} /\ ipcFd # None => used[ipcFd] % 4 = 0
        /\ pc = "serving" /\ ~inClosed => nWriters > 0
        /\ pc = "serving" /\ inClosed /\ ~inError =>
              used[ipcFd] = 4 * cur /\ got[ipcFd] = 4 * cur

RequestIInv ==
    /\ Domains /\ TypeOK /\ OneConnection /\ EndedOnce
    /\ Exchange /\ Connected /\ Streams /\ Current /\ Drained
------------------------------------------------------------------------------
(* The records of a connection.                                            *)

LEMMA Records ==
  ASSUME NEW i \in Nat \ {0}
  PROVE  /\ RequestOf(i) \in Nat \ {0}
         /\ 4 * RequestOf(i) - 3 <= i /\ i <= 4 * RequestOf(i)
         /\ KindOf(i) = "BEGIN" <=> i = 4 * RequestOf(i) - 3
         /\ KindOf(i) = "BEGIN" <=> (i - 1) % 4 = 0
         /\ KindOf(i) = "EOF" <=> i = 4 * RequestOf(i)
  <1> DEFINE q == (i - 1) \div 4
             r == (i - 1) % 4
  <1>1. q \in Nat /\ r \in 0 .. 3 /\ i - 1 = 4 * q + r
    OBVIOUS
  <1>2. RequestOf(i) = q + 1 /\ KindOf(i) = Kinds[r + 1]
    BY DEF RequestOf, KindOf
  <1>3. /\ Kinds[1] = "BEGIN" /\ Kinds[2] = "PARAMS" /\ Kinds[3] = "STDIN" /\ Kinds[4] = "EOF"
    BY DEF Kinds
  <1> HIDE DEF q, r
  <1>4. /\ Kinds[r + 1] = "BEGIN" <=> r = 0
        /\ Kinds[r + 1] = "EOF" <=> r = 3
    <2>1. r = 0 \/ r = 1 \/ r = 2 \/ r = 3
      BY <1>1
    <2> QED BY <1>3, <2>1
  <1>5. (i - 1) % 4 = r
    BY DEF r
  <1> QED BY <1>1, <1>2, <1>4, <1>5

LEMMA Requests ==
  ASSUME NEW c \in Conns
  PROVE  Len(Keeps[c]) \in Nat /\ Total(c) \in Nat /\ Total(c) = 4 * Len(Keeps[c])
         /\ \A r \in 1 .. Len(Keeps[c]) : Keeps[c][r] \in BOOLEAN
  BY SettingAssumption DEF Total

\* What was ended stays ended once.
LEMMA EndedKept ==
  ASSUME RequestIInv, ended' = ended, got' \in [Conns -> Nat],
         \A c \in Conns : got[c] <= got'[c]
  PROVE  EndedOnce'
  <1>1. SUFFICES ASSUME NEW c \in Conns, NEW k \in DOMAIN ended[c]
                 PROVE  ended[c][k].request = k /\ 4 * k - 3 <= got'[c]
    BY DEF EndedOnce
  <1>2. ended[c][k].request = k /\ 4 * k - 3 <= got[c] /\ ended[c] \in Seq(End) /\ got[c] \in Nat
    BY DEF RequestIInv, EndedOnce, Domains
  <1>3. k \in Nat /\ got'[c] \in Nat /\ got[c] <= got'[c]
    BY <1>2
  <1> QED BY <1>2, <1>3
------------------------------------------------------------------------------
(* The web server.                                                         *)

LEMMA WebServerStep ==
  ASSUME RequestIInv, NEW c \in Conns, Connect(c) \/ Send(c) \/ Cut(c)
  PROVE  RequestIInv'
  <1>1. /\ Domains /\ TypeOK /\ OneConnection /\ Exchange /\ Connected /\ Streams /\ Current
        /\ Drained
    BY DEF RequestIInv
  <1>2. UNCHANGED <<drains, closed, got, used, ended, request, streams, cur, shutdownPending, pc>>
    BY DEF Connect, Send, Cut
  <1>3. /\ web' \in [Conns -> {"new", "waiting", "open", "cut"}]
        /\ \A d \in Conns : web'[d] \in {"new", "waiting"} <=> web[d] \in {"new", "waiting"}
        /\ \A d \in Conns : web[d] = "cut" => web'[d] = "cut"
        /\ \A d \in Conns : web'[d] \in {"open", "cut"} <=> web[d] \in {"open", "cut"}
    BY <1>1 DEF TypeOK, Connect, Send, Cut
  <1>4. /\ sent' \in [Conns -> Nat]
        /\ \A d \in Conns : sent'[d] <= Total(d) /\ sent'[d] <= 4 * Len(ended[d]) + 4
        /\ \A d \in Conns : sent[d] <= sent'[d]
    <2>1. CASE sent' = sent
      BY <1>1, <2>1 DEF TypeOK, Domains, Exchange
    <2>2. CASE Send(c)
      <3>1. /\ sent[c] \in Nat /\ sent' = [sent EXCEPT ![c] = sent[c] + 1]
            /\ sent[c] < Total(c) /\ RequestOf(sent[c] + 1) <= Len(ended[c]) + 1
        BY <1>1, <2>2 DEF Domains, Send
      <3>2. sent[c] + 1 <= 4 * RequestOf(sent[c] + 1) /\ RequestOf(sent[c] + 1) \in Nat
        <4>1. sent[c] + 1 \in Nat \ {0}
          BY <3>1
        <4> QED BY <4>1, Records
      <3>3. ended[c] \in Seq(End) /\ Len(ended[c]) \in Nat /\ Total(c) \in Nat
        BY <1>1, Requests DEF Domains
      <3>4. sent[c] + 1 <= 4 * Len(ended[c]) + 4 /\ sent[c] + 1 <= Total(c)
        BY <3>1, <3>2, <3>3
      <3>5. \A d \in Conns : sent'[d] = IF d = c THEN sent[c] + 1 ELSE sent[d]
        BY <1>1, <3>1 DEF Domains
      <3>6. /\ \A d \in Conns : sent'[d] <= Total(d)
            /\ \A d \in Conns : sent'[d] <= 4 * Len(ended[d]) + 4
        BY <1>1, <3>4, <3>5 DEF TypeOK, Exchange
      <3>7. sent' \in [Conns -> Nat] /\ \A d \in Conns : sent[d] <= sent'[d]
        BY <1>1, <3>1, <3>5 DEF Domains
      <3> QED BY <3>6, <3>7
    <2> QED BY <2>1, <2>2 DEF Connect, Cut
  <1>5. Domains'
    BY <1>1, <1>2, <1>4 DEF Domains
  <1>6. TypeOK'
    <2>1. \A d \in Conns : /\ 0 <= used'[d] /\ used'[d] <= got'[d]
                           /\ got'[d] <= sent'[d] /\ sent'[d] <= Total(d)
      BY <1>1, <1>2, <1>4 DEF TypeOK, Domains
    <2> QED BY <1>1, <1>2, <1>3, <2>1 DEF TypeOK, request, streams
  <1>7. OneConnection' /\ Connected'
    BY <1>1, <1>2, <1>3, SettingAssumption DEF TypeOK, OneConnection, Connected, request
  <1>8. EndedOnce'
    BY <1>1, <1>2, EndedKept DEF Domains
  <1>9. Exchange'
    BY <1>1, <1>2, <1>4 DEF Exchange
  <1>10. Streams' /\ Current' /\ Drained'
    <2>1. Streams'
      BY <1>1, <1>2, <1>3 DEF Streams, OneConnection, TypeOK, request, streams
    <2>2. Current'
      BY <1>1, <1>2, <1>3 DEF Current, Begun, OneConnection, TypeOK, request, streams
    <2>3. Drained'
      BY <1>1, <1>2 DEF Drained, request, streams
    <2> QED BY <2>1, <2>2, <2>3
  <1> QED BY <1>5, <1>6, <1>7, <1>8, <1>9, <1>10 DEF RequestIInv

\* The rest of the state.
LEMMA SettingStep ==
  ASSUME RequestIInv,
         ShutdownPending \/ (\E s \in Statuses : SetExitStatus(s)) \/ UNCHANGED vars
  PROVE  RequestIInv'
  <1>1. /\ Domains /\ TypeOK /\ OneConnection /\ Exchange /\ Connected /\ Streams /\ Current
        /\ Drained
    BY DEF RequestIInv
  <1>2. UNCHANGED <<drains, wire, ipcFd, requestId, keepConnection, nWriters, streams, cur, pc>>
    BY DEF ShutdownPending, SetExitStatus, vars, request
  <1>3. shutdownPending' \in BOOLEAN /\ appStatus' \in Statuses \cup {0}
    BY <1>1 DEF ShutdownPending, SetExitStatus, vars, request, TypeOK
  <1>4. Domains' /\ Exchange'
    BY <1>1, <1>2 DEF Domains, Exchange, wire
  <1>5. TypeOK'
    BY <1>1, <1>2, <1>3 DEF TypeOK, wire, streams
  <1>6. OneConnection' /\ Connected' /\ EndedOnce'
    BY <1>1, <1>2, EndedKept DEF OneConnection, Connected, Domains, wire
  <1>7. Streams' /\ Drained'
    BY <1>1, <1>2 DEF Streams, Drained, wire, streams
  <1>8. Current'
    BY <1>1, <1>2 DEF Current, Begun, wire, streams
  <1> QED BY <1>4, <1>5, <1>6, <1>7, <1>8 DEF RequestIInv
------------------------------------------------------------------------------
(* FCGX_Accept_r.                                                          *)

LEMMA Accept_rStep ==
  ASSUME RequestIInv, Accept_r
  PROVE  RequestIInv'
  <1>1. /\ Domains /\ TypeOK /\ OneConnection /\ Exchange /\ Connected /\ Streams /\ Current
        /\ Drained /\ pc = "idle"
    BY DEF RequestIInv, Accept_r
  <1>2. UNCHANGED <<drains, wire, request, outError, cur, shutdownPending>>
    BY DEF Accept_r
  <1>3. in = "none" /\ nWriters = 0 /\ ~inError /\ ~outError
    BY <1>1 DEF Streams
  <1>4. \/ ipcFd = None /\ pc' = "accept" /\ UNCHANGED <<in, inError, inClosed>>
        \/ ipcFd # None /\ pc' = "fill" /\ in' = "begin" /\ inError' = FALSE /\ inClosed' = FALSE
    BY DEF Accept_r
  <1>5. Domains' /\ Exchange'
    BY <1>1, <1>2 DEF Domains, Exchange, wire
  <1>6. TypeOK'
    BY <1>1, <1>2, <1>4 DEF TypeOK, wire, request
  <1>7. OneConnection' /\ Connected' /\ EndedOnce'
    BY <1>1, <1>2, <1>4, EndedKept DEF OneConnection, Connected, Domains, wire, request
  <1>8. Streams' /\ Current'
    BY <1>1, <1>2, <1>3, <1>4 DEF Streams, Current, Begun, wire, request
  <1>9. Drained'
    BY <1>1, <1>2, <1>3, <1>4 DEF Drained, wire, request
  <1> QED BY <1>5, <1>6, <1>7, <1>8, <1>9 DEF RequestIInv

LEMMA OsAcceptStep ==
  ASSUME RequestIInv, OsAccept
  PROVE  RequestIInv'
  <1>1. /\ Domains /\ TypeOK /\ OneConnection /\ Exchange /\ Connected /\ Streams /\ Current
        /\ Drained /\ pc = "accept"
    BY DEF RequestIInv, OsAccept
  <1>2. UNCHANGED <<drains, closed, sent, got, used, ended, requestId, keepConnection, appStatus,
                    nWriters, outError, cur, shutdownPending>>
    BY DEF OsAccept
  <1>3. ipcFd = None /\ in = "none" /\ nWriters = 0 /\ ~inError /\ ~outError
    BY <1>1 DEF Streams, OneConnection
  <1>4. Domains' /\ Exchange'
    BY <1>1, <1>2 DEF Domains, Exchange, OsAccept
  <1>5. EndedOnce'
    BY <1>1, <1>2, EndedKept DEF Domains
  <1>6. CASE shutdownPending
    <2>1. pc' = "stopped" /\ UNCHANGED <<web, ipcFd, in, inError, inClosed>>
      BY <1>6 DEF OsAccept
    <2>2. TypeOK' /\ OneConnection' /\ Connected'
      BY <1>1, <1>2, <1>3, <2>1 DEF TypeOK, OneConnection, Connected
    <2>3. Streams' /\ Current' /\ Drained'
      BY <1>1, <1>2, <1>3, <2>1 DEF Streams, Current, Begun, Drained
    <2> QED BY <1>4, <1>5, <2>2, <2>3 DEF RequestIInv
  <1>7. CASE ~shutdownPending
    <2>1. PICK c \in Conns :
            /\ web[c] = "waiting" /\ web' = [web EXCEPT ![c] = "open"]
            /\ ipcFd' = c /\ pc' = "fill" /\ in' = "begin" /\ inError' = FALSE /\ inClosed' = FALSE
      BY <1>7 DEF OsAccept
    <2>2. /\ web' \in [Conns -> {"new", "waiting", "open", "cut"}]
          /\ \A d \in Conns : web'[d] = IF d = c THEN "open" ELSE web[d]
          /\ c # None /\ c \notin closed /\ used[c] = 0
      <3>1. got[c] = 0 /\ used[c] \in Nat /\ used[c] <= got[c]
        BY <1>1, <2>1 DEF Domains, TypeOK, Connected
      <3> QED BY <1>1, <2>1, <3>1, SettingAssumption DEF TypeOK, Connected
    <2>3. TypeOK'
      BY <1>1, <1>2, <2>1, <2>2 DEF TypeOK
    <2>4. OneConnection' /\ Connected'
      <3>1. \A d \in Conns : web'[d] \in {"open", "cut"} => (d \in closed' <=> d # ipcFd')
        <4> SUFFICES ASSUME NEW d \in Conns, web'[d] \in {"open", "cut"}
                     PROVE  d \in closed' <=> d # ipcFd'
          OBVIOUS
        <4>1. CASE d = c
          BY <1>2, <2>1, <2>2, <4>1
        <4>2. CASE d # c
          <5>1. web[d] \in {"open", "cut"} /\ d # None
            BY <2>2, <4>2, SettingAssumption
          <5>2. d \in closed
            BY <1>1, <1>3, <5>1 DEF OneConnection
          <5> QED BY <1>2, <2>1, <4>2, <5>2
        <4> QED BY <4>1, <4>2
      <3>2. \A d \in Conns : web'[d] \in {"new", "waiting"} => d \notin closed' /\ got'[d] = 0
        BY <1>1, <1>2, <2>2 DEF Connected
      <3> QED BY <2>1, <2>2, <3>1, <3>2 DEF OneConnection, Connected
    <2>5. Streams' /\ Current'
      BY <1>1, <1>2, <1>3, <2>1 DEF Streams, Current, Begun
    <2>6. Drained'
      <3>1. used'[ipcFd'] % 4 = 0
        BY <1>2, <2>1, <2>2
      <3> QED BY <2>1, <3>1 DEF Drained
    <2> QED BY <1>4, <1>5, <2>3, <2>4, <2>5, <2>6 DEF RequestIInv
  <1> QED BY <1>6, <1>7

\* OS_Read, for FCGX_Accept_r or for the application.
LEMMA ReadStep ==
  ASSUME RequestIInv, OsRead \/ ReadMore
  PROVE  RequestIInv'
  <1>1. /\ Domains /\ TypeOK /\ OneConnection /\ Exchange /\ Connected /\ Streams /\ Current
        /\ Drained /\ pc \in {"fill", "serving"} /\ (pc = "serving" => ~inClosed)
    BY DEF RequestIInv, OsRead, ReadMore, Serving
  <1>2. UNCHANGED <<drains, web, closed, sent, used, ended, request, streams, cur, shutdownPending, pc>>
    BY DEF OsRead, ReadMore
  <1>3. ipcFd \in Conns /\ web[ipcFd] \in {"open", "cut"}
    BY <1>1 DEF OneConnection, Connected, TypeOK
  <1>4. PICK n \in got[ipcFd] + 1 .. sent[ipcFd] : got' = [got EXCEPT ![ipcFd] = n]
    BY DEF OsRead, ReadMore
  <1>5. /\ got' \in [Conns -> Nat] /\ \A c \in Conns : got[c] <= got'[c] /\ got'[c] <= sent[c]
        /\ \A c \in Conns : c # ipcFd => got'[c] = got[c]
    <2>1. got[ipcFd] \in Nat /\ sent[ipcFd] \in Nat
      BY <1>1, <1>3 DEF Domains
    <2>2. n \in Nat /\ got[ipcFd] <= n /\ n <= sent[ipcFd]
      BY <2>1
    <2> QED BY <1>1, <1>3, <1>4, <2>2 DEF Domains, TypeOK
  <1>6. Domains' /\ Exchange'
    BY <1>1, <1>2, <1>5 DEF Domains, Exchange
  <1>7. TypeOK'
    <2>1. \A c \in Conns : /\ 0 <= used'[c] /\ used'[c] <= got'[c]
                           /\ got'[c] <= sent'[c] /\ sent'[c] <= Total(c)
      BY <1>1, <1>2, <1>5 DEF TypeOK, Domains
    <2> QED BY <1>1, <1>2, <2>1 DEF TypeOK, request, streams
  <1>8. OneConnection' /\ Connected' /\ EndedOnce'
    BY <1>1, <1>2, <1>3, <1>5, EndedKept DEF OneConnection, Connected, request
  <1>9. Streams' /\ Current'
    BY <1>1, <1>2 DEF Streams, Current, Begun, request, streams
  <1>10. Drained'
    BY <1>1, <1>2 DEF Drained, request, streams
  <1> QED BY <1>6, <1>7, <1>8, <1>9, <1>10 DEF RequestIInv

\* The record that is taken apart next.
LEMMA NextRecord ==
  ASSUME RequestIInv, ipcFd \in Conns, used[ipcFd] < got[ipcFd], Use
  PROVE  /\ used' \in [Conns -> Nat] /\ used'[ipcFd] = used[ipcFd] + 1 /\ used[ipcFd] \in Nat
         /\ \A c \in Conns : used[c] <= used'[c] /\ used'[c] <= got[c]
         /\ \A c \in Conns : c # ipcFd => used'[c] = used[c]
         /\ used[ipcFd] + 1 <= 4 * Len(ended[ipcFd]) + 4 /\ used[ipcFd] + 1 <= Total(ipcFd)
         /\ got[ipcFd] <= 4 * Len(ended[ipcFd]) + 4
         /\ 4 * Len(ended[ipcFd]) <= used[ipcFd] + 3
         /\ Len(ended[ipcFd]) \in Nat
  <1>1. Domains /\ TypeOK /\ Exchange
    BY DEF RequestIInv
  <1>2. /\ used[ipcFd] \in Nat /\ got[ipcFd] \in Nat /\ sent[ipcFd] \in Nat
        /\ got[ipcFd] <= sent[ipcFd] /\ sent[ipcFd] <= Total(ipcFd) /\ Total(ipcFd) \in Nat
        /\ Len(ended[ipcFd]) \in Nat
        /\ sent[ipcFd] <= 4 * Len(ended[ipcFd]) + 4 /\ 4 * Len(ended[ipcFd]) <= used[ipcFd] + 3
    BY <1>1, Requests DEF Domains, TypeOK, Exchange
  <1>3. \A c \in Conns : used'[c] = IF c = ipcFd THEN used[ipcFd] + 1 ELSE used[c]
    BY <1>1 DEF Use, Domains
  <1>4. used' \in [Conns -> Nat]
    BY <1>1, <1>2 DEF Use, Domains
  <1>5. \A c \in Conns : used[c] <= used'[c] /\ used'[c] <= got[c]
    <2> SUFFICES ASSUME NEW c \in Conns PROVE used[c] <= used'[c] /\ used'[c] <= got[c]
      OBVIOUS
    <2>1. used[c] \in Nat /\ got[c] \in Nat /\ used[c] <= got[c]
      BY <1>1 DEF Domains, TypeOK
    <2>2. used[ipcFd] + 1 <= got[ipcFd]
      BY <1>2
    <2> QED BY <1>2, <1>3, <2>1, <2>2
  <1> QED BY <1>2, <1>3, <1>4, <1>5

LEMMA BeginStep ==
  ASSUME RequestIInv, Begin
  PROVE  RequestIInv'
  <1>1. /\ Domains /\ TypeOK /\ OneConnection /\ Exchange /\ Connected /\ Streams /\ Current
        /\ pc = "fill" /\ in = "begin" /\ ipcFd \in Conns /\ used[ipcFd] < got[ipcFd] /\ Use
    BY DEF RequestIInv, Begin, NextIs, OneConnection, TypeOK
  <1>2. UNCHANGED <<drains, web, closed, sent, got, ended, ipcFd, appStatus, nWriters, inError,
                    inClosed, outError, shutdownPending, pc>>
    BY DEF Begin
  <1>3. /\ used' \in [Conns -> Nat] /\ used'[ipcFd] = used[ipcFd] + 1 /\ used[ipcFd] \in Nat
        /\ \A c \in Conns : used[c] <= used'[c] /\ used'[c] <= got[c]
        /\ used[ipcFd] + 1 <= 4 * Len(ended[ipcFd]) + 4 /\ used[ipcFd] + 1 <= Total(ipcFd)
        /\ 4 * Len(ended[ipcFd]) <= used[ipcFd] + 3 /\ Len(ended[ipcFd]) \in Nat
    BY <1>1, NextRecord
  <1>4. /\ KindOf(used[ipcFd] + 1) = "BEGIN" /\ cur' = RequestOf(used[ipcFd] + 1)
        /\ keepConnection' = Keeps[ipcFd][cur'] /\ requestId' = 1 /\ in' = "params"
    BY DEF Begin, NextIs
  <1>5. /\ cur' \in 1 .. Len(Keeps[ipcFd]) /\ cur' = Len(ended[ipcFd]) + 1
        /\ 4 * cur' <= used'[ipcFd] + 3
    <2>1. used[ipcFd] + 1 \in Nat \ {0}
      BY <1>3
    <2>2. used[ipcFd] + 1 = 4 * cur' - 3 /\ cur' \in Nat \ {0}
      BY <1>4, <2>1, Records
    <2>3. Total(ipcFd) = 4 * Len(Keeps[ipcFd]) /\ Len(Keeps[ipcFd]) \in Nat
      BY <1>1, Requests
    <2> DEFINE u == used[ipcFd]
               answered == Len(ended[ipcFd])
               all == Len(Keeps[ipcFd])
               n == cur'
    <2>4. /\ u \in Nat /\ answered \in Nat /\ all \in Nat /\ n \in Nat \ {0} /\ u + 1 = 4 * n - 3
          /\ u + 1 <= 4 * answered + 4 /\ u + 1 <= 4 * all /\ 4 * answered <= u + 3
      BY <1>3, <2>2, <2>3
    <2>5. used'[ipcFd] = u + 1
      BY <1>3
    <2> HIDE DEF u, answered, all, n
    <2>6. n = answered + 1 /\ n \in 1 .. all /\ 4 * n <= u + 1 + 3
      BY <2>4
    <2> QED BY <2>5, <2>6 DEF answered, all, n
  <1>6. keepConnection' \in BOOLEAN
    BY <1>1, <1>4, <1>5, Requests
  <1>7. Domains' /\ EndedOnce'
    BY <1>1, <1>2, <1>3, EndedKept DEF Domains
  <1>8. TypeOK'
    <2>1. \A c \in Conns : /\ 0 <= used'[c] /\ used'[c] <= got'[c]
                           /\ got'[c] <= sent'[c] /\ sent'[c] <= Total(c)
      BY <1>1, <1>2, <1>3 DEF TypeOK, Domains
    <2> QED BY <1>1, <1>2, <1>4, <1>5, <1>6, <2>1 DEF TypeOK
  <1>9. Exchange'
    <2> SUFFICES ASSUME NEW c \in Conns PROVE 4 * Len(ended[c]) <= used'[c] + 3
      BY <1>1, <1>2 DEF Exchange
    <2>1. /\ 4 * Len(ended[c]) <= used[c] + 3 /\ used[c] <= used'[c]
          /\ used[c] \in Nat /\ used'[c] \in Nat /\ ended[c] \in Seq(End)
      BY <1>1, <1>3 DEF Exchange, Domains
    <2> QED BY <2>1
  <1>10. OneConnection' /\ Connected'
    BY <1>1, <1>2 DEF OneConnection, Connected
  <1>11. Streams' /\ Current' /\ Drained'
    <2>1. Streams' /\ Drained'
      BY <1>1, <1>2, <1>4 DEF Streams, Drained
    <2>2. Current'
      BY <1>1, <1>2, <1>4, <1>5 DEF Streams, Current, Begun
    <2> QED BY <2>1, <2>2
  <1> QED BY <1>7, <1>8, <1>9, <1>10, <1>11 DEF RequestIInv

LEMMA EnvironmentStep ==
  ASSUME RequestIInv, Environment
  PROVE  RequestIInv'
  <1>1. /\ Domains /\ TypeOK /\ OneConnection /\ Exchange /\ Connected /\ Streams /\ Current
        /\ pc = "fill" /\ in = "params" /\ ipcFd \in Conns /\ used[ipcFd] < got[ipcFd] /\ Use
    BY DEF RequestIInv, Environment, NextIs, OneConnection, TypeOK
  <1>2. UNCHANGED <<drains, web, closed, sent, got, ended, ipcFd, requestId, keepConnection,
                    appStatus, cur, shutdownPending>>
    BY DEF Environment
  <1>3. /\ used' \in [Conns -> Nat] /\ used'[ipcFd] = used[ipcFd] + 1 /\ used[ipcFd] \in Nat
        /\ \A c \in Conns : used[c] <= used'[c] /\ used'[c] <= got[c]
    BY <1>1, NextRecord
  <1>4. /\ in' = "stdin" /\ inError' = FALSE /\ inClosed' = FALSE /\ outError' = FALSE
        /\ nWriters' = 2 /\ pc' = "serving"
    BY DEF Environment, Accepted
  <1>5. Domains' /\ EndedOnce'
    BY <1>1, <1>2, <1>3, EndedKept DEF Domains
  <1>6. TypeOK'
    <2>1. \A c \in Conns : /\ 0 <= used'[c] /\ used'[c] <= got'[c]
                           /\ got'[c] <= sent'[c] /\ sent'[c] <= Total(c)
      BY <1>1, <1>2, <1>3 DEF TypeOK, Domains
    <2>2. /\ {inError', inClosed', outError', shutdownPending'} \subseteq BOOLEAN
          /\ nWriters' \in 0 .. 2 /\ in' \in {"none", "begin", "params", "stdin"}
          /\ pc' \in {"idle", "accept", "fill", "serving", "stopped"}
      <3>1. shutdownPending' = shutdownPending /\ shutdownPending \in BOOLEAN
        BY <1>1, <1>2 DEF TypeOK
      <3>2. inError' \in BOOLEAN /\ inClosed' \in BOOLEAN /\ outError' \in BOOLEAN
        BY <1>4
      <3> QED BY <1>1, <1>2, <1>4, <3>1, <3>2 DEF TypeOK
    <2> QED BY <1>1, <1>2, <2>1, <2>2 DEF TypeOK
  <1>7. Exchange'
    <2> SUFFICES ASSUME NEW c \in Conns PROVE 4 * Len(ended[c]) <= used'[c] + 3
      BY <1>1, <1>2 DEF Exchange
    <2>1. /\ 4 * Len(ended[c]) <= used[c] + 3 /\ used[c] <= used'[c]
          /\ used[c] \in Nat /\ used'[c] \in Nat /\ ended[c] \in Seq(End)
      BY <1>1, <1>3 DEF Exchange, Domains
    <2> QED BY <2>1
  <1>8. OneConnection' /\ Connected'
    BY <1>1, <1>2, <1>4 DEF OneConnection, Connected
  <1>9. Streams' /\ Drained'
    BY <1>1, <1>2, <1>4 DEF Streams, Drained
  <1>10. Current'
    <2>1. 4 * cur <= used'[ipcFd] + 3
      <3>1. 4 * cur <= used[ipcFd] + 3 /\ cur \in Nat
        BY <1>1 DEF Current, Begun, TypeOK
      <3> QED BY <1>3, <3>1
    <2> QED BY <1>1, <1>2, <1>4, <2>1 DEF Current, Begun
  <1> QED BY <1>5, <1>6, <1>7, <1>8, <1>9, <1>10 DEF RequestIInv

\* FCGX_Free with the connection; nothing is being served any more.
Given_up(label) ==
    /\ Free(TRUE) /\ nWriters' = 0 /\ pc' = label /\ label \in {"accept", "idle"}
    /\ UNCHANGED <<drains, web, sent, got, requestId, keepConnection, appStatus, cur, shutdownPending>>

\* What FCGX_Free leaves of the records.
LEMMA FreeFacts ==
  ASSUME RequestIInv, ipcFd \in Conns, NEW close \in BOOLEAN, Free(close)
  PROVE  /\ used' \in [Conns -> Nat] /\ used'[ipcFd] = got[ipcFd]
         /\ \A c \in Conns : used[c] <= used'[c] /\ used'[c] <= got[c]
         /\ \A c \in Conns : c # ipcFd => used'[c] = used[c]
         /\ closed' = (IF close THEN closed \cup {ipcFd} ELSE closed)
         /\ ipcFd' = (IF close THEN None ELSE ipcFd)
         /\ in' = "none" /\ inError' = FALSE /\ inClosed' = FALSE /\ outError' = FALSE
  <1>1. Domains /\ TypeOK /\ ipcFd # None
    BY SettingAssumption DEF RequestIInv
  <1>2. /\ used' = [used EXCEPT ![ipcFd] = got[ipcFd]]
        /\ closed' = (IF close THEN closed \cup {ipcFd} ELSE closed)
        /\ ipcFd' = (IF close THEN None ELSE ipcFd)
        /\ in' = "none" /\ inError' = FALSE /\ inClosed' = FALSE /\ outError' = FALSE
    BY <1>1 DEF Free
  <1>3. \A c \in Conns : used'[c] = IF c = ipcFd THEN got[c] ELSE used[c]
    BY <1>1, <1>2 DEF Domains
  <1>4. \A c \in Conns : used[c] \in Nat /\ got[c] \in Nat /\ used[c] <= got[c]
    BY <1>1 DEF Domains, TypeOK
  <1>5. used' \in [Conns -> Nat]
    BY <1>1, <1>2, <1>4 DEF Domains
  <1>6. \A c \in Conns : used[c] <= used'[c] /\ used'[c] <= got[c]
    BY <1>3, <1>4
  <1> QED BY <1>2, <1>3, <1>5, <1>6

LEMMA Given_upStep ==
  ASSUME RequestIInv, ipcFd \in Conns,
         Given_up("accept") \/ Given_up("idle"),
         Domains', EndedOnce', Exchange',
         \A c \in Conns : \A k \in DOMAIN ended'[c] :
            ended'[c][k] \in [request : 1 .. Len(Keeps[c]), status : Statuses \cup {0}]
  PROVE  RequestIInv'
  <1>1. /\ Domains /\ TypeOK /\ OneConnection /\ Connected
    BY DEF RequestIInv
  <1>2. /\ Free(TRUE) /\ nWriters' = 0 /\ pc' \in {"accept", "idle"}
        /\ UNCHANGED <<drains, web, sent, got, requestId, keepConnection, appStatus, cur,
                       shutdownPending>>
    BY DEF Given_up
  <1>3. /\ used' \in [Conns -> Nat] /\ \A c \in Conns : used[c] <= used'[c] /\ used'[c] <= got[c]
        /\ closed' = closed \cup {ipcFd} /\ ipcFd' = None /\ in' = "none"
        /\ inError' = FALSE /\ inClosed' = FALSE /\ outError' = FALSE
    BY <1>2, FreeFacts
  <1>4. TypeOK'
    <2>1. \A c \in Conns : /\ 0 <= used'[c] /\ used'[c] <= got'[c]
                           /\ got'[c] <= sent'[c] /\ sent'[c] <= Total(c)
      BY <1>1, <1>2, <1>3 DEF TypeOK, Domains
    <2>2. closed' \subseteq Conns
      BY <1>1, <1>3 DEF TypeOK
    <2>3. /\ {inError', inClosed', outError', shutdownPending'} \subseteq BOOLEAN
          /\ nWriters' \in 0 .. 2 /\ in' \in {"none", "begin", "params", "stdin"}
          /\ pc' \in {"idle", "accept", "fill", "serving", "stopped"}
          /\ ipcFd' \in Conns \cup {None}
      <3>1. shutdownPending' = shutdownPending /\ shutdownPending \in BOOLEAN
        BY <1>1, <1>2 DEF TypeOK
      <3>2. inError' \in BOOLEAN /\ inClosed' \in BOOLEAN /\ outError' \in BOOLEAN
        BY <1>3
      <3> QED BY <1>1, <1>2, <1>3, <3>1, <3>2 DEF TypeOK
    <2> QED BY <1>1, <1>2, <2>1, <2>2, <2>3 DEF TypeOK
  <1>5. OneConnection' /\ Connected'
    <2>1. web[ipcFd] \in {"open", "cut"} /\ None \notin Conns
      BY <1>1, SettingAssumption DEF Connected
    <2>2. \A c \in Conns : web'[c] \in {"open", "cut"} => (c \in closed' <=> c # ipcFd')
      BY <1>1, <1>2, <1>3, <2>1 DEF OneConnection
    <2>3. \A c \in Conns : web'[c] \in {"new", "waiting"} => c \notin closed' /\ got'[c] = 0
      BY <1>1, <1>2, <1>3, <2>1 DEF Connected
    <2> QED BY <1>2, <1>3, <2>2, <2>3 DEF OneConnection, Connected
  <1>6. Streams' /\ Current' /\ Drained'
    BY <1>2, <1>3 DEF Streams, Current, Begun, Drained
  <1> QED BY <1>4, <1>5, <1>6 DEF RequestIInv

LEMMA ExchangeKept ==
  ASSUME RequestIInv, UNCHANGED <<sent, ended>>, used' \in [Conns -> Nat],
         \A c \in Conns : used[c] <= used'[c]
  PROVE  Exchange'
  <1> SUFFICES ASSUME NEW c \in Conns PROVE 4 * Len(ended[c]) <= used'[c] + 3
    BY DEF RequestIInv, Exchange
  <1>1. /\ 4 * Len(ended[c]) <= used[c] + 3 /\ used[c] <= used'[c]
        /\ used[c] \in Nat /\ used'[c] \in Nat /\ ended[c] \in Seq(End)
    BY DEF RequestIInv, Exchange, Domains
  <1> QED BY <1>1

LEMMA BreakStep ==
  ASSUME RequestIInv, BeginMissing \/ (AcceptCut /\ Free(TRUE) /\ pc' = "accept" /\ UNCHANGED nWriters)
  PROVE  RequestIInv'
  <1>1. /\ Domains /\ TypeOK /\ OneConnection /\ Streams
        /\ pc = "fill" /\ ipcFd \in Conns /\ nWriters = 0
    BY DEF RequestIInv, OneConnection, TypeOK, Streams, BeginMissing, AcceptCut
  <1>2. UNCHANGED <<drains, web, sent, got, ended, requestId, keepConnection, appStatus, cur,
                    shutdownPending>> /\ Given_up("accept")
    BY <1>1 DEF BeginMissing, AcceptCut, Given_up
  <1>3. used' \in [Conns -> Nat] /\ \A c \in Conns : used[c] <= used'[c]
    BY <1>1, <1>2, FreeFacts DEF Given_up
  <1>4. Domains' /\ Exchange' /\ EndedOnce'
    BY <1>1, <1>2, <1>3, ExchangeKept, EndedKept DEF Domains
  <1> QED BY <1>1, <1>2, <1>4, Given_upStep DEF TypeOK

\* The connection is cut between two pairs of the environment.
LEMMA AcceptCutStep ==
  ASSUME RequestIInv, AcceptCut
  PROVE  RequestIInv'
  <1>1. CASE Free(TRUE) /\ pc' = "accept" /\ UNCHANGED nWriters
    BY <1>1, BreakStep
  <1>2. CASE in = "params" /\ Accepted(TRUE) /\ UNCHANGED <<used, closed, ipcFd>>
    <2>1. /\ Domains /\ TypeOK /\ OneConnection /\ Exchange /\ Connected /\ Streams /\ Current
          /\ pc = "fill" /\ web[ipcFd] = "cut"
      BY DEF RequestIInv, AcceptCut, AtCut
    <2>2. UNCHANGED <<drains, web, closed, sent, got, used, ended, ipcFd, requestId, keepConnection,
                      appStatus, cur, shutdownPending>>
      BY <1>2 DEF AcceptCut
    <2>3. /\ in' = "stdin" /\ inError' = TRUE /\ inClosed' = FALSE /\ outError' = FALSE
          /\ nWriters' = 2 /\ pc' = "serving"
      BY <1>2 DEF Accepted
    <2>4. Domains' /\ Exchange' /\ EndedOnce'
      BY <2>1, <2>2, ExchangeKept, EndedKept DEF Domains
    <2>5. TypeOK'
      <3>1. shutdownPending' = shutdownPending /\ shutdownPending \in BOOLEAN
        BY <2>1, <2>2 DEF TypeOK
      <3>2. {inError', inClosed', outError', shutdownPending'} \subseteq BOOLEAN
        BY <2>3, <3>1
      <3> QED BY <2>1, <2>2, <2>3, <3>2 DEF TypeOK
    <2>6. OneConnection' /\ Connected'
      BY <2>1, <2>2, <2>3 DEF OneConnection, Connected
    <2>7. Streams' /\ Current' /\ Drained'
      <3>1. Streams'
        BY <2>1, <2>2, <2>3 DEF Streams
      <3>2. Current'
        BY <1>2, <2>1, <2>2, <2>3 DEF Current, Begun
      <3>3. Drained'
        BY <2>3 DEF Drained
      <3> QED BY <3>1, <3>2, <3>3
    <2> QED BY <2>4, <2>5, <2>6, <2>7 DEF RequestIInv
  <1> QED BY <1>1, <1>2 DEF AcceptCut
------------------------------------------------------------------------------
(* The application.                                                        *)

LEMMA ReadInputStep ==
  ASSUME RequestIInv, ReadInput
  PROVE  RequestIInv'
  <1>1. /\ Domains /\ TypeOK /\ OneConnection /\ Exchange /\ Connected /\ Streams /\ Current
        /\ Drained /\ pc = "serving" /\ in = "stdin" /\ ipcFd \in Conns /\ ~inClosed
    BY DEF RequestIInv, ReadInput, Serving, OneConnection, TypeOK, Streams
  <1>2. UNCHANGED <<drains, web, closed, sent, got, ended, request, in, outError, cur,
                    shutdownPending, pc>>
    BY DEF ReadInput
  <1>3. /\ cur \in Nat /\ 4 * cur <= used[ipcFd] + 3
    BY <1>1 DEF Current, Begun, TypeOK
  <1>4. used' \in [Conns -> Nat] /\ \A c \in Conns : used[c] <= used'[c] /\ used'[c] <= got[c]
    <2>1. CASE used' = used
      BY <1>1, <2>1 DEF Domains, TypeOK
    <2>2. CASE used[ipcFd] < got[ipcFd] /\ Use
      BY <1>1, <2>2, NextRecord
    <2> QED BY <2>1, <2>2 DEF ReadInput
  <1>5. /\ inError' \in BOOLEAN /\ inClosed' \in BOOLEAN
        /\ inError' => inError \/ web[ipcFd] = "cut"
        /\ shutdownPending \in BOOLEAN /\ outError \in BOOLEAN
    BY <1>1 DEF ReadInput, AtCut, TypeOK
  <1>6. Domains' /\ Exchange' /\ EndedOnce'
    BY <1>1, <1>2, <1>4, ExchangeKept, EndedKept DEF Domains
  <1>7. TypeOK'
    <2>1. \A c \in Conns : /\ 0 <= used'[c] /\ used'[c] <= got'[c]
                           /\ got'[c] <= sent'[c] /\ sent'[c] <= Total(c)
      BY <1>1, <1>2, <1>4 DEF TypeOK, Domains
    <2>2. {inError', inClosed', outError', shutdownPending'} \subseteq BOOLEAN
      BY <1>2, <1>5
    <2> QED BY <1>1, <1>2, <2>1, <2>2 DEF TypeOK, request
  <1>8. OneConnection' /\ Connected'
    BY <1>1, <1>2 DEF OneConnection, Connected, request
  <1>9. Streams'
    BY <1>1, <1>2, <1>5 DEF Streams, request
  <1>10. Current'
    <2>1. 4 * cur <= used'[ipcFd] + 3
      BY <1>1, <1>3, <1>4 DEF Domains
    <2> QED BY <1>1, <1>2, <2>1 DEF Current, Begun, request
  <1>11. Drained'
    <2> SUFFICES ASSUME drains PROVE Drained'
      BY <1>2 DEF Drained
    <2>1. nWriters > 0 /\ nWriters' = nWriters /\ ipcFd' = ipcFd
      BY <1>1, <1>2 DEF Drained, request
    <2>2. cur = Len(ended[ipcFd]) + 1
      BY <1>1, <2>1 DEF Current
    <2>3. ASSUME inClosed', ~inError' PROVE used'[ipcFd] = 4 * cur /\ got[ipcFd] = 4 * cur
      <3>1. used[ipcFd] < got[ipcFd] /\ Use /\ KindOf(used[ipcFd] + 1) = "EOF"
        BY <1>5, <2>3 DEF ReadInput
      <3>2. /\ used'[ipcFd] = used[ipcFd] + 1 /\ used[ipcFd] \in Nat /\ used'[ipcFd] <= got[ipcFd]
            /\ got[ipcFd] <= 4 * Len(ended[ipcFd]) + 4 /\ Len(ended[ipcFd]) \in Nat
        BY <1>1, <3>1, NextRecord
      <3>3. used[ipcFd] + 1 \in Nat \ {0}
        BY <3>2
      <3>4. PICK r \in Nat : used[ipcFd] + 1 = 4 * r
        BY <3>1, <3>3, Records
      <3>5. got[ipcFd] \in Nat /\ got[ipcFd] <= 4 * cur
        BY <1>1, <2>2, <3>2 DEF Domains
      <3>6. PICK u \in Nat : u = used[ipcFd]
        BY <3>2
      <3>7. PICK g \in Nat : g = got[ipcFd]
        BY <3>5
      <3>8. u + 1 = 4 * r /\ u + 1 <= g /\ g <= 4 * cur /\ 4 * cur <= u + 3
        BY <1>3, <3>2, <3>4, <3>5, <3>6, <3>7
      <3>9. u + 1 = 4 * cur /\ g = 4 * cur
        BY <1>3, <3>8
      <3> QED BY <3>2, <3>6, <3>7, <3>9
    <2> QED BY <1>1, <1>2, <2>1, <2>3 DEF Drained
  <1> QED BY <1>6, <1>7, <1>8, <1>9, <1>10, <1>11 DEF RequestIInv

\* FCGI_END_REQUEST.
LEMMA AnswerFacts ==
  ASSUME RequestIInv, pc = "serving", nWriters > 0,
         ended' = [ended EXCEPT ![ipcFd] = Append(@, [request |-> cur, status |-> appStatus])]
  PROVE  /\ ended' \in [Conns -> Seq(End)]
         /\ Len(ended'[ipcFd]) = cur /\ cur = Len(ended[ipcFd]) + 1 /\ cur \in DOMAIN ended'[ipcFd]
         /\ ended'[ipcFd][cur].request = cur
         /\ \A c \in Conns : \A k \in DOMAIN ended'[c] :
               /\ ended'[c][k] \in [request : 1 .. Len(Keeps[c]), status : Statuses \cup {0}]
               /\ ended'[c][k].request = k /\ 4 * k - 3 <= got[c]
         /\ \A c \in Conns : sent[c] <= 4 * Len(ended'[c]) + 4 /\ 4 * Len(ended'[c]) <= used[c] + 3
  <1>1. Domains /\ TypeOK /\ EndedOnce /\ Exchange /\ Current /\ in = "stdin" /\ ipcFd \in Conns
    BY DEF RequestIInv, Streams, OneConnection, TypeOK
  <1> DEFINE e == [request |-> cur, status |-> appStatus]
             all == Len(Keeps[ipcFd])
  <1>2. /\ cur \in 1 .. all /\ all \in Nat /\ 4 * cur <= used[ipcFd] + 3
        /\ cur = Len(ended[ipcFd]) + 1 /\ used[ipcFd] \in Nat /\ got[ipcFd] \in Nat
        /\ used[ipcFd] <= got[ipcFd] /\ appStatus \in Statuses \cup {0}
    BY <1>1, Requests DEF Current, Begun, Domains, TypeOK
  <1>3. e \in End /\ e \in [request : 1 .. all, status : Statuses \cup {0}] /\ e.request = cur
    BY <1>2 DEF End
  <1>4. /\ ended[ipcFd] \in Seq(End) /\ ended'[ipcFd] = Append(ended[ipcFd], e)
        /\ \A c \in Conns : c # ipcFd => ended'[c] = ended[c]
    BY <1>1 DEF Domains
  <1>5. ended' \in [Conns -> Seq(End)]
    <2>1. Append(ended[ipcFd], e) \in Seq(End)
      BY <1>3, <1>4
    <2> QED BY <1>1, <2>1 DEF Domains
  <1> HIDE DEF e, all
  <1>6. /\ Len(ended'[ipcFd]) = cur /\ ended'[ipcFd][cur] = e /\ DOMAIN ended'[ipcFd] = 1 .. cur
        /\ DOMAIN ended[ipcFd] = 1 .. cur - 1
        /\ \A k \in 1 .. cur - 1 : ended'[ipcFd][k] = ended[ipcFd][k]
    BY <1>2, <1>3, <1>4
  <1>7. ASSUME NEW c \in Conns, NEW k \in DOMAIN ended'[c]
        PROVE  /\ ended'[c][k] \in [request : 1 .. Len(Keeps[c]), status : Statuses \cup {0}]
               /\ ended'[c][k].request = k /\ 4 * k - 3 <= got[c]
    <2>1. CASE c = ipcFd /\ k = cur
      BY <1>2, <1>3, <1>6, <2>1 DEF all
    <2>2. CASE c # ipcFd \/ k # cur
      <3>1. k \in DOMAIN ended[c] /\ ended'[c][k] = ended[c][k]
        BY <1>2, <1>4, <1>6, <1>7, <2>2
      <3> QED BY <1>1, <3>1 DEF EndedOnce, TypeOK
    <2> QED BY <2>1, <2>2
  <1>8. ASSUME NEW c \in Conns
        PROVE  sent[c] <= 4 * Len(ended'[c]) + 4 /\ 4 * Len(ended'[c]) <= used[c] + 3
    <2>1. CASE c = ipcFd
      <3>1. sent[ipcFd] <= 4 * Len(ended[ipcFd]) + 4 /\ sent[ipcFd] \in Nat
        BY <1>1 DEF Exchange, Domains
      <3>2. Len(ended[ipcFd]) = cur - 1 /\ cur \in Nat
        BY <1>2, <1>4
      <3> QED BY <1>2, <1>6, <2>1, <3>1, <3>2
    <2>2. CASE c # ipcFd
      BY <1>1, <1>4, <2>2 DEF Exchange
    <2> QED BY <2>1, <2>2
  <1> QED BY <1>2, <1>3, <1>5, <1>6, <1>7, <1>8

LEMMA PutFailsStep ==
  ASSUME RequestIInv, PutFails
  PROVE  RequestIInv'
  <1>1. /\ Domains /\ TypeOK /\ OneConnection /\ Exchange /\ Connected /\ Streams /\ Current
        /\ Drained /\ EndedOnce /\ pc = "serving"
    BY DEF RequestIInv, PutFails, Serving
  <1>2. UNCHANGED <<drains, web, closed, sent, got, used, ended, ipcFd, requestId, keepConnection,
                    appStatus, nWriters, in, inError, inClosed, cur, shutdownPending, pc>>
    BY DEF PutFails, wire, request
  <1>3. web[ipcFd] = "cut" /\ outError' = TRUE
    BY DEF PutFails
  <1>4. {inError', inClosed', outError', shutdownPending'} \subseteq BOOLEAN
    <2>1. {inError, inClosed, shutdownPending} \subseteq BOOLEAN
      BY <1>1 DEF TypeOK
    <2> QED BY <1>2, <1>3, <2>1
  <1>5. Domains' /\ OneConnection' /\ EndedOnce' /\ Exchange' /\ Connected'
    BY <1>1, <1>2 DEF Domains, OneConnection, EndedOnce, Exchange, Connected
  <1>6. TypeOK'
    BY <1>1, <1>2, <1>4 DEF TypeOK
  <1>7. Streams'
    BY <1>1, <1>2, <1>3 DEF Streams
  <1>8. Current' /\ Drained'
    BY <1>1, <1>2 DEF Current, Begun, Drained
  <1> QED BY <1>5, <1>6, <1>7, <1>8 DEF RequestIInv

LEMMA CloseWriterStep ==
  ASSUME RequestIInv, CloseWriter
  PROVE  RequestIInv'
  <1>1. /\ Domains /\ TypeOK /\ OneConnection /\ Exchange /\ Connected /\ Streams /\ Current
        /\ Drained /\ EndedOnce /\ pc = "serving" /\ nWriters \in 1 .. 2
        /\ ipcFd \in Conns /\ in = "stdin"
    BY DEF RequestIInv, CloseWriter, Serving, OneConnection, TypeOK, Streams
  <1>2. UNCHANGED <<drains, web, closed, sent, got, used, ipcFd, requestId, keepConnection, appStatus,
                    in, inError, inClosed, cur, shutdownPending, pc>>
    BY DEF CloseWriter
  <1>3. nWriters' = nWriters - 1
    BY DEF CloseWriter
  <1>4. /\ ended' \in [Conns -> Seq(End)] /\ EndedOnce' /\ Exchange'
        /\ \A c \in Conns : \A k \in DOMAIN ended'[c] :
              ended'[c][k] \in [request : 1 .. Len(Keeps[c]), status : Statuses \cup {0}]
        /\ outError' \in BOOLEAN
        /\ outError' => outError \/ web[ipcFd] = "cut"
        /\ nWriters = 2 => ended' = ended
        /\ nWriters = 1 => Len(ended'[ipcFd]) = cur \/ web[ipcFd] = "cut"
    <2>1. CASE nWriters = 1 /\ UNCHANGED outError
               /\ ended' = [ended EXCEPT ![ipcFd] = Append(@, [request |-> cur, status |-> appStatus])]
      <3>1. outError' = outError /\ outError \in BOOLEAN
        BY <1>1, <2>1 DEF TypeOK
      <3>2. nWriters > 0 /\ nWriters # 2
        BY <2>1
      <3>3. /\ ended' \in [Conns -> Seq(End)] /\ Len(ended'[ipcFd]) = cur
            /\ \A c \in Conns : \A k \in DOMAIN ended'[c] :
                  /\ ended'[c][k] \in [request : 1 .. Len(Keeps[c]), status : Statuses \cup {0}]
                  /\ ended'[c][k].request = k /\ 4 * k - 3 <= got[c]
            /\ \A c \in Conns : sent[c] <= 4 * Len(ended'[c]) + 4 /\ 4 * Len(ended'[c]) <= used[c] + 3
        BY <1>1, <2>1, <3>2, AnswerFacts
      <3>4. got' = got /\ sent' = sent /\ used' = used
        BY <1>2
      <3>5. EndedOnce'
        BY <3>3, <3>4 DEF EndedOnce
      <3>6. Exchange'
        BY <3>3, <3>4 DEF Exchange
      <3> QED BY <3>1, <3>2, <3>3, <3>5, <3>6
    <2>2. CASE nWriters = 1 /\ web[ipcFd] = "cut" /\ outError' = TRUE /\ ended' = ended
      BY <1>1, <1>2, <2>2 DEF Domains, TypeOK, EndedOnce, Exchange
    <2>3. CASE nWriters = 2 /\ UNCHANGED <<ended, outError>>
      BY <1>1, <1>2, <2>3 DEF Domains, TypeOK, EndedOnce, Exchange
    <2>4. CASE nWriters = 2 /\ web[ipcFd] = "cut" /\ outError' = TRUE /\ ended' = ended
      BY <1>1, <1>2, <2>4 DEF Domains, TypeOK, EndedOnce, Exchange
    <2>5. nWriters = 1 \/ nWriters = 2
      BY <1>1
    <2> QED BY <2>1, <2>2, <2>3, <2>4, <2>5 DEF CloseWriter, EndRequest, EndStream
  <1>5. Domains'
    BY <1>1, <1>2, <1>4 DEF Domains
  <1>6. TypeOK'
    <2>1. {inError', inClosed', outError', shutdownPending'} \subseteq BOOLEAN
      <3>1. /\ inError' = inError /\ inClosed' = inClosed /\ shutdownPending' = shutdownPending
            /\ inError \in BOOLEAN /\ inClosed \in BOOLEAN /\ shutdownPending \in BOOLEAN
        BY <1>1, <1>2 DEF TypeOK
      <3>2. outError' \in BOOLEAN
        BY <1>4
      <3> QED BY <3>1, <3>2
    <2>2. nWriters' \in 0 .. 2
      BY <1>1, <1>3
    <2> QED BY <1>1, <1>2, <1>4, <2>1, <2>2 DEF TypeOK
  <1>7. OneConnection' /\ Connected'
    BY <1>1, <1>2 DEF OneConnection, Connected
  <1>8. Streams'
    BY <1>1, <1>2, <1>4 DEF Streams
  <1>9. Current'
    <2>1. nWriters' > 0 => nWriters = 2
      BY <1>1, <1>3
    <2>2. nWriters' = 0 => nWriters = 1
      BY <1>1, <1>3
    <2>3. nWriters = 2 => cur = Len(ended[ipcFd]) + 1
      BY <1>1 DEF Current
    <2> QED BY <1>1, <1>2, <1>4, <2>1, <2>2, <2>3 DEF Current, Begun
  <1>10. Drained'
    <2>1. drains /\ ~inClosed => nWriters' > 0
      <3>1. nWriters = 1 => (drains => inClosed)
        BY DEF CloseWriter, MayFinish
      <3> QED BY <1>1, <1>3, <3>1
    <2> QED BY <1>1, <1>2, <2>1 DEF Drained
  <1> QED BY <1>4, <1>5, <1>6, <1>7, <1>8, <1>9, <1>10 DEF RequestIInv

\* FCGX_Finish_r: what was answered, and when it closes the connection.
LEMMA FinishFacts ==
  ASSUME RequestIInv, Finish_r
  PROVE  /\ pc = "serving" /\ ipcFd \in Conns /\ cur \in 1 .. Len(Keeps[ipcFd])
         /\ UNCHANGED <<drains, web, sent, got, requestId, keepConnection, appStatus, cur, shutdownPending>>
         /\ nWriters' = 0 /\ pc' = "idle" /\ (drains => inClosed)
         /\ ended' \in [Conns -> Seq(End)] /\ EndedOnce'
         /\ \A c \in Conns : \A k \in DOMAIN ended'[c] :
               ended'[c][k] \in [request : 1 .. Len(Keeps[c]), status : Statuses \cup {0}]
         /\ \A c \in Conns : sent[c] <= 4 * Len(ended'[c]) + 4 /\ 4 * Len(ended'[c]) <= used[c] + 3
         /\ web[ipcFd] = "cut" \/ (Len(ended'[ipcFd]) = cur /\ cur \in DOMAIN ended'[ipcFd])
         /\ \/ Free(TRUE) /\ (web[ipcFd] = "cut" \/ ~Keeps[ipcFd][cur])
            \/ Free(FALSE) /\ ~inError
  <1>1. /\ Domains /\ TypeOK /\ OneConnection /\ Exchange /\ Connected /\ Streams /\ Current
        /\ EndedOnce /\ pc = "serving" /\ ipcFd \in Conns /\ in = "stdin"
    BY DEF RequestIInv, Finish_r, Serving, OneConnection, TypeOK, Streams
  <1>2. /\ UNCHANGED <<drains, web, sent, got, requestId, keepConnection, appStatus, cur, shutdownPending>>
        /\ nWriters' = 0 /\ pc' = "idle" /\ (drains => inClosed)
    BY DEF Finish_r, MayFinish
  <1>3. PICK error \in BOOLEAN :
          /\ \/ /\ nWriters > 0 /\ error = outError
                /\ ended' = [ended EXCEPT ![ipcFd] = Append(@, [request |-> cur, status |-> appStatus])]
             \/ nWriters > 0 /\ web[ipcFd] = "cut" /\ error /\ ended' = ended
             \/ ~(nWriters > 0) /\ error = outError /\ ended' = ended
          /\ Free(~keepConnection \/ error \/ inError)
    BY DEF Finish_r
  <1>4. /\ error => web[ipcFd] = "cut"
        /\ inError => web[ipcFd] = "cut"
        /\ keepConnection = Keeps[ipcFd][cur] /\ cur \in 1 .. Len(Keeps[ipcFd])
    BY <1>1, <1>3 DEF Streams, Current, Begun
  <1>5. /\ ended' \in [Conns -> Seq(End)] /\ EndedOnce'
        /\ \A c \in Conns : \A k \in DOMAIN ended'[c] :
              ended'[c][k] \in [request : 1 .. Len(Keeps[c]), status : Statuses \cup {0}]
        /\ \A c \in Conns : sent[c] <= 4 * Len(ended'[c]) + 4 /\ 4 * Len(ended'[c]) <= used[c] + 3
        /\ web[ipcFd] = "cut" \/ (Len(ended'[ipcFd]) = cur /\ cur \in DOMAIN ended'[ipcFd])
    <2>1. CASE nWriters > 0
               /\ ended' = [ended EXCEPT ![ipcFd] = Append(@, [request |-> cur, status |-> appStatus])]
      <3>1. got' = got
        BY <1>2
      <3> QED BY <1>1, <2>1, <3>1, AnswerFacts DEF EndedOnce
    <2>2. CASE ended' = ended /\ (web[ipcFd] = "cut" \/ ~(nWriters > 0))
      <3>1. /\ ended' \in [Conns -> Seq(End)] /\ EndedOnce'
            /\ \A c \in Conns : \A k \in DOMAIN ended'[c] :
                  ended'[c][k] \in [request : 1 .. Len(Keeps[c]), status : Statuses \cup {0}]
            /\ \A c \in Conns : sent[c] <= 4 * Len(ended'[c]) + 4 /\ 4 * Len(ended'[c]) <= used[c] + 3
        BY <1>1, <1>2, <2>2 DEF Domains, TypeOK, EndedOnce, Exchange
      <3>2. web[ipcFd] = "cut" \/ nWriters = 0
        BY <1>1, <2>2 DEF TypeOK
      <3>3. web[ipcFd] = "cut" \/ Len(ended[ipcFd]) = cur
        BY <1>1, <3>2 DEF Current
      <3>4. Len(ended[ipcFd]) = cur => cur \in DOMAIN ended[ipcFd]
        <4>1. ended[ipcFd] \in Seq(End) /\ cur \in Nat \ {0}
          BY <1>1, <1>4, Requests DEF Domains
        <4> QED BY <4>1
      <3> QED BY <2>2, <3>1, <3>3, <3>4
    <2> QED BY <1>3, <2>1, <2>2
  <1>6. keepConnection \in BOOLEAN /\ inError \in BOOLEAN
    BY <1>1 DEF TypeOK
  <1>7. CASE ~keepConnection \/ error \/ inError
    <2>1. (~keepConnection \/ error \/ inError) = TRUE
      BY <1>7
    <2>2. Free(TRUE)
      BY <1>3, <2>1
    <2> QED BY <1>1, <1>2, <1>4, <1>5, <1>7, <2>2
  <1>8. CASE ~(~keepConnection \/ error \/ inError)
    <2>1. (~keepConnection \/ error \/ inError) = FALSE
      BY <1>8
    <2>2. Free(FALSE)
      BY <1>3, <2>1
    <2> QED BY <1>1, <1>2, <1>4, <1>5, <1>8, <2>2
  <1> QED BY <1>7, <1>8

LEMMA Finish_rStep ==
  ASSUME RequestIInv, Finish_r
  PROVE  RequestIInv'
  <1>1. /\ Domains /\ TypeOK /\ OneConnection /\ Connected /\ Drained
    BY DEF RequestIInv
  <1>2. /\ pc = "serving" /\ ipcFd \in Conns /\ nWriters' = 0 /\ pc' = "idle"
        /\ (drains => inClosed) /\ EndedOnce' /\ ended' \in [Conns -> Seq(End)]
        /\ UNCHANGED <<drains, web, sent, got, requestId, keepConnection, appStatus, cur, shutdownPending>>
        /\ \A c \in Conns : \A k \in DOMAIN ended'[c] :
              ended'[c][k] \in [request : 1 .. Len(Keeps[c]), status : Statuses \cup {0}]
        /\ \A c \in Conns : sent[c] <= 4 * Len(ended'[c]) + 4 /\ 4 * Len(ended'[c]) <= used[c] + 3
    BY FinishFacts
  <1>3. /\ used' \in [Conns -> Nat] /\ used'[ipcFd] = got[ipcFd]
        /\ \A c \in Conns : used[c] <= used'[c] /\ used'[c] <= got[c]
    BY <1>2, FinishFacts, FreeFacts
  <1>4. Domains'
    BY <1>1, <1>2, <1>3 DEF Domains
  <1>5. Exchange'
    <2> SUFFICES ASSUME NEW c \in Conns PROVE 4 * Len(ended'[c]) <= used'[c] + 3
      BY <1>2 DEF Exchange
    <2>1. /\ 4 * Len(ended'[c]) <= used[c] + 3 /\ used[c] <= used'[c]
          /\ used[c] \in Nat /\ used'[c] \in Nat /\ ended'[c] \in Seq(End)
      BY <1>1, <1>2, <1>3 DEF Domains
    <2> QED BY <2>1
  <1>6. CASE Free(TRUE)
    <2>1. Given_up("idle")
      BY <1>2, <1>6 DEF Given_up
    <2> QED BY <1>2, <1>4, <1>5, <2>1, Given_upStep
  <1>7. CASE Free(FALSE) /\ ~inError
    <2>1. /\ closed' = closed /\ ipcFd' = ipcFd /\ in' = "none"
          /\ inError' = FALSE /\ inClosed' = FALSE /\ outError' = FALSE
      BY <1>2, <1>7, FreeFacts
    <2>2. TypeOK'
      <3>1. \A c \in Conns : /\ 0 <= used'[c] /\ used'[c] <= got'[c]
                             /\ got'[c] <= sent'[c] /\ sent'[c] <= Total(c)
        BY <1>1, <1>2, <1>3 DEF TypeOK, Domains
      <3>2. shutdownPending' = shutdownPending /\ shutdownPending \in BOOLEAN
        BY <1>1, <1>2 DEF TypeOK
      <3>3. {inError', inClosed', outError', shutdownPending'} \subseteq BOOLEAN
        BY <2>1, <3>2
      <3> QED BY <1>1, <1>2, <2>1, <3>1, <3>3 DEF TypeOK
    <2>3. OneConnection' /\ Connected'
      BY <1>1, <1>2, <2>1 DEF OneConnection, Connected
    <2>4. Streams' /\ Current'
      BY <1>2, <2>1 DEF Streams, Current, Begun
    <2>5. Drained'
      <3>1. drains => used'[ipcFd] % 4 = 0
        <4> SUFFICES ASSUME drains PROVE used'[ipcFd] % 4 = 0
          OBVIOUS
        <4>1. used'[ipcFd] = 4 * cur /\ cur \in Nat
          BY <1>1, <1>2, <1>3, <1>7 DEF Drained, TypeOK
        <4>2. (4 * cur) % 4 = 0
          BY <4>1
        <4> QED BY <4>1, <4>2
      <3> QED BY <1>2, <2>1, <3>1 DEF Drained
    <2> QED BY <1>2, <1>4, <1>5, <2>2, <2>3, <2>4, <2>5 DEF RequestIInv
  <1> QED BY <1>6, <1>7, FinishFacts
------------------------------------------------------------------------------
LEMMA RequestInit == Init => RequestIInv
  <1> SUFFICES ASSUME Init PROVE RequestIInv
    OBVIOUS
  <1>1. Domains
    BY DEF Init, Domains
  <1>2. \A c \in Conns : ended[c] = <<>> /\ sent[c] = 0 /\ got[c] = 0 /\ used[c] = 0 /\ web[c] = "new"
    BY DEF Init
  <1>3. TypeOK
    <2>1. \A c \in Conns : 0 <= used[c] /\ used[c] <= got[c] /\ got[c] <= sent[c] /\ sent[c] <= Total(c)
      BY <1>2, Requests
    <2>2. \A c \in Conns : DOMAIN ended[c] = {}
      BY <1>2
    <2>3. \A c \in Conns : \A k \in DOMAIN ended[c] :
             ended[c][k] \in [request : 1 .. Len(Keeps[c]), status : Statuses \cup {0}]
      BY <2>2
    <2>4. web \in [Conns -> {"new", "waiting", "open", "cut"}] /\ closed \subseteq Conns
      BY DEF Init
    <2>5. {inError, inClosed, outError, shutdownPending} \subseteq BOOLEAN
      <3>1. inError = FALSE /\ inClosed = FALSE /\ outError = FALSE /\ shutdownPending = FALSE
        BY DEF Init
      <3>2. {FALSE} \subseteq BOOLEAN
        OBVIOUS
      <3> QED BY <3>1, <3>2
    <2>6. /\ ipcFd \in Conns \cup {None} /\ requestId \in {0, 1} /\ keepConnection \in BOOLEAN
          /\ appStatus \in Statuses \cup {0} /\ nWriters \in 0 .. 2
          /\ in \in {"none", "begin", "params", "stdin"}
          /\ cur \in Nat /\ pc \in {"idle", "accept", "fill", "serving", "stopped"}
      <3>1. ipcFd = None /\ requestId = 0 /\ keepConnection = FALSE /\ appStatus = 0 /\ nWriters = 0
        BY DEF Init
      <3>2. in = "none" /\ cur = 0 /\ pc = "idle"
        BY DEF Init
      <3>3. keepConnection \in BOOLEAN
        BY <3>1
      <3>4. ipcFd \in Conns \cup {None} /\ appStatus \in Statuses \cup {0}
        BY <3>1
      <3>5. requestId \in {0, 1} /\ nWriters \in 0 .. 2
        BY <3>1
      <3>6. /\ in \in {"none", "begin", "params", "stdin"}
            /\ cur \in Nat /\ pc \in {"idle", "accept", "fill", "serving", "stopped"}
        BY <3>2
      <3> QED BY <3>3, <3>4, <3>5, <3>6
    <2> QED BY <2>1, <2>3, <2>4, <2>5, <2>6 DEF TypeOK
  <1>4. OneConnection /\ Connected
    BY <1>2, SettingAssumption DEF Init, OneConnection, Connected
  <1>5. EndedOnce /\ Exchange
    <2>1. \A c \in Conns : DOMAIN ended[c] = {} /\ Len(ended[c]) = 0
      BY <1>2
    <2> QED BY <1>2, <2>1 DEF EndedOnce, Exchange
  <1>6. Streams /\ Current /\ Drained
    BY DEF Init, Streams, Current, Begun, Drained
  <1> QED BY <1>1, <1>3, <1>4, <1>5, <1>6 DEF RequestIInv

LEMMA RequestNext == RequestIInv /\ [Next]_vars => RequestIInv'
  BY WebServerStep, SettingStep, Accept_rStep, OsAcceptStep, ReadStep, BeginStep, BreakStep,
     EnvironmentStep, AcceptCutStep, ReadInputStep, PutFailsStep, CloseWriterStep,
     Finish_rStep
     DEF Next, Library, Application

LEMMA RequestInvariant == Spec => []RequestIInv
  BY RequestInit, RequestNext, PTL DEF Spec

(* The descriptor and the connections of a FCGX_Request: the one in use is *)
(* the open one, every other that was accepted is closed.                  *)
THEOREM DescriptorCorrect == Spec => []DescriptorInv
  <1>1. RequestIInv => DescriptorInv
    BY DEF RequestIInv, DescriptorInv
  <1> QED BY <1>1, RequestInvariant, PTL

(* Each request is ended once, in order, and after it was begun, however   *)
(* the application, FCGX_Finish_r and breaking connections interleave.     *)
THEOREM EndedCorrect == Spec => []EndedOnce
  <1>1. RequestIInv => EndedOnce
    BY DEF RequestIInv
  <1> QED BY <1>1, RequestInvariant, PTL

\* The only steps that close a connection.
LEMMA Closers ==
  ASSUME RequestIInv, Next, NEW c \in closed' \ closed
  PROVE  /\ c = ipcFd
         /\ (BeginMissing /\ pc = "fill") \/ (AcceptCut /\ pc = "fill") \/ Finish_r
  <1>1. CASE BeginMissing \/ AcceptCut \/ Finish_r
    BY <1>1 DEF BeginMissing, AcceptCut, Finish_r, Free
  <1>2. CASE ~(BeginMissing \/ AcceptCut \/ Finish_r)
    <2>1. closed' = closed
      BY <1>2 DEF Next, Library, Application, Connect, Send, Cut, ShutdownPending, SetExitStatus,
         Accept_r, OsAccept, OsRead, Begin, Environment, ReadMore, ReadInput, PutFails,
         CloseWriter, wire
    <2> QED BY <2>1
  <1> QED BY <1>1, <1>2

(* A connection is never closed on a request that was accepted and not     *)
(* answered unless it is broken, and one that FCGI_KEEP_CONN asks to keep  *)
(* is kept by an application that reads its input.                         *)
THEOREM ClosesCorrect == Spec => ClosedInTime
  <1>1. ASSUME RequestIInv, [Next]_vars
        PROVE  [\A c \in closed' \ closed :
                  pc = "serving" =>
                     web[c] = "cut" \/ \E k \in DOMAIN ended'[c] : ended'[c][k].request = cur]_vars
    <2> SUFFICES ASSUME Next, NEW c \in closed' \ closed, pc = "serving"
                 PROVE  web[c] = "cut" \/ \E k \in DOMAIN ended'[c] : ended'[c][k].request = cur
      BY <1>1
    <2>1. Finish_r /\ c = ipcFd /\ ipcFd \in Conns
      BY <1>1, Closers, FinishFacts
    <2>2. CASE web[ipcFd] = "cut"
      BY <2>1, <2>2
    <2>3. CASE cur \in DOMAIN ended'[ipcFd]
      <3>1. ended'[ipcFd][cur].request = cur
        BY <1>1, <2>1, <2>3, FinishFacts DEF EndedOnce
      <3> QED BY <2>1, <2>3, <3>1
    <2> QED BY <1>1, <2>1, <2>2, <2>3, FinishFacts
  <1>2. ASSUME RequestIInv, [Next]_vars
        PROVE  [drains => \A c \in closed' \ closed : web[c] = "cut" \/ ~Keeps[c][cur]]_vars
    <2> SUFFICES ASSUME Next, drains, NEW c \in closed' \ closed
                 PROVE  web[c] = "cut" \/ ~Keeps[c][cur]
      BY <1>2
    <2>1. c = ipcFd
      BY <1>2, Closers
    <2>2. ~BeginMissing
      <3> SUFFICES ASSUME BeginMissing PROVE FALSE
        OBVIOUS
      <3>1. /\ in = "begin" /\ ipcFd \in Conns /\ ipcFd # None
            /\ KindOf(used[ipcFd] + 1) # "BEGIN"
        BY <1>2 DEF RequestIInv, OneConnection, TypeOK, BeginMissing, NextIs
      <3>2. used[ipcFd] \in Nat /\ used[ipcFd] % 4 = 0
        BY <1>2, <3>1 DEF RequestIInv, Domains, Drained
      <3>3. used[ipcFd] + 1 \in Nat \ {0} /\ (used[ipcFd] + 1) - 1 = used[ipcFd]
        BY <3>2
      <3>4. KindOf(used[ipcFd] + 1) = "BEGIN"
        BY <3>2, <3>3, Records
      <3> QED BY <3>1, <3>4
    <2>3. CASE AcceptCut
      BY <2>1, <2>3 DEF AcceptCut, AtCut
    <2>4. CASE Finish_r
      <3>1. ipcFd \in Conns /\ ~Free(FALSE)
        BY <1>2, <2>4, FinishFacts DEF Free
      <3> QED BY <1>2, <2>1, <2>4, <3>1, FinishFacts
    <2> QED BY <1>2, <2>2, <2>3, <2>4, Closers
  <1> QED BY <1>1, <1>2, RequestInvariant, PTL DEF Spec, ClosedInTime, AnsweredFirst, KeptOpen
=============================================================================
