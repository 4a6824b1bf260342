--------------------------- MODULE RemoteImagesProofs ---------------------------
(***************************************************************************)
(* What article frames make a browser load, and what icons are stored, for *)
(* every web, article and size of an image.                                *)
(***************************************************************************)
EXTENDS RemoteImages, TLAPS, WellFoundedInduction, SequenceTheorems

--------------------------------------------------------------------------------
(* The arithmetic of resize. *)

\* An edge that is not longer than the longer one gets at most 32 pixels.
LEMMA EdgesFit ==
    ASSUME NEW edge \in Nat \ {0}, NEW longer \in Nat \ {0}, edge <= longer
    PROVE  Edges(edge, longer) \subseteq 1 .. 32
<1> DEFINE exact == (edge * targetSize) \div longer
<1>1. exact \in Int /\ exact <= 32
  <2>1. edge * targetSize <= 32 * longer
    BY DEF targetSize
  <2>2. edge * targetSize \in Nat
    BY DEF targetSize
  <2>3. \A a \in Nat : a <= 32 * longer => a \div longer \in Int /\ a \div longer <= 32
    OBVIOUS
  <2> QED
    BY <2>1, <2>2, <2>3
<1>2. Truncated(edge, longer) \subseteq {exact, exact - 1}
  BY DEF Truncated
<1> HIDE DEF exact
<1> QED
  BY <1>1, <1>2 DEF Edges

\* favicon.go:169-171: whatever the size of an icon, what is stored has at least
\* one and at most 32 pixels either way, wherever the floating-point product is
\* rounded to.
THEOREM ResizeFits ==
    \A w, h \in Nat \ {0} : resize(w, h) \subseteq (1 .. 32) \X (1 .. 32)
<1> SUFFICES ASSUME NEW w \in Nat \ {0}, NEW h \in Nat \ {0}
             PROVE  resize(w, h) \subseteq (1 .. 32) \X (1 .. 32)
  OBVIOUS
<1>1. CASE w <= targetSize /\ h <= targetSize
  BY <1>1 DEF resize, targetSize
<1>2. CASE ~(w <= targetSize /\ h <= targetSize)
  <2> DEFINE longer == IF w < h THEN h ELSE w
  <2>1. longer \in Nat \ {0} /\ w <= longer /\ h <= longer
    OBVIOUS
  <2>2. Edges(w, longer) \subseteq 1 .. 32 /\ Edges(h, longer) \subseteq 1 .. 32
    BY <2>1, EdgesFit
  <2>3. resize(w, h) = Edges(w, longer) \X Edges(h, longer)
    BY <1>2 DEF resize
  <2> HIDE DEF longer
  <2> QED
    BY <2>2, <2>3
<1> QED
  BY <1>1, <1>2

\* favicon.go:188-190: each pixel is copied from within the image.
THEOREM SamplesInside ==
    \A edge, n \in Nat \ {0} : \A i \in 0 .. n - 1 : Sample(i, edge, n) \in 0 .. edge - 1
<1> SUFFICES ASSUME NEW edge \in Nat \ {0}, NEW n \in Nat \ {0}, NEW i \in 0 .. n - 1
             PROVE  Sample(i, edge, n) \in 0 .. edge - 1
  OBVIOUS
<1>1. i * edge \in Nat /\ i * edge < n * edge
  OBVIOUS
<1>2. \A a, b \in Nat : a < n * b => a \div n \in Int /\ 0 <= a \div n /\ a \div n < b
  OBVIOUS
<1> QED
  BY <1>1, <1>2 DEF Sample

--------------------------------------------------------------------------------
(* The frame of an article. *)

\* contentBaseURL finds an absolute URL or none.
LEMMA BaseIsAbsolute ==
    \A link, site, feed : contentBaseURL(link, site, feed) \in URLs \cup {NoRef}
BY DEF contentBaseURL

\* What a reference resolves to is absolute, when there is a base.
LEMMA ResolvedIsAbsolute ==
    ASSUME NEW b \in URLs \cup {NoRef}, NEW ref \in URLs \cup Paths
    PROVE  resolveURL(b, ref) \in URLs \cup (IF b = NoRef THEN Paths ELSE {})
BY RemoteImagesAssumption DEF resolveURL

\* sanitize.go:48-51, handler.go:815-819: the frame of any document makes the
\* browser load images from the proxy and nothing else.
THEOREM FrameLocal == Spec => []FrameStaysLocal
<1>1. Init => FrameStaysLocal
  BY DEF Init, FrameStaysLocal
<1>2. FrameStaysLocal /\ [Next]_vars => FrameStaysLocal'
  <2> SUFFICES ASSUME FrameStaysLocal, [Next]_vars PROVE FrameStaysLocal'
    OBVIOUS
  <2>1. CASE handleArticleFrame
    <3>1. PICK a \in Articles : base' \in URLs \cup {NoRef} /\ shown' = Frame(a.content, base')
      BY <2>1, BaseIsAbsolute DEF handleArticleFrame
    <3>2. a.content \subseteq Elements
      BY RemoteImagesAssumption
    <3> DEFINE resolved == URLs \cup (IF base' = NoRef THEN Paths ELSE {})
               resolve(ref) == resolveURL(base', ref)
               linked == RewriteLinkHrefs(a.content, base')
               safe == HTML(linked)
    <3>3. \A ref \in URLs \cup Paths : resolve(ref) \in resolved
      BY <3>1, ResolvedIsAbsolute
    <3>4. \A ref \in {NoRef, Unsafe} : resolve(ref) = ref
      BY RemoteImagesAssumption DEF resolveURL
    <3>5. \A e \in linked :
             /\ e \in Elements
             /\ e.tag = "a" => e.ref \in resolved \cup {NoRef, Unsafe}
      <4>1. SUFFICES ASSUME NEW e \in a.content
                     PROVE LET f == IF e.tag = "a" /\ e.ref # NoRef
                                    THEN [e EXCEPT !.ref = resolve(e.ref)] ELSE e
                           IN  /\ f \in Elements
                               /\ f.tag = "a" => f.ref \in resolved \cup {NoRef, Unsafe}
        BY DEF RewriteLinkHrefs
      <4>2. resolve(e.ref) \in resolved \cup {NoRef, Unsafe}
        BY <3>2, <3>3, <3>4 DEF Elements
      <4> HIDE DEF resolve
      <4> QED
        BY <3>2, <4>2 DEF Elements
    <3>6. \A e \in safe :
             /\ e \in Elements /\ e.tag # "script" /\ e.ref \notin {NoRef, Unsafe}
             /\ e.tag = "a" => e.ref \in resolved /\ (e.ref \in URLs => e.blank)
      <4> HIDE DEF linked, resolved
      <4> QED
        BY <3>5 DEF HTML, Elements
    <3>7. shown' = RewriteImageSrcs(safe, base')
      BY <3>1 DEF Frame
    <3>8. shown' = {IF e.tag = "img"
                    THEN [e EXCEPT !.srcset = FALSE,
                                   !.ref = IF e.ref = NoRef THEN e.ref
                                           ELSE proxyImageURL(resolve(e.ref))]
                    ELSE e : e \in safe}
      BY <3>7 DEF RewriteImageSrcs
    <3>9. \A e \in safe : e.tag = "img" => resolve(e.ref) \in resolved
      BY <3>3, <3>6 DEF Elements
    <3> HIDE DEF safe, resolve
    <3>10. \A e \in shown' :
              \/ e.tag = "a" /\ e.ref \in resolved /\ (e.ref \in URLs => e.blank)
              \/ e.tag = "img" /\ ~e.srcset /\ e.ref \in {proxyImageURL(ref) : ref \in resolved}
      <4> HIDE DEF resolved
      <4> QED
        BY <3>6, <3>8, <3>9 DEF Elements
    <3> QED
      BY <3>10 DEF FrameStaysLocal
  <2>2. CASE UNCHANGED <<base, shown>>
    BY <2>2 DEF FrameStaysLocal
  <2>3. Next => handleArticleFrame \/ UNCHANGED <<base, shown>>
    BY DEF Next, Fetch, handleImageProxy, fetchFaviconIfMissing, Next1, Refused, Send,
           CheckRedirect, NoAnswer, Answer, Reject, Accept, Read, EndView, EndIcon,
           Broken, Expire, Leave, Becomes
  <2> QED
    BY <2>1, <2>2, <2>3 DEF vars
<1> QED
  BY <1>1, <1>2, PTL DEF Spec

--------------------------------------------------------------------------------
(* The fetches. *)

\* What downsize stores has 1 to 32 pixels either way, or is no decoded image.
LEMMA DownsizeFits ==
    ASSUME TypeOK, NEW u \in URLs
    PROVE  downsize(web[u]) \subseteq ((1 .. 32) \X (1 .. 32)) \cup {NoRef}
<1>1. web[u].dims \in Dimensions \cup {NoRef}
  BY RemoteImagesAssumption DEF TypeOK, Answers
<1>2. CASE web[u].dims = NoRef
  BY <1>2 DEF downsize
<1>3. CASE web[u].dims # NoRef
  <2>1. web[u].dims[1] \in Nat \ {0} /\ web[u].dims[2] \in Nat \ {0}
    BY <1>1, <1>3 DEF Dimensions
  <2> QED
    BY <1>3, <2>1, ResizeFits DEF downsize
<1> QED
  BY <1>2, <1>3

\* What it stores as it is could not be decoded.
LEMMA RawIsUndecoded ==
    ASSUME TypeOK, NEW u \in URLs, NEW png \in downsize(web[u])
    PROVE  \/ png \in (1 .. 32) \X (1 .. 32)
           \/ png = NoRef /\ (web[u].dims = NoRef \/ web[u].size > MaxBytes)
<1>1. web[u].dims \in Dimensions \cup {NoRef}
  BY RemoteImagesAssumption DEF TypeOK, Answers
<1>2. CASE web[u].dims = NoRef \/ web[u].size > MaxBytes
  BY <1>2, DownsizeFits
<1>3. CASE ~ (web[u].dims = NoRef \/ web[u].size > MaxBytes)
  <2>1. web[u].dims[1] \in Nat \ {0} /\ web[u].dims[2] \in Nat \ {0}
    BY <1>1, <1>3 DEF Dimensions
  <2>2. png \in resize(web[u].dims[1], web[u].dims[2])
    BY <1>3 DEF downsize
  <2> QED
    BY <2>1, <2>2, ResizeFits
<1> QED
  BY <1>2, <1>3

\* A fetch that holds nothing.
Ended(r) == r \in Fetches /\ r.at \in {"idle", "next"} /\ ~r.timer /\ ~r.conn

\* Whatever a fetch ends with, it holds nothing.
LEMMA EndedWellFormed == Ended(Idle) /\ \A r \in Fetches : Ended(Failed(r)) /\ Ended(Missed(r))
<1>1. Ended(Idle)
  BY RemoteImagesAssumption DEF Ended, Idle, Fetches
<1>2. \A r \in Fetches : Ended(Failed(r))
  <2>1. 0 \in 0 .. MaxRequests /\ 0 \in 0 .. MaxBytes
    BY RemoteImagesAssumption
  <2>2. \A r \in Fetches : Released(r) \in Fetches /\ ~Released(r).timer /\ ~Released(r).conn
    BY <2>1 DEF Released, Fetches
  <2>3. \A r \in Fetches : Ended([Released(r) EXCEPT !.at = "next"])
    BY <2>2 DEF Ended, Fetches
  <2> QED
    BY <1>1, <2>3 DEF Failed
<1>3. \A r \in Fetches : [r EXCEPT !.missed = @ \cup {r.origin}] \in Fetches
  BY DEF Fetches
<1> QED
  BY <1>1, <1>2, <1>3 DEF Missed

\* A step that makes a fetch well formed, and leaves the icon alone, keeps the
\* invariant.
LEMMA BecomesWellFormed ==
    ASSUME TypeOK, NEW j \in Jobs, NEW r \in Fetches, Becomes(j, r), UNCHANGED favicon,
           IF r.at \in {"idle", "next", "gate"} THEN ~r.timer /\ ~r.conn ELSE r.url \in URLs
    PROVE  TypeOK'
BY DEF Becomes, TypeOK

\* Fetches, frames and the stored icon stay well formed: no ended fetch holds a
\* connection.
THEOREM TypeCorrect == Spec => []TypeOK
<1>1. Init => TypeOK
  BY RemoteImagesAssumption DEF Init, TypeOK, Idle, Fetches
<1>2. TypeOK /\ FrameStaysLocal /\ [Next]_vars => TypeOK'
  <2> SUFFICES ASSUME TypeOK, FrameStaysLocal, [Next]_vars PROVE TypeOK'
    OBVIOUS
  <2>1. CASE handleArticleFrame
    BY <2>1, BaseIsAbsolute DEF handleArticleFrame, TypeOK
  <2>2. CASE UNCHANGED vars
    BY <2>2 DEF vars, TypeOK
  <2>3. ASSUME NEW j \in Jobs,
               \/ handleImageProxy(j) \/ fetchFaviconIfMissing(j) \/ Next1(j)
               \/ Fetch(j) \/ Expire(j) \/ Leave(j)
        PROVE  TypeOK'
    <3> DEFINE r == job[j]
    <3>1. r \in Fetches /\ Ended(Idle) /\ Ended(Failed(r)) /\ Ended(Missed(r))
      BY EndedWellFormed DEF TypeOK
    <3>2. IF r.at \in {"idle", "next", "gate"} THEN ~r.timer /\ ~r.conn ELSE r.url \in URLs
      BY DEF TypeOK
    <3>3. CASE handleImageProxy(j)
      <4>1. PICK e \in shown : /\ e.tag = "img"
                              /\ Becomes(j, [Idle EXCEPT !.at = "gate", !.url = e.ref[2]])
        BY <3>3 DEF handleImageProxy
      <4>2. e.ref[2] \in URLs \cup Paths
        BY <4>1 DEF FrameStaysLocal, proxyImageURL
      <4>3. [Idle EXCEPT !.at = "gate", !.url = e.ref[2]] \in Fetches
        BY <3>1, <4>2 DEF Fetches, Ended
      <4> QED
        BY <3>1, <3>3, <4>1, <4>3, BecomesWellFormed DEF handleImageProxy, Idle
    <3>4. CASE fetchFaviconIfMissing(j)
      <4>1. PICK named \in Icons :
               Becomes(j, [Idle EXCEPT !.at = "next", !.kind = "icon", !.named = named,
                                       !.rest = candidates(named)])
        BY <3>4 DEF fetchFaviconIfMissing
      <4>2. candidates(named) \in Seq(URLs) /\ named \in URLs \cup {NoRef}
        BY RemoteImagesAssumption DEF candidates, Try
      <4>3. [Idle EXCEPT !.at = "next", !.kind = "icon", !.named = named,
                         !.rest = candidates(named)] \in Fetches
        BY <3>1, <4>2 DEF Fetches, Ended
      <4> QED
        BY <3>4, <4>1, <4>3, BecomesWellFormed DEF fetchFaviconIfMissing, Idle
    <3>5. CASE Next1(j)
      <4>1. CASE r.rest = <<>>
        BY <3>1, <3>5, <4>1, BecomesWellFormed DEF Next1, Ended
      <4>2. CASE r.rest # <<>>
        <5> DEFINE s == [r EXCEPT !.at = "gate", !.url = Head(r.rest),
                                  !.origin = Head(r.rest), !.rest = Tail(r.rest)]
        <5>1. Head(r.rest) \in URLs /\ Tail(r.rest) \in Seq(URLs)
          BY <3>1, <4>2 DEF Fetches
        <5>2. s \in Fetches /\ s.at = "gate" /\ ~s.timer /\ ~s.conn
          BY <3>1, <3>2, <3>5, <5>1 DEF Next1, Fetches
        <5> QED
          BY <3>5, <4>2, <5>2, BecomesWellFormed DEF Next1
      <4> QED
        BY <4>1, <4>2
    <3>6. CASE Refused(j) \/ NoAnswer(j) \/ Reject(j) \/ Broken(j)
      BY <3>1, <3>6, BecomesWellFormed DEF Refused, NoAnswer, Reject, Broken, Ended
    <3>7. CASE EndView(j) \/ Leave(j)
      BY <3>1, <3>7, BecomesWellFormed DEF EndView, Leave, Ended
    <3>8. CASE Send(j)
      <4> DEFINE s == [r EXCEPT !.at = "request", !.timer = TRUE, !.made = 1]
      <4>1. 1 \in 0 .. MaxRequests
        BY RemoteImagesAssumption
      <4>2. s \in Fetches /\ s.at = "request" /\ s.url \in URLs
        BY <3>1, <3>8, <4>1 DEF Send, Fetches
      <4> QED
        BY <3>8, <4>2, BecomesWellFormed DEF Send
    <3>9. CASE CheckRedirect(j)
      <4> DEFINE target == web[r.url].to
                 s == [r EXCEPT !.url = target, !.made = @ + 1]
      <4>1. CASE r.made < MaxRequests /\ target \in URLs \ Gated
        <5>1. r.made \in 0 .. MaxRequests
          BY <3>1 DEF Fetches
        <5>2. r.made + 1 \in 0 .. MaxRequests
          BY <4>1, <5>1, RemoteImagesAssumption
        <5> HIDE DEF target
        <5>3. s \in Fetches /\ s.at = "request" /\ s.url \in URLs
          BY <3>1, <3>9, <4>1, <5>2 DEF CheckRedirect, Fetches
        <5> USE DEF target
        <5> QED
          BY <3>9, <4>1, <5>3, BecomesWellFormed DEF CheckRedirect
      <4>2. CASE ~(r.made < MaxRequests /\ target \in URLs \ Gated)
        BY <3>1, <3>9, <4>2, BecomesWellFormed DEF CheckRedirect, Ended
      <4> QED
        BY <4>1, <4>2
    <3>10. CASE Answer(j)
      <4> DEFINE s == [r EXCEPT !.at = "answered", !.conn = TRUE]
      <4>1. s \in Fetches /\ s.at = "answered" /\ s.url \in URLs
        BY <3>1, <3>2, <3>10 DEF Answer, Fetches
      <4> QED
        BY <3>10, <4>1, BecomesWellFormed DEF Answer
    <3>11. CASE Accept(j)
      <4> DEFINE s == [r EXCEPT !.at = "reading"]
      <4>1. s \in Fetches /\ s.at = "reading" /\ s.url \in URLs
        BY <3>1, <3>2, <3>11 DEF Accept, Fetches
      <4> QED
        BY <3>11, <4>1, BecomesWellFormed DEF Accept
    <3>12. CASE Read(j)
      <4> DEFINE s == [r EXCEPT !.got = @ + 1]
      <4>1. web[r.url].size \in Nat
        BY <3>2, <3>12, RemoteImagesAssumption DEF Read, TypeOK, Answers
      <4>2. r.got \in 0 .. MaxBytes /\ r.got < Limit(r.url)
        BY <3>1, <3>12 DEF Read, Fetches
      <4>3. r.got + 1 \in 0 .. MaxBytes
        BY <4>1, <4>2, RemoteImagesAssumption DEF Limit
      <4>4. s \in Fetches /\ s.at = "reading" /\ s.url \in URLs
        BY <3>1, <3>2, <3>12, <4>3 DEF Read, Fetches
      <4> QED
        BY <3>12, <4>4, BecomesWellFormed DEF Read
    <3>13. CASE Expire(j)
      <4> DEFINE s == [r EXCEPT !.timer = FALSE, !.conn = FALSE]
      <4>1. /\ s \in Fetches
            /\ IF s.at \in {"idle", "next", "gate"} THEN ~s.timer /\ ~s.conn ELSE s.url \in URLs
        BY <3>1, <3>2 DEF Fetches
      <4> QED
        BY <3>13, <4>1, BecomesWellFormed DEF Expire
    <3>14. CASE EndIcon(j)
      <4>1. CASE UNCHANGED favicon
        BY <3>1, <3>14, <4>1, BecomesWellFormed DEF EndIcon, Ended
      <4>2. CASE ~UNCHANGED favicon
        <5>1. /\ Becomes(j, Idle)
              /\ favicon'.url = r.url /\ favicon'.png \in downsize(web[r.url])
          BY <3>14, <4>2 DEF EndIcon
        <5>2. r.url \in URLs
          BY <3>2, <3>14 DEF EndIcon, AtEnd
        <5>3. favicon'.url \in URLs
              /\ favicon'.png \in ((1 .. 32) \X (1 .. 32)) \cup {NoRef}
          BY <5>1, <5>2, DownsizeFits
        <5> QED
          BY <3>1, <5>1, <5>3 DEF Becomes, TypeOK, Ended
      <4> QED
        BY <4>1, <4>2
    <3> QED
      BY <2>3, <3>3, <3>4, <3>5, <3>6, <3>7, <3>8, <3>9, <3>10,
         <3>11, <3>12, <3>13, <3>14 DEF Fetch
  <2> QED
    BY <2>1, <2>2, <2>3 DEF Next
<1>3. QED
  BY <1>1, <1>2, FrameLocal, PTL DEF Spec
\* An image of any size is stored with 1 to 32 pixels either way, unless it could not
\* be decoded.
THEOREM IconsAreSmall == Spec => []IconFits
<1>1. Init => IconFits
  BY DEF Init, IconFits
<1>2. TypeOK /\ IconFits /\ [Next]_vars => IconFits'
  <2> SUFFICES ASSUME TypeOK, IconFits, [Next]_vars PROVE IconFits'
    OBVIOUS
  <2>1. web' = web
    BY DEF Next, vars, handleArticleFrame, handleImageProxy, fetchFaviconIfMissing, Next1,
           Fetch, Refused, Send, CheckRedirect, NoAnswer, Answer, Reject, Accept, Read,
           EndView, EndIcon, Broken, Expire, Leave, Becomes
  <2>2. CASE UNCHANGED favicon
    BY <2>1, <2>2 DEF IconFits
  <2>3. ASSUME NEW j \in Jobs, EndIcon(j), ~ UNCHANGED favicon
        PROVE  IconFits'
    <3>1. job[j].url \in URLs
      BY <2>3 DEF EndIcon, AtEnd, TypeOK
    <3>2. PICK png \in downsize(web[job[j].url]) :
             favicon' = [url |-> job[j].url, png |-> png,
                         named |-> job[j].named, missed |-> job[j].missed]
      BY <2>3 DEF EndIcon
    <3>3. favicon'.url = job[j].url /\ favicon'.png = png
      BY <3>2
    <3> QED
      BY <2>1, <3>1, <3>3, RawIsUndecoded DEF IconFits
  <2>4. UNCHANGED favicon \/ \E j \in Jobs : EndIcon(j)
    BY DEF Next, vars, handleArticleFrame, handleImageProxy, fetchFaviconIfMissing, Next1,
           Fetch, Refused, Send, CheckRedirect, NoAnswer, Answer, Reject, Accept, Read,
           EndView, Broken, Expire, Leave, Becomes
  <2> QED
    BY <2>2, <2>3, <2>4
<1> QED
  BY <1>1, <1>2, TypeCorrect, PTL DEF Spec

--------------------------------------------------------------------------------
(* Where the requests for a URL end. *)

\* Induction over a set of numbers.
LEMMA UpToBound ==
    ASSUME NEW N \in Nat, NEW S \in SUBSET Nat, 0 \in S, \A n \in S : n < N => n + 1 \in S
    PROVE  0 .. N \subseteq S
<1> DEFINE less == OpToRel(<, Nat)
           bad == {n \in 0 .. N : n \notin S}
<1>1. IsWellFoundedOn(less, Nat)
  BY NatLessThanWellFounded
<1>2. \A x, y \in Nat : y < x => <<y, x>> \in less
  BY DEF OpToRel
<1> HIDE DEF less
<1>3. SUFFICES ASSUME bad # {} PROVE FALSE
  OBVIOUS
<1>4. PICK x \in bad : \A y \in bad : ~ (<<y, x>> \in less)
  <2>1. bad \in SUBSET Nat
    OBVIOUS
  <2> HIDE DEF bad
  <2> QED
    BY <1>1, <1>3, <2>1, WFMin
<1>5. x # 0 /\ x - 1 \in Nat /\ x - 1 < x /\ x \in Nat /\ x - 1 < N
  BY <1>4
<1>6. x - 1 \notin bad
  <2>1. <<x - 1, x>> \in less
    BY <1>2, <1>5
  <2> HIDE DEF bad
  <2> QED
    BY <1>4, <2>1
<1>7. x - 1 \in S /\ x - 1 + 1 \in S
  BY <1>5, <1>6
<1> QED
  BY <1>4, <1>5, <1>7

Sendable(v) == IF v \in URLs \ Gated THEN v ELSE NoRef

\* The definition of Way, unrolled.
LEMMA WaySteps ==
    ASSUME NEW u
    PROVE  /\ Way(u)[1] = Sendable(u)
           /\ \A n \in 2 .. MaxRequests :
                  Way(u)[n] = IF Way(u)[n-1] # NoRef /\ web[Way(u)[n-1]].kind = "redirect"
                              THEN Sendable(web[Way(u)[n-1]].to) ELSE NoRef
<1> DEFINE Step(r, n) ==
               LET v == IF n = 1 THEN u
                        ELSE IF r[n-1] # NoRef /\ web[r[n-1]].kind = "redirect"
                             THEN web[r[n-1]].to ELSE NoRef
               IN  IF v \in URLs \ Gated THEN v ELSE NoRef
           Upto(n) == \E r : r = [i \in 1 .. n |-> Step(r, i)]
           S == {n \in Nat : Upto(n)}
<1>1. MaxRequests \in Nat \ {0}
  BY RemoteImagesAssumption
<1>2. Upto(0)
  <2> DEFINE r == [i \in 1 .. 0 |-> u]
  <2>1. r = [i \in 1 .. 0 |-> Step(r, i)]
    OBVIOUS
  <2> QED
    BY <2>1
<1>3. ASSUME NEW n \in Nat, Upto(n) PROVE Upto(n + 1)
  <2>1. PICK r : r = [i \in 1 .. n |-> Step(r, i)]
    BY <1>3
  <2> DEFINE h == [i \in 1 .. (n + 1) |-> IF i <= n THEN r[i] ELSE Step(r, i)]
  <2>2. ASSUME NEW i \in 1 .. (n + 1) PROVE h[i] = Step(h, i)
    <3>1. i # 1 => h[i - 1] = r[i - 1]
      OBVIOUS
    <3>2. Step(h, i) = Step(r, i)
      <4> HIDE DEF h
      <4>1. CASE i = 1
        BY <4>1
      <4>2. CASE i # 1
        <5>1. h[i - 1] = r[i - 1]
          BY <3>1, <4>2
        <5>2. ASSUME NEW x, NEW y, x[i - 1] = y[i - 1] PROVE Step(x, i) = Step(y, i)
          BY <5>2
        <5> HIDE DEF Step
        <5> QED
          BY <5>1, <5>2
      <4> QED
        BY <4>1, <4>2
    <3>3. i <= n => r[i] = Step(r, i)
      <4>1. ASSUME NEW j \in 1 .. n PROVE r[j] = Step(r, j)
        <5> HIDE DEF Step
        <5> QED
          BY <2>1
      <4> QED
        BY <4>1
    <3> QED
      BY <3>2, <3>3
  <2>3. h = [i \in 1 .. (n + 1) |-> Step(h, i)]
    <3>1. h = [i \in 1 .. (n + 1) |-> h[i]]
      OBVIOUS
    <3> HIDE DEF h, Step
    <3> QED
      BY <2>2, <3>1
  <2> HIDE DEF h, Step
  <2> QED
    BY <2>3
<1>4. Upto(MaxRequests)
  <2> HIDE DEF Upto
  <2>1. S \in SUBSET Nat /\ 0 \in S /\ \A n \in S : n < MaxRequests => n + 1 \in S
    BY <1>2, <1>3
  <2>2. 0 .. MaxRequests \subseteq S
    <3> HIDE DEF S
    <3> QED
      BY <1>1, <2>1, UpToBound
  <2> QED
    BY <1>1, <2>2
<1>5. Way(u) = CHOOSE r : r = [i \in 1 .. MaxRequests |-> Step(r, i)]
  BY DEF Way
<1>6. Way(u) = [i \in 1 .. MaxRequests |-> Step(Way(u), i)]
  <2> HIDE DEF Step
  <2> QED
    BY <1>4, <1>5
<1>7. \A i \in 1 .. MaxRequests : Way(u)[i] = Step(Way(u), i)
  <2> HIDE DEF Step
  <2> QED
    BY <1>6
<1>8. NoRef \notin URLs
  BY RemoteImagesAssumption
<1> QED
  BY <1>1, <1>7, <1>8 DEF Sendable

\* On the way to a URL that is asked there are redirects only.
LEMMA RedirectsOnly ==
    ASSUME NEW u, NEW n \in 1 .. MaxRequests, Way(u)[n] # NoRef, NEW m \in 1 .. n, m # n
    PROVE  Way(u)[m] # NoRef /\ web[Way(u)[m]].kind = "redirect"
<1> DEFINE S == {k \in Nat : k < n => Way(u)[n - k] # NoRef}
<1>1. n \in Nat /\ MaxRequests \in Nat /\ n <= MaxRequests /\ n - 1 \in Nat
  BY RemoteImagesAssumption
<1>2. \A k \in 2 .. n : Way(u)[k] # NoRef =>
          Way(u)[k - 1] # NoRef /\ web[Way(u)[k - 1]].kind = "redirect"
  BY <1>1, WaySteps
<1>3. 0 .. (n - 1) \subseteq S
  <2>1. 0 \in S
    BY <1>1
  <2>2. ASSUME NEW k \in S, k < n - 1 PROVE k + 1 \in S
    <3>1. n - k \in 2 .. n /\ n - k - 1 = n - (k + 1)
      BY <1>1, <2>2
    <3>2. Way(u)[n - k - 1] # NoRef
      BY <1>2, <2>2, <3>1
    <3> QED
      BY <3>1, <3>2
  <2>3. S \in SUBSET Nat
    OBVIOUS
  <2> HIDE DEF S
  <2> QED
    BY <1>1, <2>1, <2>2, <2>3, UpToBound
<1>4. n - (m + 1) \in 0 .. (n - 1) /\ n - (n - (m + 1)) = m + 1 /\ m + 1 \in 2 .. n /\ m + 1 - 1 = m
  BY <1>1
<1>5. Way(u)[m + 1] # NoRef
  BY <1>3, <1>4
<1> QED
  BY <1>2, <1>4, <1>5

Ends(u) == {Way(u)[n] : n \in {m \in 1 .. MaxRequests :
                                 Way(u)[m] # NoRef /\ web[Way(u)[m]].kind = "ok"}}

\* An answer that is no redirect is where the way ends.
LEMMA SourceIs ==
    ASSUME NEW u, NEW n \in 1 .. MaxRequests, Way(u)[n] # NoRef, web[Way(u)[n]].kind # "redirect"
    PROVE  Source(u) = IF web[Way(u)[n]].kind = "ok" /\ web[Way(u)[n]].size > 0
                       THEN Way(u)[n] ELSE NoRef
<1>1. n \in Nat /\ MaxRequests \in Nat
  BY RemoteImagesAssumption
<1>2. ASSUME NEW m \in 1 .. MaxRequests, Way(u)[m] # NoRef, web[Way(u)[m]].kind = "ok"
      PROVE  m = n
  <2>1. m \in 1 .. n \/ n \in 1 .. m
    BY <1>1
  <2> QED
    BY <1>2, <2>1, RedirectsOnly
<1>3. Ends(u) = IF web[Way(u)[n]].kind = "ok" THEN {Way(u)[n]} ELSE {}
  BY <1>2 DEF Ends
<1>4. Source(u) = IF \E v \in Ends(u) : web[v].size > 0 THEN CHOOSE v \in Ends(u) : TRUE ELSE NoRef
  BY DEF Source, Ends
<1> QED
  BY <1>3, <1>4

\* Nor does it lead anywhere when the next request is not sent.
LEMMA NoSource ==
    ASSUME NEW u, NEW n \in 1 .. MaxRequests, Way(u)[n] # NoRef, web[Way(u)[n]].kind = "redirect",
           n = MaxRequests \/ web[Way(u)[n]].to \notin URLs \ Gated
    PROVE  Source(u) = NoRef
<1>1. n \in Nat /\ MaxRequests \in Nat
  BY RemoteImagesAssumption
<1>2. ASSUME NEW m \in 1 .. MaxRequests, Way(u)[m] # NoRef, web[Way(u)[m]].kind = "ok"
      PROVE  FALSE
  <2>1. CASE m = n
    BY <1>2, <2>1
  <2>2. CASE m < n
    <3>1. m \in 1 .. n
      BY <1>1, <2>2
    <3> QED
      BY <1>2, <2>2, <3>1, RedirectsOnly
  <2>3. CASE m > n
    <3>1. PICK k : k = n + 1
      OBVIOUS
    <3>2. k \in 2 .. MaxRequests /\ k - 1 = n /\ n # MaxRequests /\ k \in 1 .. m
      BY <1>1, <2>3, <3>1
    <3>3. Way(u)[k] = Sendable(web[Way(u)[k-1]].to)
      BY <3>2, WaySteps
    <3>4. Way(u)[k] = NoRef
      BY <3>2, <3>3 DEF Sendable
    <3> QED
      BY <1>2, <3>2, <3>4, RedirectsOnly
  <2> QED
    BY <1>1, <2>1, <2>2, <2>3
<1>3. Ends(u) = {}
  BY <1>2 DEF Ends
<1>4. Source(u) = IF \E v \in Ends(u) : web[v].size > 0 THEN CHOOSE v \in Ends(u) : TRUE ELSE NoRef
  BY DEF Source, Ends
<1> QED
  BY <1>3, <1>4

\* Or the first one.
LEMMA NotSent ==
    ASSUME NEW u, u \notin URLs \ Gated
    PROVE  Source(u) = NoRef
<1>1. MaxRequests \in Nat \ {0} /\ Way(u)[1] = NoRef
  BY RemoteImagesAssumption, WaySteps DEF Sendable
<1>2. ASSUME NEW m \in 1 .. MaxRequests, Way(u)[m] # NoRef PROVE FALSE
  <2>1. m # 1 /\ 1 \in 1 .. m
    BY <1>1, <1>2
  <2> QED
    BY <1>1, <1>2, <2>1, RedirectsOnly
<1>3. Ends(u) = {}
  BY <1>2 DEF Ends
<1>4. Source(u) = IF \E v \in Ends(u) : web[v].size > 0 THEN CHOOSE v \in Ends(u) : TRUE ELSE NoRef
  BY DEF Source, Ends
<1> QED
  BY <1>3, <1>4

--------------------------------------------------------------------------------
(* The icon.                                                                    *)

\* What the document names is missing, or was not had.
Lost(r) == r.named \in r.missed \cup {NoRef} \/ Source(r.named) = NoRef

\* An icon's fetch has tried what the document names before it tries the fallback,
\* and is where the requests for its candidate lead.
Tracked(r) ==
    /\ r.at \in {"next", "gate", "request", "answered", "reading"}
    /\ r.at = "next" => \/ r.rest = candidates(r.named)
                        \/ Lost(r) /\ r.rest \in {Try(Fallback), <<>>}
    /\ r.at # "next" => \/ r.named # NoRef /\ r.origin = r.named /\ r.rest = Try(Fallback)
                        \/ Lost(r) /\ r.origin = Fallback /\ r.rest = <<>>
    /\ r.at = "gate" => r.url = r.origin
    /\ r.at \in {"request", "answered", "reading"} =>
           r.made \in 1 .. MaxRequests /\ Way(r.origin)[r.made] = r.url
    /\ r.at = "answered" => web[r.url].kind # "redirect"
    /\ r.at = "reading" => web[r.url].kind = "ok"

IconInv == \A j \in Jobs : job[j].kind = "icon" => Tracked(job[j])

LEMMA TrackedStays ==
    ASSUME UNCHANGED web, NEW r
    PROVE  Tracked(r)' <=> Tracked(r)
<1>1. \A u : Way(u)' = Way(u)
  BY DEF Way
<1>2. \A u : Source(u)' = Source(u)
  BY DEF Source, Way
<1> QED
  BY <1>1, <1>2 DEF Tracked, Lost

LEMMA BecomesTracked ==
    ASSUME TypeOK, IconInv, NEW j \in Jobs, NEW r, Becomes(j, r), r.kind = "icon" => Tracked(r)
    PROVE  IconInv'
<1>1. UNCHANGED web /\ job' = [job EXCEPT ![j] = r] /\ DOMAIN job = Jobs
  BY DEF Becomes, TypeOK
<1>2. ASSUME NEW k \in Jobs, job'[k].kind = "icon" PROVE Tracked(job[k])'
  <2>1. PICK x : x = job'[k]
    OBVIOUS
  <2>2. Tracked(x)
    BY <1>1, <1>2, <2>1 DEF IconInv
  <2>3. Tracked(x)'
    BY <1>1, <2>2, TrackedStays
  <2> QED
    BY <2>1, <2>3
<1> QED
  BY <1>2 DEF IconInv

\* A candidate that is fetched is the one the document names, or the fallback.
LEMMA TriedFirst ==
    ASSUME NEW r \in Fetches, Tracked(r), r.at # "next"
    PROVE  r.origin = r.named \/ (Lost(r) /\ r.origin = Fallback)
BY DEF Tracked

\* A candidate that is given up has no source, or was missed.
LEMMA GivenUp ==
    ASSUME NEW r \in Fetches, r.kind = "icon" => Tracked(r) /\ r.at # "next"
    PROVE  /\ (r.kind = "icon" => Source(r.origin) = NoRef)
              => (Failed(r).kind = "icon" => Tracked(Failed(r)))
           /\ Missed(r).kind = "icon" => Tracked(Missed(r))
<1>1. Idle.kind = "view" /\ r.kind \in {"view", "icon"}
  BY DEF Idle, Fetches
<1>2. CASE r.kind = "view"
  <2>1. [r EXCEPT !.missed = @ \cup {r.origin}].kind = "view"
    BY <1>2 DEF Fetches
  <2> QED
    BY <1>1, <1>2, <2>1 DEF Failed, Missed
<1>3. CASE r.kind = "icon"
  <2>1. \/ r.named # NoRef /\ r.origin = r.named /\ r.rest = Try(Fallback)
        \/ Lost(r) /\ r.origin = Fallback /\ r.rest = <<>>
    BY <1>3 DEF Tracked
  <2>2. ASSUME NEW x \in Fetches, x.kind = "icon", x.named = r.named, x.rest = r.rest,
               r.missed \subseteq x.missed,
               r.origin \in x.missed \/ Source(r.origin) = NoRef
        PROVE  Tracked(Failed(x))
    <3> DEFINE y == Failed(x)
    <3>1. y.at = "next" /\ y.named = r.named /\ y.rest = r.rest /\ y.missed = x.missed
      BY <2>2 DEF Failed, Released, Fetches
    <3>2. Lost(y)
      BY <2>1, <2>2, <3>1 DEF Lost
    <3> HIDE DEF y
    <3>3. Tracked(y)
      BY <2>1, <3>1, <3>2 DEF Tracked
    <3> QED
      BY <3>3 DEF y
  <2>3. Source(r.origin) = NoRef => Tracked(Failed(r))
    BY <1>3, <2>2
  <2>4. Tracked(Missed(r))
    <3> DEFINE x == [r EXCEPT !.missed = @ \cup {r.origin}]
    <3>1. x \in Fetches /\ x.kind = "icon" /\ x.named = r.named /\ x.rest = r.rest
          /\ x.missed = r.missed \cup {r.origin}
      BY <1>3 DEF Fetches
    <3> HIDE DEF x
    <3>2. Tracked(Failed(x))
      BY <2>2, <3>1
    <3> QED
      BY <3>2 DEF Missed, x
  <2> QED
    BY <1>3, <2>3, <2>4
<1> QED
  BY <1>1, <1>2, <1>3

LEMMA CandidatesAre ==
    ASSUME NEW named \in URLs
    PROVE  /\ candidates(named) # <<>> /\ Head(candidates(named)) = named
           /\ Tail(candidates(named)) = Try(Fallback)
           /\ Fallback # NoRef => /\ Try(Fallback) # <<>> /\ Head(Try(Fallback)) = Fallback
                                  /\ Tail(Try(Fallback)) = <<>>
           /\ Fallback = NoRef => Try(Fallback) = <<>>
<1>1. named # NoRef /\ Fallback \in URLs \cup {NoRef}
  BY RemoteImagesAssumption
<1>2. Try(Fallback) = IF Fallback = NoRef THEN <<>> ELSE <<Fallback>>
  BY DEF Try
<1>3. candidates(named) = <<named>> \o Try(Fallback)
  BY <1>1 DEF candidates, Try
<1>4. CASE Fallback = NoRef
  <2>1. candidates(named) = <<named>> /\ Try(Fallback) = <<>>
    BY <1>2, <1>3, <1>4
  <2>2. <<named>> # <<>> /\ Head(<<named>>) = named /\ Tail(<<named>>) = <<>>
    OBVIOUS
  <2> QED
    BY <1>4, <2>1, <2>2
<1>5. CASE Fallback # NoRef
  <2>1. Fallback \in URLs /\ Try(Fallback) = <<Fallback>>
    BY <1>1, <1>2, <1>5
  <2>2. PICK s : s = <<named>> \o <<Fallback>>
    OBVIOUS
  <2>3. s # <<>> /\ Head(s) = named /\ Tail(s) = <<Fallback>>
    <3>1. s \in Seq(URLs) /\ Len(s) = 2 /\ s[1] = named /\ s[2] = Fallback
      BY <2>1, <2>2
    <3>2. s # <<>> /\ Head(s) = named
      BY <3>1
    <3>3. Tail(s) \in Seq(URLs) /\ Len(Tail(s)) = 1 /\ Tail(s)[1] = Fallback
      BY <3>1, <3>2, HeadTailProperties
    <3>4. <<Fallback>> \in Seq(URLs) /\ Len(<<Fallback>>) = 1 /\ <<Fallback>>[1] = Fallback
      BY <2>1
    <3>5. \A i \in 1 .. Len(Tail(s)) : Tail(s)[i] = <<Fallback>>[i]
      <4>1. \A i \in 1 .. 1 : i = 1
        OBVIOUS
      <4> QED
        BY <3>3, <3>4, <4>1
    <3>6. Tail(s) = <<Fallback>>
      BY <3>3, <3>4, <3>5, SeqEqual
    <3> QED
      BY <3>2, <3>6
  <2>4. <<Fallback>> # <<>> /\ Head(<<Fallback>>) = Fallback /\ Tail(<<Fallback>>) = <<>>
    BY <2>1
  <2> QED
    BY <1>3, <1>5, <2>1, <2>2, <2>3, <2>4
<1> QED
  BY <1>4, <1>5

LEMMA IconKept ==
    ASSUME UNCHANGED <<web, favicon>>, FaviconByPriority
    PROVE  FaviconByPriority'
<1>1. \A u : Source(u)' = Source(u)
  BY DEF Source, Way
<1> QED
  BY <1>1 DEF FaviconByPriority

\* What is read to its end, and is not empty, comes from the candidate's source.
LEMMA ReadIsSource ==
    ASSUME TypeOK, IconInv, NEW j \in Jobs, AtEnd(j), job[j].kind = "icon"
    PROVE  IF job[j].got = 0 THEN Source(job[j].origin) = NoRef
                             ELSE Source(job[j].origin) = job[j].url
<1> DEFINE r == job[j]
<1>1. r \in Fetches /\ Tracked(r) /\ r.at = "reading" /\ r.got = Limit(r.url) /\ r.url \in URLs
  BY DEF TypeOK, IconInv, AtEnd
<1>2. web[r.url].size \in Nat
  BY <1>1, RemoteImagesAssumption DEF TypeOK, Answers
<1>3. r.got = 0 <=> ~ (web[r.url].size > 0)
  BY <1>1, <1>2, RemoteImagesAssumption DEF Limit
<1>4. r.made \in 1 .. MaxRequests /\ Way(r.origin)[r.made] = r.url /\ web[r.url].kind = "ok"
  BY <1>1 DEF Tracked
<1>5. r.url # NoRef
  BY <1>1, RemoteImagesAssumption
<1> HIDE DEF r
<1>6. Source(r.origin) = IF web[r.url].size > 0 THEN r.url ELSE NoRef
  BY <1>4, <1>5, SourceIs
<1> QED
  BY <1>3, <1>6 DEF r

LEMMA IconStep ==
    ASSUME TypeOK, IconInv, FaviconByPriority, [Next]_vars
    PROVE  IconInv' /\ FaviconByPriority'
<1>1. CASE handleArticleFrame \/ UNCHANGED vars
  <2>1. UNCHANGED <<web, job, favicon>>
    BY <1>1 DEF handleArticleFrame, vars
  <2>2. \A j \in Jobs : Tracked(job[j])' <=> Tracked(job[j])
    <3>1. \A u : Way(u)' = Way(u) /\ Source(u)' = Source(u)
      BY <2>1 DEF Way, Source
    <3> QED
      BY <2>1, <3>1 DEF Tracked, Lost
  <2> QED
    BY <2>1, <2>2, IconKept DEF IconInv
<1>2. ASSUME NEW j \in Jobs,
             \/ handleImageProxy(j) \/ fetchFaviconIfMissing(j) \/ Next1(j)
             \/ Fetch(j) \/ Expire(j) \/ Leave(j)
      PROVE  IconInv' /\ FaviconByPriority'
  <2> DEFINE r == job[j]
  <2>1. r \in Fetches /\ (r.kind = "icon" => Tracked(r)) /\ Idle.kind = "view"
    BY DEF TypeOK, IconInv, Idle
  <2>2. r.at \notin {"idle", "next", "gate"} => r.url \in URLs /\ r.url # NoRef
    BY RemoteImagesAssumption DEF TypeOK
  \* One step of j that leaves the icon alone.
  <2>3. ASSUME NEW s, Becomes(j, s), UNCHANGED favicon, s.kind = "icon" => Tracked(s)
        PROVE  IconInv' /\ FaviconByPriority'
    BY <2>3, BecomesTracked, IconKept DEF Becomes
  <2>4. ASSUME Becomes(j, Failed(r)), UNCHANGED favicon, r.at # "next",
               r.kind = "icon" => Source(r.origin) = NoRef
        PROVE  IconInv' /\ FaviconByPriority'
    BY <2>1, <2>3, <2>4, GivenUp
  <2>5. ASSUME Becomes(j, Missed(r)), UNCHANGED favicon, r.at # "next"
        PROVE  IconInv' /\ FaviconByPriority'
    BY <2>1, <2>3, <2>5, GivenUp
  <2>6. CASE handleImageProxy(j)
    <3>1. PICK e \in shown : Becomes(j, [Idle EXCEPT !.at = "gate", !.url = e.ref[2]])
      BY <2>6 DEF handleImageProxy
    <3>2. [Idle EXCEPT !.at = "gate", !.url = e.ref[2]].kind = "view"
      BY DEF Idle
    <3> QED
      BY <2>3, <2>6, <3>1, <3>2 DEF handleImageProxy
  <2>7. CASE fetchFaviconIfMissing(j)
    <3>1. PICK named \in Icons :
             Becomes(j, [Idle EXCEPT !.at = "next", !.kind = "icon", !.named = named,
                                     !.rest = candidates(named)])
      BY <2>7 DEF fetchFaviconIfMissing
    <3> DEFINE s == [Idle EXCEPT !.at = "next", !.kind = "icon", !.named = named,
                                 !.rest = candidates(named)]
    <3>2. s.at = "next" /\ s.named = named /\ s.rest = candidates(named)
      BY DEF Idle
    <3> HIDE DEF s
    <3>3. Tracked(s)
      BY <3>2 DEF Tracked
    <3> QED
      BY <2>3, <2>7, <3>1, <3>3 DEF fetchFaviconIfMissing, s
  <2>8. CASE Next1(j)
    <3>1. CASE r.rest = <<>>
      BY <2>1, <2>3, <2>8, <3>1 DEF Next1
    <3>2. CASE r.rest # <<>>
      <4> DEFINE s == [r EXCEPT !.at = "gate", !.url = Head(r.rest),
                                !.origin = Head(r.rest), !.rest = Tail(r.rest)]
      <4>1. /\ s.kind = r.kind /\ s.at = "gate" /\ s.url = Head(r.rest) /\ s.origin = Head(r.rest)
            /\ s.rest = Tail(r.rest) /\ s.named = r.named /\ s.missed = r.missed
        BY <2>1 DEF Fetches
      <4>2. Becomes(j, s) /\ UNCHANGED favicon /\ r.at = "next"
        BY <2>8, <3>2 DEF Next1
      <4> HIDE DEF s
      <4>3. ASSUME r.kind = "icon" PROVE Tracked(s)
        <5>1. r.named \in URLs \cup {NoRef} /\ NoRef \notin URLs /\ Fallback \in URLs \cup {NoRef}
          BY <2>1, RemoteImagesAssumption DEF Fetches
        <5>2. \/ r.named # NoRef /\ r.rest = candidates(r.named)
              \/ Lost(r) /\ r.rest = Try(Fallback)
          <6>1. \/ r.rest = candidates(r.named)
                \/ Lost(r) /\ r.rest = Try(Fallback)
            BY <2>1, <3>2, <4>2, <4>3 DEF Tracked
          <6>2. CASE r.named = NoRef /\ r.rest = candidates(r.named)
            <7>1. candidates(NoRef) = Try(Fallback)
              <8>1. Try(NoRef) = <<>> /\ Try(Fallback) \in Seq(URLs)
                BY <5>1 DEF Try
              <8> QED
                BY <8>1 DEF candidates
            <7> QED
              BY <6>2, <7>1 DEF Lost
          <6> QED
            BY <6>1, <6>2
        <5>3. CASE r.named # NoRef /\ r.rest = candidates(r.named)
          <6>1. s.origin = s.named /\ s.rest = Try(Fallback) /\ s.named # NoRef
            BY <4>1, <5>1, <5>3, CandidatesAre
          <6> QED
            BY <4>1, <6>1 DEF Tracked
        <5>4. CASE Lost(r) /\ r.rest = Try(Fallback)
          <6>1. s.origin = Fallback /\ s.rest = <<>>
            BY <3>2, <4>1, <5>4, CandidatesAre, RemoteImagesAssumption
          <6>2. Lost(s)
            BY <4>1, <5>4 DEF Lost
          <6> QED
            BY <4>1, <6>1, <6>2 DEF Tracked
        <5> QED
          BY <5>2, <5>3, <5>4
      <4> QED
        BY <2>3, <4>1, <4>2, <4>3
    <3> QED
      BY <3>1, <3>2
  <2>9. CASE Refused(j)
    <3>1. r.at = "gate" /\ r.url \notin URLs \ Gated /\ Becomes(j, Failed(r)) /\ UNCHANGED favicon
      BY <2>9 DEF Refused
    <3>2. r.kind = "icon" => Source(r.origin) = NoRef
      BY <2>1, <3>1, NotSent DEF Tracked
    <3> QED
      BY <2>4, <3>1, <3>2
  <2>10. CASE Send(j)
    <3> DEFINE s == [r EXCEPT !.at = "request", !.timer = TRUE, !.made = 1]
    <3>1. /\ s.kind = r.kind /\ s.at = "request" /\ s.url = r.url /\ s.origin = r.origin
          /\ s.rest = r.rest /\ s.named = r.named /\ s.missed = r.missed /\ s.made = 1
      BY <2>1 DEF Fetches
    <3>2. Becomes(j, s) /\ UNCHANGED favicon /\ r.at = "gate" /\ r.url \in URLs \ Gated
      BY <2>10 DEF Send
    <3> HIDE DEF s
    <3>3. ASSUME r.kind = "icon" PROVE Tracked(s)
      <4>1. Way(r.origin)[1] = r.url /\ 1 \in 1 .. MaxRequests
        BY <2>1, <3>2, <3>3, WaySteps, RemoteImagesAssumption DEF Tracked, Sendable
      <4> QED
        BY <2>1, <3>1, <3>2, <3>3, <4>1 DEF Tracked, Lost
    <3> QED
      BY <2>3, <3>1, <3>2, <3>3
  <2>11. CASE CheckRedirect(j)
    <3> DEFINE target == web[r.url].to
               s == [r EXCEPT !.url = target, !.made = @ + 1]
    <3>1. r.at = "request" /\ web[r.url].kind = "redirect" /\ UNCHANGED favicon /\ r.made \in Nat
          /\ MaxRequests \in Nat
      BY <2>1, <2>11, RemoteImagesAssumption DEF CheckRedirect, Fetches
    <3>2. CASE r.made < MaxRequests /\ target \in URLs \ Gated
      <4>1. Becomes(j, s)
        BY <2>11, <3>2 DEF CheckRedirect
      <4>2. /\ s.kind = r.kind /\ s.at = "request" /\ s.url = target /\ s.origin = r.origin
            /\ s.rest = r.rest /\ s.named = r.named /\ s.missed = r.missed /\ s.made = r.made + 1
        BY <2>1, <3>1 DEF Fetches
      <4> HIDE DEF s
      <4>3. ASSUME r.kind = "icon" PROVE Tracked(s)
        <5>1. r.made \in 1 .. MaxRequests /\ Way(r.origin)[r.made] = r.url /\ r.url # NoRef
          BY <2>1, <2>2, <3>1, <4>3 DEF Tracked
        <5>2. PICK n : n = r.made + 1
          OBVIOUS
        <5>3. n \in 2 .. MaxRequests /\ n - 1 = r.made /\ n \in 1 .. MaxRequests
          BY <3>1, <3>2, <5>1, <5>2
        <5>4. Way(r.origin)[n] = Sendable(web[Way(r.origin)[n-1]].to)
          BY <3>1, <5>1, <5>3, WaySteps
        <5>5. Way(r.origin)[n] = target
          BY <3>2, <5>1, <5>3, <5>4 DEF Sendable
        <5> QED
          BY <2>1, <3>1, <4>2, <4>3, <5>2, <5>3, <5>5 DEF Tracked, Lost
      <4> QED
        BY <2>3, <3>1, <4>1, <4>2, <4>3
    <3>3. CASE ~(r.made < MaxRequests /\ target \in URLs \ Gated)
      <4>1. Becomes(j, Failed(r))
        BY <2>11, <3>3 DEF CheckRedirect
      <4>2. ASSUME r.kind = "icon" PROVE Source(r.origin) = NoRef
        <5>1. r.made \in 1 .. MaxRequests /\ Way(r.origin)[r.made] = r.url /\ r.url # NoRef
          BY <2>1, <2>2, <3>1, <4>2 DEF Tracked
        <5>2. r.made = MaxRequests \/ target \notin URLs \ Gated
          BY <3>1, <3>3, <5>1
        <5> QED
          BY <3>1, <5>1, <5>2, NoSource
      <4> QED
        BY <2>4, <3>1, <4>1, <4>2
    <3> QED
      BY <3>2, <3>3
  <2>12. CASE NoAnswer(j) \/ Broken(j)
    BY <2>5, <2>12 DEF NoAnswer, Broken
  <2>13. CASE Answer(j)
    <3> DEFINE s == [r EXCEPT !.at = "answered", !.conn = TRUE]
    <3>1. /\ s.kind = r.kind /\ s.at = "answered" /\ s.url = r.url /\ s.origin = r.origin
          /\ s.rest = r.rest /\ s.named = r.named /\ s.missed = r.missed /\ s.made = r.made
      BY <2>1 DEF Fetches
    <3>2. Becomes(j, s) /\ UNCHANGED favicon /\ r.at = "request" /\ web[r.url].kind # "redirect"
      BY <2>13 DEF Answer
    <3> HIDE DEF s
    <3>3. r.kind = "icon" => Tracked(s)
      BY <2>1, <3>1, <3>2 DEF Tracked, Lost
    <3> QED
      BY <2>3, <3>1, <3>2, <3>3
  <2>14. CASE Reject(j)
    <3>1. r.at = "answered" /\ ~Acceptable(r) /\ Becomes(j, Failed(r)) /\ UNCHANGED favicon
      BY <2>14 DEF Reject
    <3>2. ASSUME r.kind = "icon" PROVE Source(r.origin) = NoRef
      <4>1. /\ r.made \in 1 .. MaxRequests /\ Way(r.origin)[r.made] = r.url /\ r.url # NoRef
            /\ web[r.url].kind # "redirect"
        BY <2>1, <2>2, <3>1, <3>2 DEF Tracked
      <4>2. web[r.url].kind # "ok"
        BY <3>1, <3>2 DEF Acceptable
      <4> HIDE DEF r
      <4> QED
        BY <4>1, <4>2, SourceIs
    <3> QED
      BY <2>4, <3>1, <3>2
  <2>15. CASE Accept(j)
    <3> DEFINE s == [r EXCEPT !.at = "reading"]
    <3>1. /\ s.kind = r.kind /\ s.at = "reading" /\ s.url = r.url /\ s.origin = r.origin
          /\ s.rest = r.rest /\ s.named = r.named /\ s.missed = r.missed /\ s.made = r.made
      BY <2>1 DEF Fetches
    <3>2. Becomes(j, s) /\ UNCHANGED favicon /\ r.at = "answered" /\ web[r.url].kind = "ok"
      BY <2>15 DEF Accept, Acceptable
    <3> HIDE DEF s
    <3>3. r.kind = "icon" => Tracked(s)
      BY <2>1, <3>1, <3>2 DEF Tracked, Lost
    <3> QED
      BY <2>3, <3>1, <3>2, <3>3
  <2>16. CASE Read(j) \/ Expire(j)
    <3>1. PICK s : /\ Becomes(j, s) /\ UNCHANGED favicon
                   /\ \/ s = [r EXCEPT !.got = @ + 1]
                      \/ s = [r EXCEPT !.timer = FALSE, !.conn = FALSE]
      BY <2>16 DEF Read, Expire
    <3>2. /\ s.kind = r.kind /\ s.at = r.at /\ s.url = r.url /\ s.origin = r.origin
          /\ s.rest = r.rest /\ s.named = r.named /\ s.missed = r.missed /\ s.made = r.made
      BY <2>1, <3>1 DEF Fetches
    <3>3. r.kind = "icon" => Tracked(s)
      BY <2>1, <3>2 DEF Tracked, Lost
    <3> QED
      BY <2>3, <3>1, <3>2, <3>3
  <2>17. CASE EndView(j) \/ Leave(j)
    BY <2>1, <2>3, <2>17 DEF EndView, Leave
  <2>18. CASE EndIcon(j)
    <3>1. AtEnd(j) /\ r.kind = "icon" /\ r.at = "reading"
      BY <2>18 DEF EndIcon, AtEnd
    <3>2. CASE r.got = 0
      <4>1. Becomes(j, Failed(r)) /\ UNCHANGED favicon
        BY <2>18, <3>2 DEF EndIcon
      <4>2. Source(r.origin) = NoRef
        BY <3>1, <3>2, ReadIsSource
      <4> QED
        BY <2>4, <3>1, <4>1, <4>2
    <3>3. CASE r.got # 0
      <4>1. Becomes(j, Idle) /\ UNCHANGED web
        BY <2>18, <3>3 DEF EndIcon, Becomes
      <4>2. IconInv'
        BY <2>1, <4>1, BecomesTracked
      <4>3. CASE UNCHANGED favicon
        BY <4>1, <4>2, <4>3, IconKept
      <4>4. CASE ~UNCHANGED favicon
        <5>1. PICK png : favicon' = [url |-> r.url, png |-> png, named |-> r.named, missed |-> r.missed]
          BY <2>18, <3>3, <4>4 DEF EndIcon
        <5>2. favicon'.url = r.url /\ favicon'.named = r.named /\ favicon'.missed = r.missed
          BY <5>1
        <5>3. Source(r.origin) = r.url
          BY <3>1, <3>3, ReadIsSource
        <5>4. r.origin = r.named \/ (Lost(r) /\ r.origin = Fallback)
          BY <2>1, <3>1, TriedFirst
        <5>5. \A u : Source(u)' = Source(u)
          BY <4>1 DEF Source, Way
        <5>6. FaviconByPriority'
          BY <5>2, <5>3, <5>4, <5>5 DEF FaviconByPriority, Lost
        <5> QED
          BY <4>2, <5>6
      <4> QED
        BY <4>3, <4>4
    <3> QED
      BY <3>2, <3>3
  <2> QED
    BY <1>2, <2>6, <2>7, <2>8, <2>9, <2>10, <2>11, <2>12, <2>13, <2>14, <2>15, <2>16, <2>17,
       <2>18 DEF Fetch
<1> QED
  BY <1>1, <1>2 DEF Next

\* The icon that is stored is the one that the document names, if it can be had, and
\* the site's own otherwise (docs/spec.md:172, favicon.go:72), for any web, whatever
\* fails or expires on the way and whoever fetches images at the same time.
THEOREM IconByPriority == Spec => []FaviconByPriority
<1>1. Init => IconInv /\ FaviconByPriority
  BY DEF Init, IconInv, FaviconByPriority, Idle
<1>2. TypeOK /\ IconInv /\ FaviconByPriority /\ [Next]_vars => IconInv' /\ FaviconByPriority'
  BY IconStep
<1>3. QED
  BY <1>1, <1>2, TypeCorrect, PTL DEF Spec
================================================================================
