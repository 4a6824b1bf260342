------------------------------ MODULE ArticleFrame ------------------------------
(***************************************************************************)
(* The way of an article's HTML into the sandboxed frame                   *)
(* (handleArticleFrame in handler.go, package sanitize): links are made    *)
(* absolute, then the HTML is sanitized, then the images are routed        *)
(* through the image proxy.                                                *)
(*                                                                         *)
(* A document is the set of its elements that refer to something, at any   *)
(* depth.  A reference is an absolute URL, a relative path, Unsafe         *)
(* (javascript:, data: ...), or the address of the image proxy for another *)
(* reference.                                                              *)
(***************************************************************************)
CONSTANTS
    URLs, Paths,
    NoRef,         \* no such attribute, or no URL
    Unsafe,
    Joined(_, _)   \* Joined(base, path): base.ResolveReference(path)

\* blank: the link opens in a tab of its own, without referrer.
Elements == [tag : {"a", "img", "script"}, srcset : BOOLEAN, blank : BOOLEAN,
             ref : URLs \cup Paths \cup {NoRef, Unsafe}]

\* The article's own link, the feed's site, the feed: the first absolute URL.
contentBaseURL(link, site, feed) ==
    IF link \in URLs THEN link
    ELSE IF site \in URLs THEN site
    ELSE IF feed \in URLs THEN feed ELSE NoRef

resolveURL(base, ref) ==
    IF base # NoRef /\ ref \in Paths THEN Joined(base, ref) ELSE ref

proxyImageURL(ref) == <<"proxy", ref>>

\* Each pass transforms the elements one by one.
RewriteLinkHrefs(document, base) ==
    {IF e.tag = "a" /\ e.ref # NoRef THEN [e EXCEPT !.ref = resolveURL(base, @)] ELSE e
       : e \in document}

\* The srcset would let the browser pass by the proxy.
RewriteImageSrcs(document, base) ==
    {IF e.tag = "img" THEN [e EXCEPT !.srcset = FALSE,
                                     !.ref = IF @ = NoRef THEN @
                                             ELSE proxyImageURL(resolveURL(base, @))]
     ELSE e : e \in document}

\* The policy: no scripts, no unsafe references, own tabs for absolute links.
HTML(document) ==
    {[e EXCEPT !.blank = e.tag = "a" /\ e.ref \in URLs]
       : e \in {d \in document : d.tag # "script" /\ d.ref \notin {NoRef, Unsafe}}}

\* Mutant: sanitized first, so that links that become absolute later are missed.
FrameSanitizedFirst(content, base) ==
    RewriteImageSrcs(RewriteLinkHrefs(HTML(content), base), base)

Frame(content, base) == RewriteImageSrcs(HTML(RewriteLinkHrefs(content, base)), base)
================================================================================
