----------------------------- MODULE MCRemoteImages -----------------------------
EXTENDS RemoteImages
CONSTANTS page, pic, hop, ico, lan, rel

MCURLs == {page, pic, hop, ico, lan}
MCJoined(b, path) == pic

E(tag, ref, srcset) == [tag |-> tag, ref |-> ref, srcset |-> srcset, blank |-> FALSE]
Mixed == {E("a", rel, FALSE), E("img", rel, TRUE), E("script", page, FALSE),
          E("img", hop, FALSE), E("a", Unsafe, FALSE), E("a", page, FALSE),
          E("img", lan, FALSE), E("img", NoRef, TRUE)}
MCArticles == {[content |-> Mixed, link |-> l] : l \in {page, rel}}
MCSites == {page, rel, NoRef}

Answer1(kind, to, image, dims, size) ==
    [kind |-> kind, to |-> to, image |-> image, dims |-> dims, size |-> size]
To(u) == Answer1("redirect", u, FALSE, NoRef, 0)
Ok(dims, size) == Answer1("ok", NoRef, dims # NoRef, dims, size)
Error == Answer1("error", NoRef, FALSE, NoRef, 1)
Small == <<16, 16>>
Narrow == <<640, 2>>

MCWebs == {w \in [MCURLs -> {To(pic), To(hop), To(ico), To(lan), Ok(Narrow, 3), Ok(Small, 1),
                             Ok(NoRef, 1), Ok(NoRef, 0), Error}] :
             /\ w[page] = Ok(NoRef, 1) /\ w[lan] = Ok(Small, 1)
             /\ w[pic] \in {Ok(Narrow, 3), Error, To(hop), To(lan)}
             /\ w[hop] \in {To(pic), To(ico), Ok(Small, 1)}
             /\ w[ico] \in {Ok(Small, 1), Ok(NoRef, 1), Ok(NoRef, 0), To(hop)}}
MCIcons == {pic, lan, NoRef}
================================================================================
