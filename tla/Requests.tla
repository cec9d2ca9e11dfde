------------------------------ MODULE Requests ------------------------------
(***************************************************************************)
(* What one request counts for (SlidingWindow.Record, BodyScanner.Scan).   *)
(* A user agent is the set of the keywords it contains, a body a sequence  *)
(* of fields, and a text the set of the attack patterns in it with the     *)
(* number of percent encodings they are under.  A field has a name and a   *)
(* value: a member of a JSON object (of two with one name the last) or a   *)
(* pair of a form.  A text in no object has no name, and what stands       *)
(* between two "&" of a form without a "=" is a name without a value.      *)
(***************************************************************************)
EXTENDS Integers, Sequences, FiniteSets, Paths

CONSTANTS KnownClients,    \* knownHTTPClients, or the list of the configuration
          BotAgents,       \* botUserAgents
          BrowserAgents,   \* normalBrowserUA
          BlockedExts,     \* BodyScanner.blockedExts
          BlockedMimes,    \* BodyScanner.blockedMimes
          BodyScanning,    \* a scanner is injected and enabled
          MaxTexts         \* maxBodySize, as the number of fields that fit

ImageExts == {".jpg", ".jpeg", ".png", ".gif", ".bmp", ".webp"}

DangerousMethods == {"CONNECT", "TRACE", "DELETE", "PUT", "PATCH", "OPTIONS"}

ValidMethods == DangerousMethods \cup {"GET", "POST", "HEAD", ""}

\* isBotUserAgent: a known client is no bot, whatever else its name says.
IsBotUserAgent(ua) == ua \cap KnownClients = {} /\ ua \cap BotAgents # {}

\* isNormalBrowserUserAgent.
IsNormalBrowser(ua) ==
    /\ ua \cap (BotAgents \cup KnownClients) = {}
    /\ \/ "safari/" \in ua /\ "chrome/" \notin ua
       \/ {"trident/", "rv:"} \subseteq ua
       \/ ua \cap BrowserAgents # {}
-----------------------------------------------------------------------------
\* matchPatterns: the patterns of a text after one percent decoding.
Matched(text) == {w.pattern : w \in {v \in text : v.enc <= 1}}

\* A form's values were decoded once when they were parsed.
Unescaped(text) == {[v EXCEPT !.enc = IF @ = 0 THEN 0 ELSE @ - 1] : v \in text}

Whole(field) == field.name \cup field.value

\* What is not parsed is one text: the patterns in it count once.
RawHits(fields) == Cardinality(UNION {Matched(Whole(fields[i])) : i \in DOMAIN fields})

TextHits(texts) == FoldLeft(LAMBDA n, t : n + Cardinality(Matched(t)), 0, texts)

\* checkFileUpload: the extension, the type, or a second extension behind an image's.
FileBlocked(f) ==
    \/ f.ext \in BlockedExts
    \/ f.mime \in BlockedMimes
    \/ /\ Len(f.exts) >= 2
       /\ f.exts[Len(f.exts)] \in BlockedExts
       /\ f.exts[Len(f.exts) - 1] \in ImageExts

\* The body is cut; a cut JSON text or form does not parse.
Fits(body) ==
    SubSeq(body.fields, 1, IF Len(body.fields) < MaxTexts THEN Len(body.fields) ELSE MaxTexts)

Parses(body) == body.wellFormed /\ Len(body.fields) <= MaxTexts

\* Scan: by content type; "multipart/form-data" contains "form" and is parsed as one.
\* Of what is parsed the values are searched and the names are not.
ScanBody(body) ==
    CASE body.type = "json" ->
            IF Parses(body)
            THEN TextHits([i \in DOMAIN body.fields |-> body.fields[i].value])
            ELSE RawHits(Fits(body))
      [] body.type = "xml" -> RawHits(Fits(body)) + IF body.doctype THEN 1 ELSE 0
      [] body.type \in {"form", "multipart"} ->
            IF body.wellFormed
            THEN TextHits([i \in DOMAIN Fits(body) |-> Unescaped(body.fields[i].value)])
            ELSE RawHits(Fits(body))
      [] OTHER -> 0
-----------------------------------------------------------------------------
\* The classes of status that Record tells apart; 499 is none of them.
Is4xx(s) == s \in 400..498 \ {404}

\* isMalformedHTTPRequest.
IsMalformed(ev) == ev.method \notin ValidMethods \/ ev.binary

\* Kinds of counts of a bucket.
Kinds == {"total", "n4xx", "n401", "n5xx", "n404", "authFail", "sensPath", "traversal",
          "danger", "botUA", "emptyRef", "static", "method", "head", "upload", "browser"}

\* The bucket b of Record.  An XML entity counts in the scan and again here.
Classify(ev) ==
    LET if(b) == IF b THEN 1 ELSE 0
        xxe   == ev.body.type = "xml" /\ ev.body.doctype
        body  == IF BodyScanning THEN ScanBody(ev.body) + if(xxe) ELSE 0
    IN  [total |-> 1, n404 |-> if(ev.status = 404), n401 |-> if(ev.status = 401),
         n4xx |-> if(Is4xx(ev.status)), n5xx |-> if(ev.status \in 500..599),
         authFail |-> if(ev.source = "linux_auth" /\ ev.authFailed),
         sensPath |-> if(ev.status >= 400 /\ HitSensitivePath(Cleaned(ev.path))),
         traversal |-> if(ev.traversal),
         danger |-> if(HitDangerousPattern(ev.path)) + body + if(IsMalformed(ev)),
         botUA |-> if(IsBotUserAgent(ev.ua)), browser |-> if(IsNormalBrowser(ev.ua)),
         emptyRef |-> if(~ev.referer), static |-> if(ev.static),
         method |-> if(ev.method \in DangerousMethods), head |-> if(ev.method = "HEAD"),
         upload |-> if(BodyScanning /\ FileBlocked(ev.file))]
-----------------------------------------------------------------------------
\* What scanJSON and scanForm take apart, of which they leave the names out.
ReadByField(body) ==
    \/ body.type = "json" /\ Parses(body)
    \/ body.type \in {"form", "multipart"} /\ body.wellFormed

Searched(body, field) == IF ReadByField(body) THEN field.value ELSE Whole(field)

\* A pattern under at most one percent encoding is a hit in every value that fits, of
\* whatever type the body is and whether or not it parses: what does not parse is
\* searched as one text.  The names of JSON members and of form fields are only
\* searched there: a pattern in the name of a body that parses is not found, and
\* nothing is promised of it.
WhatFitsIsScanned(body) ==
    /\ body.type \in {"json", "xml", "form", "multipart"}
    /\ \E i \in DOMAIN Fits(body) : \E w \in Searched(body, body.fields[i]) : w.enc <= 1
    => ScanBody(body) >= 1
=============================================================================
