--------------------------- MODULE MCHttpConnection ---------------------------
(* One connection on a small instance. *)
EXTENDS HttpConnection

Line1(method, url, version) == <<Start(method, url, version), CR, LF>>
Line2(text) == <<text, CR, LF>>
Blank == <<CR, LF>>

GetStats == Line1("GET", "/api/stats", "HTTP/1.1") \o Line2(KeepAlive) \o Blank
GetOther == Line1("GET", "/", "HTTP/1.1") \o Line2(Header) \o Blank
OtherMethod == Line1("other", "/api/stats", "HTTP/1.1") \o Blank
OldVersion == Line1("GET", "/api/stats", "HTTP/1.0") \o Line2(KeepAlive) \o Blank
PostKv == Line1("POST", "/api/kv", "HTTP/1.1") \o Line2(KeepAlive)
          \o Line2(ContentLength(2)) \o Blank \o <<Fields, Rest>>
TwoLengths == Line1("POST", "/api/kv", "HTTP/1.1") \o Line2(ContentLength(1))
              \o Line2(ContentLength(2)) \o Blank \o <<Fields, Rest>>
PostBad == Line1("POST", "/api/kv", "HTTP/1.1") \o Line2(ContentLength(1)) \o Blank \o <<Rest>>
PostLines == Line1("POST", "/api/kv", "HTTP/1.1") \o Line2(ContentLength(4)) \o Blank
             \o <<Fields, CR, LF, Rest>>
NoLength == Line1("POST", "/api/kv", "HTTP/1.1") \o Blank \o <<Fields, Rest>>
OldPost == Line1("POST", "/api/kv", "HTTP/1.0") \o Line2(ContentLength(2)) \o Blank \o <<Fields, Rest>>
BareLF == <<Start("GET", "/api/stats", "HTTP/1.1"), LF>> \o Blank
TooLong == Line1("GET", "/api/stats", "HTTP/1.1") \o Line2(Header) \o Line2(Header)
           \o Line2(Header) \o Blank

(* PostKv fills the buffer to its last byte. *)
AllRequests == {GetStats, GetOther, OtherMethod, OldVersion, PostKv, PostLines, PostBad,
                TwoLengths, NoLength, OldPost, BareLF, TooLong}
OnlyPost == {PostKv}

=============================================================================
