--------------------------- MODULE MessagesProofs ---------------------------
(***************************************************************************)
(* The Hello objects, for any number of them: bits, slots and pointer stay in*)
(* step and the objects implement values with optional fields; what they are *)
(* on the wire, and that every command crosses.                              *)
(***************************************************************************)
EXTENDS Messages, WireProofs

-----------------------------------------------------------------------------
(* The generated functions, on one content and on one object.              *)

\* The defaults are values, and the null pointer and an absent field are not.
LEMMA Apart ==
    /\ Empty \in Strings /\ 0 \in Ports
    /\ NULL \notin Strings /\ NULL \notin ContentObjects
    /\ None \notin Strings /\ None \notin Ports /\ None \notin Hello_HelloType
    /\ None \notin [service_name : Strings \cup {None}, proxy_port : Ports \cup {None}]
  BY Zenon, HelloAssumption

\* A content object whose slots agree with its bits.
GoodContent(c) == c \in ContentObjects /\ ContentSound(c)

\* A Hello object whose slots and pointer agree with its bits.
Good(h) == h \in HelloObjects /\ HelloSound(h)

\* A freshly constructed content is good.
LEMMA NewContentGood == GoodContent(NewContent)
  BY Zenon, Apart DEF GoodContent, NewContent, ContentObjects, ContentSound, Empty

\* The setters and clears of a content keep it good.
LEMMA ContentCallsGood ==
    ASSUME NEW c, GoodContent(c), NEW s \in Strings, NEW n \in Ports
    PROVE  /\ GoodContent(set_service_name(c, s))
           /\ GoodContent(mutable_service_name(c, s))
           /\ GoodContent(clear_service_name(c))
           /\ GoodContent(release_service_name(c))
           /\ GoodContent(set_allocated_service_name(c, s))
           /\ GoodContent(set_allocated_service_name(c, NULL))
           /\ GoodContent(set_proxy_port(c, n))
           /\ GoodContent(clear_proxy_port(c))
           /\ GoodContent(Content_Clear(c))
  <1> USE Apart DEF GoodContent, ContentObjects, ContentSound
  <1>1. GoodContent(set_service_name(c, s)) /\ GoodContent(mutable_service_name(c, s))
    BY Zenon DEF set_service_name, mutable_service_name
  <1>2. GoodContent(clear_service_name(c)) BY Zenon DEF clear_service_name
  <1>3. GoodContent(release_service_name(c)) BY Zenon DEF release_service_name
  <1>4. GoodContent(set_allocated_service_name(c, s))
    BY Zenon DEF set_allocated_service_name
  <1>5. GoodContent(set_allocated_service_name(c, NULL))
    BY Zenon DEF set_allocated_service_name
  <1>6. GoodContent(set_proxy_port(c, n)) BY Zenon DEF set_proxy_port
  <1>7. GoodContent(clear_proxy_port(c)) BY Zenon DEF clear_proxy_port
  <1>8. GoodContent(Content_Clear(c)) BY Zenon DEF Content_Clear
  <1> QED BY <1>1, <1>2, <1>3, <1>4, <1>5, <1>6, <1>7, <1>8

\* Clearing a good content gives a new one: no slot keeps a value.
LEMMA ClearIsNew ==
    ASSUME NEW c, GoodContent(c)
    PROVE  Content_Clear(c) = NewContent
  BY Zenon DEF GoodContent, ContentObjects, ContentSound, Content_Clear, NewContent

\* A copy of a content is that content.
LEMMA CopyIsSame ==
    ASSUME NEW c \in ContentObjects
    PROVE  CopyOfContent(c) = c
  BY Zenon DEF ContentObjects, CopyOfContent, NewContent

\* Merging good contents gives a good one.
LEMMA ContentMergeGood ==
    ASSUME NEW c, NEW d, GoodContent(c), GoodContent(d)
    PROVE  GoodContent(Content_MergeImpl(c, d))
  BY Zenon DEF GoodContent, ContentObjects, ContentSound, Content_MergeImpl

\* A good object's content, absent or not, is good.
LEMMA ShownGood ==
    ASSUME NEW h, Good(h)
    PROVE  GoodContent(control_channel_hello_content(h))
  BY Zenon, NewContentGood
     DEF Good, HelloObjects, HelloSound, GoodContent, control_channel_hello_content

-----------------------------------------------------------------------------
(* One object: every function keeps it good, and does to its value what the *)
(* abstract operation does.                                                *)

\* A fresh object is good and stands for the blank value.
LEMMA NewHelloGood == Good(NewHello) /\ ValueOf(NewHello) = Value!Blank
  BY Zenon, Apart
     DEF Good, NewHello, HelloObjects, HelloSound, Hello_HelloType, Empty, ValueOf,
         control_channel_hello_content, Value!Blank

\* hello_type: set and clear.
LEMMA TypeCalls ==
    ASSUME NEW h, Good(h), NEW v \in Hello_HelloType
    PROVE  /\ Good(set_hello_type(h, v)) /\ Good(clear_hello_type(h))
           /\ ValueOf(set_hello_type(h, v)) = [ValueOf(h) EXCEPT !.hello_type = v]
           /\ ValueOf(clear_hello_type(h)) = [ValueOf(h) EXCEPT !.hello_type = None]
  <1> USE DEF Good, HelloObjects, HelloSound, control_channel_hello_content, Hello_HelloType
  <1>1. Good(set_hello_type(h, v)) BY Zenon DEF set_hello_type
  <1>2. Good(clear_hello_type(h)) BY Zenon DEF clear_hello_type
  <1>3. ValueOf(set_hello_type(h, v)) = [ValueOf(h) EXCEPT !.hello_type = v]
    BY DEF set_hello_type, ValueOf
  <1>4. ValueOf(clear_hello_type(h)) = [ValueOf(h) EXCEPT !.hello_type = None]
    BY DEF clear_hello_type, ValueOf
  <1> QED BY Zenon, <1>1, <1>2, <1>3, <1>4

\* digest: the functions that put a string in.
LEMMA DigestPuts ==
    ASSUME NEW h, Good(h), NEW s \in Strings
    PROVE  /\ set_digest(h, s) = mutable_digest(h, s)
           /\ set_digest(h, s) = set_allocated_digest(h, s)
           /\ Good(set_digest(h, s))
           /\ ValueOf(set_digest(h, s)) = [ValueOf(h) EXCEPT !.digest = s]
  <1>1. set_digest(h, s) = mutable_digest(h, s) BY Zenon DEF set_digest, mutable_digest
  <1>2. set_digest(h, s) = set_allocated_digest(h, s)
    BY Zenon, Apart DEF set_digest, set_allocated_digest
  <1>3. Good(set_digest(h, s))
    BY Zenon DEF Good, HelloObjects, HelloSound, control_channel_hello_content, set_digest
  <1>4. ValueOf(set_digest(h, s)) = [ValueOf(h) EXCEPT !.digest = s]
    BY DEF Good, HelloObjects, set_digest, ValueOf
  <1> QED BY Zenon, <1>1, <1>2, <1>3, <1>4

\* digest: the functions that take the string out.
LEMMA DigestDrops ==
    ASSUME NEW h, Good(h)
    PROVE  /\ release_digest(h) = clear_digest(h)
           /\ set_allocated_digest(h, NULL) = clear_digest(h)
           /\ Good(clear_digest(h))
           /\ ValueOf(clear_digest(h)) = [ValueOf(h) EXCEPT !.digest = None]
  <1> USE DEF Good, HelloObjects
  <1>1. release_digest(h) = clear_digest(h)
    BY Zenon DEF HelloSound, release_digest, clear_digest
  <1>2. set_allocated_digest(h, NULL) = clear_digest(h)
    BY Zenon DEF set_allocated_digest, clear_digest
  <1>3. Good(clear_digest(h))
    BY Zenon, Apart DEF HelloSound, control_channel_hello_content, clear_digest
  <1>4. ValueOf(clear_digest(h)) = [ValueOf(h) EXCEPT !.digest = None]
    BY DEF clear_digest, ValueOf
  <1> QED BY Zenon, <1>1, <1>2, <1>3, <1>4

\* A content put behind the pointer, by mutable_* or by set_allocated_*.
LEMMA ContentPuts ==
    ASSUME NEW h, Good(h), NEW c, GoodContent(c)
    PROVE  /\ set_allocated_content(h, c) = mutable_content(h, c)
           /\ Good(mutable_content(h, c))
           /\ ValueOf(mutable_content(h, c))
                = [ValueOf(h) EXCEPT !.content = ContentValueOf(c)]
  <1> USE Apart DEF Good, GoodContent, HelloObjects
  <1>1. set_allocated_content(h, c) = mutable_content(h, c)
    BY Zenon DEF set_allocated_content, mutable_content
  <1>2. Good(mutable_content(h, c)) BY Zenon DEF mutable_content, HelloSound
  <1>3. ValueOf(mutable_content(h, c)) = [ValueOf(h) EXCEPT !.content = ContentValueOf(c)]
    BY DEF mutable_content, ValueOf
  <1> QED BY Zenon, <1>1, <1>2, <1>3

\* The content taken away, by clear_*, release_* or a null set_allocated_*.
LEMMA ContentDrops ==
    ASSUME NEW h, Good(h)
    PROVE  \A g \in {clear_content(h), release_content(h), set_allocated_content(h, NULL)} :
               Good(g) /\ ValueOf(g) = [ValueOf(h) EXCEPT !.content = None]
  <1> USE Apart DEF Good, HelloObjects
  <1>1. h.content # NULL => Content_Clear(h.content) = NewContent
    BY Zenon, ClearIsNew, ShownGood DEF control_channel_hello_content
  <1>2. Good(clear_content(h))
    BY Zenon, <1>1, NewContentGood DEF clear_content, HelloSound, control_channel_hello_content,
       GoodContent
  <1>3. Good(release_content(h))
    BY Zenon DEF release_content, HelloSound, control_channel_hello_content
  <1>4. set_allocated_content(h, NULL) = release_content(h)
    BY Zenon DEF set_allocated_content, release_content
  <1>5. ValueOf(clear_content(h)) = [ValueOf(h) EXCEPT !.content = None]
    BY DEF clear_content, ValueOf
  <1>6. ValueOf(release_content(h)) = [ValueOf(h) EXCEPT !.content = None]
    BY DEF release_content, ValueOf
  <1> QED BY <1>2, <1>3, <1>4, <1>5, <1>6

\* The value of a good object's content, absent or not, as the abstract spec opens it.
LEMMA OpenedShown ==
    ASSUME NEW h, Good(h)
    PROVE  Value!Opened(ValueOf(h).content) = ContentValueOf(control_channel_hello_content(h))
  <1>1. CASE "content" \in h.has
    <2>1. h.content \in ContentObjects /\ control_channel_hello_content(h) = h.content
      BY Zenon, <1>1 DEF Good, HelloObjects, HelloSound, control_channel_hello_content
    <2>2. ContentValueOf(h.content)
            \in [service_name : Strings \cup {None}, proxy_port : Ports \cup {None}]
      BY Zenon, <2>1 DEF ContentValueOf, ContentObjects
    <2>3. ValueOf(h).content = ContentValueOf(h.content) BY Zenon, <1>1 DEF ValueOf
    <2> QED BY Zenon, <2>1, <2>2, <2>3, Apart DEF Value!Opened
  <1>2. CASE "content" \notin h.has
    <2>1. control_channel_hello_content(h) = NewContent BY Zenon, <1>2 DEF Good, HelloSound
    <2>2. ValueOf(h).content = None BY Zenon, <1>2 DEF ValueOf
    <2>3. ContentValueOf(NewContent) = Value!NoFields
      BY Zenon DEF ContentValueOf, NewContent, Value!NoFields
    <2> QED BY Zenon, <2>1, <2>2, <2>3 DEF Value!Opened
  <1> QED BY Zenon, <1>1, <1>2

\* What the calls on a content do to its value.
LEMMA ContentCallValues ==
    ASSUME NEW c, GoodContent(c), NEW s \in Strings, NEW n \in Ports
    PROVE  /\ \A d \in {set_service_name(c, s), mutable_service_name(c, s),
                        set_allocated_service_name(c, s)} :
                  ContentValueOf(d) = [ContentValueOf(c) EXCEPT !.service_name = s]
           /\ \A d \in {clear_service_name(c), release_service_name(c),
                        set_allocated_service_name(c, NULL)} :
                  ContentValueOf(d) = [ContentValueOf(c) EXCEPT !.service_name = None]
           /\ ContentValueOf(set_proxy_port(c, n)) = [ContentValueOf(c) EXCEPT !.proxy_port = n]
           /\ ContentValueOf(clear_proxy_port(c)) = [ContentValueOf(c) EXCEPT !.proxy_port = None]
           /\ ContentValueOf(Content_Clear(c)) = Value!NoFields
  <1> USE DEF GoodContent, ContentObjects, ContentValueOf
  <1>1. set_service_name(c, s) = mutable_service_name(c, s)
        /\ set_allocated_service_name(c, s) = set_service_name(c, s)
    BY Zenon, Apart
       DEF set_service_name, mutable_service_name, set_allocated_service_name
  <1>2. ContentValueOf(set_service_name(c, s)) = [ContentValueOf(c) EXCEPT !.service_name = s]
    BY DEF set_service_name
  <1>3. ContentValueOf(clear_service_name(c)) = [ContentValueOf(c) EXCEPT !.service_name = None]
    BY DEF clear_service_name
  <1>4. ContentValueOf(release_service_name(c))
          = [ContentValueOf(c) EXCEPT !.service_name = None]
    BY DEF release_service_name
  <1>5. ContentValueOf(set_allocated_service_name(c, NULL))
          = [ContentValueOf(c) EXCEPT !.service_name = None]
    BY DEF set_allocated_service_name
  <1>6. ContentValueOf(set_proxy_port(c, n)) = [ContentValueOf(c) EXCEPT !.proxy_port = n]
    BY DEF set_proxy_port
  <1>7. ContentValueOf(clear_proxy_port(c)) = [ContentValueOf(c) EXCEPT !.proxy_port = None]
    BY DEF clear_proxy_port
  <1>8. ContentValueOf(Content_Clear(c)) = Value!NoFields
    BY Zenon DEF Content_Clear, Value!NoFields
  <1> QED BY <1>1, <1>2, <1>3, <1>4, <1>5, <1>6, <1>7, <1>8

\* Merging contents overlays their values, copying takes over the value.
LEMMA ContentMergeValues ==
    ASSUME NEW c, NEW d, GoodContent(c), GoodContent(d)
    PROVE  /\ ContentValueOf(Content_MergeImpl(c, d))
                = Value!OverlayContent(ContentValueOf(c), ContentValueOf(d))
           /\ Content_CopyFrom(c, d) = d
  <1>1. ContentValueOf(Content_MergeImpl(c, d))
          = Value!OverlayContent(ContentValueOf(c), ContentValueOf(d))
    BY Zenon, Apart
       DEF GoodContent, ContentObjects, ContentValueOf, Content_MergeImpl, Value!OverlayContent
  <1>2. Content_CopyFrom(c, d) = Content_MergeImpl(NewContent, d)
    BY Zenon, ClearIsNew DEF Content_CopyFrom
  <1>3. Content_MergeImpl(NewContent, d) = d
    BY Zenon DEF GoodContent, ContentObjects, ContentSound, Content_MergeImpl, NewContent
  <1> QED BY Zenon, <1>1, <1>2, <1>3

\* Clear leaves a good blank object, with or without a content behind the pointer.
LEMMA HelloClears ==
    ASSUME NEW h, Good(h)
    PROVE  /\ Good(Hello_Clear(h))
           /\ ValueOf(Hello_Clear(h)) = Value!Blank
           /\ control_channel_hello_content(Hello_Clear(h)) = NewContent
  <1>1. "content" \in h.has => Content_Clear(h.content) = NewContent
    BY Zenon, ClearIsNew, ShownGood DEF Good, HelloSound, control_channel_hello_content
  <1>2. control_channel_hello_content(Hello_Clear(h)) = NewContent
    BY Zenon, <1>1 DEF Hello_Clear, Good, HelloSound, control_channel_hello_content
  <1>3. Hello_Clear(h) \in HelloObjects
    BY Zenon, <1>1, NewContentGood, Apart
       DEF Hello_Clear, Good, HelloObjects, GoodContent, Hello_HelloType
  <1>4. HelloSound(Hello_Clear(h))
    BY Zenon, <1>2 DEF Hello_Clear, Good, HelloSound
  <1>5. ValueOf(Hello_Clear(h)) = Value!Blank
    BY Zenon DEF Hello_Clear, ValueOf, Value!Blank
  <1> QED BY Zenon, <1>2, <1>3, <1>4, <1>5 DEF Good

\* The content after a merge, when the merged-in message has one.
LEMMA MergedContent ==
    ASSUME NEW g, NEW h, Good(g), Good(h), "content" \in h.has
    PROVE  /\ Hello_MergeImpl(g, h).content
                = Content_MergeImpl(control_channel_hello_content(g), h.content)
           /\ GoodContent(h.content)
           /\ GoodContent(Hello_MergeImpl(g, h).content)
  <1>1. GoodContent(h.content)
    BY Zenon DEF Good, HelloObjects, HelloSound, GoodContent
  <1>2. CASE g.content = NULL
    <2>1. Hello_MergeImpl(g, h).content = h.content
      BY Zenon, <1>1, <1>2, CopyIsSame DEF Hello_MergeImpl, GoodContent
    <2>2. Content_MergeImpl(NewContent, h.content) = h.content
      BY <1>1, ContentMergeValues, NewContentGood, ClearIsNew DEF Content_CopyFrom
    <2> QED BY <1>1, <1>2, <2>1, <2>2 DEF control_channel_hello_content
  <1>3. CASE g.content # NULL
    BY Zenon, <1>1, <1>3, ContentMergeGood, ShownGood
       DEF Hello_MergeImpl, control_channel_hello_content
  <1> QED BY Zenon, <1>1, <1>2, <1>3

\* Merging overlays the values and keeps the object good.
LEMMA HelloMerges ==
    ASSUME NEW g, NEW h, Good(g), Good(h)
    PROVE  /\ Good(Hello_MergeImpl(g, h))
           /\ ValueOf(Hello_MergeImpl(g, h)) = Value!Overlay(ValueOf(g), ValueOf(h))
  <1> DEFINE m == Hello_MergeImpl(g, h)
  <1>1. /\ m.has = g.has \cup h.has
        /\ m.hello_type = (IF "hello_type" \in h.has THEN h ELSE g).hello_type
        /\ m.digest = (IF "digest" \in h.has THEN h ELSE g).digest
        /\ "content" \notin h.has => m.content = g.content
    BY Zenon DEF Hello_MergeImpl
  <1>2. "content" \in h.has => GoodContent(m.content) BY Zenon, MergedContent
  <1>3. m \in HelloObjects
    <2>1. m.content \in ContentObjects \cup {NULL}
      BY Zenon, <1>1, <1>2 DEF Good, HelloObjects, GoodContent
    <2>2. m = [has |-> m.has, hello_type |-> m.hello_type, digest |-> m.digest,
               content |-> m.content]
      BY Zenon DEF Hello_MergeImpl
    <2> HIDE DEF m
    <2>3. m.has \in SUBSET {"hello_type", "digest", "content"} /\ m.digest \in Strings
          /\ m.hello_type \in Hello_HelloType
      BY Zenon, <1>1 DEF Good, HelloObjects
    <2> QED BY Zenon, <2>1, <2>2, <2>3 DEF HelloObjects
  <1> HIDE DEF m
  <1>4. HelloSound(m)
    <2>1. "content" \in m.has => m.content # NULL /\ ContentSound(m.content)
      BY Zenon, <1>1, <1>2, Apart DEF Good, HelloSound, GoodContent
    <2>2. "content" \notin m.has => control_channel_hello_content(m) = NewContent
      BY Zenon, <1>1 DEF Good, HelloSound, control_channel_hello_content
    <2>3. ("digest" \notin m.has => m.digest = Empty)
          /\ ("hello_type" \notin m.has => m.hello_type = 0)
      BY Zenon, <1>1 DEF Good, HelloSound
    <2> QED BY Zenon, <2>1, <2>2, <2>3 DEF HelloSound
  <1>5. ValueOf(m).content = Value!Overlay(ValueOf(g), ValueOf(h)).content
    <2>1. CASE "content" \notin h.has
      BY Zenon, <1>1, <2>1 DEF ValueOf, Value!Overlay
    <2>2. CASE "content" \in h.has
      <3>1. ValueOf(m).content = ContentValueOf(m.content) BY Zenon, <1>1, <2>2 DEF ValueOf
      <3>2. ContentValueOf(m.content)
              = Value!OverlayContent(ContentValueOf(control_channel_hello_content(g)),
                                     ContentValueOf(h.content))
        BY <2>2, MergedContent, ShownGood, ContentMergeValues DEF m
      <3>3. ValueOf(h).content = ContentValueOf(h.content) BY Zenon, <2>2 DEF ValueOf
      <3>4. ValueOf(h).content # None
        <4>1. ContentValueOf(h.content)
                \in [service_name : Strings \cup {None}, proxy_port : Ports \cup {None}]
          BY ZenonT(40), <2>2, MergedContent DEF GoodContent, ContentObjects, ContentValueOf
        <4> QED BY Zenon, <3>3, <4>1, Apart
      <3> QED BY Zenon, <3>1, <3>2, <3>3, <3>4, OpenedShown DEF Value!Overlay
    <2> QED BY Zenon, <2>1, <2>2
  <1>6. ValueOf(m) = Value!Overlay(ValueOf(g), ValueOf(h))
    <2>1. ValueOf(m).hello_type = Value!Overlay(ValueOf(g), ValueOf(h)).hello_type
      BY Zenon, <1>1, Apart DEF ValueOf, Value!Overlay, Good, HelloObjects
    <2>2. ValueOf(m).digest = Value!Overlay(ValueOf(g), ValueOf(h)).digest
      BY Zenon, <1>1, Apart DEF ValueOf, Value!Overlay, Good, HelloObjects
    <2> QED BY <1>5, <2>1, <2>2 DEF ValueOf, Value!Overlay
  <1> QED BY Zenon, <1>3, <1>4, <1>6 DEF Good, m

\* Copies, constructed or assigned, stand for the value copied.
LEMMA HelloCopies ==
    ASSUME NEW g, NEW h, Good(g), Good(h)
    PROVE  /\ Good(CopyOfHello(h)) /\ ValueOf(CopyOfHello(h)) = ValueOf(h)
           /\ Good(Hello_CopyFrom(g, h)) /\ ValueOf(Hello_CopyFrom(g, h)) = ValueOf(h)
  <1>1. "content" \in h.has => CopyOfContent(h.content) = h.content /\ h.content # NULL
    BY Zenon, CopyIsSame DEF Good, HelloObjects, HelloSound
  <1>2. Good(CopyOfHello(h))
    BY Zenon, <1>1 DEF Good, HelloObjects, HelloSound, CopyOfHello, control_channel_hello_content
  <1>3. ValueOf(CopyOfHello(h)) = ValueOf(h)
    BY Zenon, <1>1 DEF CopyOfHello, ValueOf
  <1>4. Good(Hello_CopyFrom(g, h))
        /\ ValueOf(Hello_CopyFrom(g, h)) = Value!Overlay(Value!Blank, ValueOf(h))
    BY HelloClears, HelloMerges DEF Hello_CopyFrom
  <1>5. Value!Overlay(Value!Blank, ValueOf(h)) = ValueOf(h)
    <2>1. CASE "content" \in h.has
      <3>1. ValueOf(h).content = ContentValueOf(h.content) BY Zenon, <2>1 DEF ValueOf
      <3>2. Value!OverlayContent(Value!NoFields, ContentValueOf(h.content))
              = ContentValueOf(h.content)
        BY Zenon DEF Value!OverlayContent, Value!NoFields, ContentValueOf
      <3> QED BY <3>1, <3>2 DEF ValueOf, Value!Overlay, Value!Blank, Value!Opened
    <2>2. CASE "content" \notin h.has
      BY Zenon, <2>2 DEF ValueOf, Value!Overlay, Value!Blank
    <2> QED BY Zenon, <2>1, <2>2
  <1> QED BY Zenon, <1>2, <1>3, <1>4, <1>5

-----------------------------------------------------------------------------
(* The program's calls.                                                    *)

\* The inductive invariant: every object is good.
AllGood == hello \in [Objs -> HelloObjects] /\ \A o \in Objs : Good(hello[o])

\* The abstract state.
Bar == [o \in Objs |-> ValueOf(hello[o])]

\* A call that leaves a good object changes the value of that object only.
LEMMA OneChanges ==
    ASSUME AllGood, NEW o \in Objs, NEW g, Good(g), Becomes(o, g)
    PROVE  AllGood' /\ Bar' = [Bar EXCEPT ![o] = ValueOf(g)]
  <1>1. hello' = [hello EXCEPT ![o] = g] BY Zenon DEF Becomes
  <1>2. AllGood'
    <2>1. hello' \in [Objs -> HelloObjects] BY Zenon, <1>1 DEF AllGood, Good
    <2>2. \A x \in Objs : hello'[x] = IF x = o THEN g ELSE hello[x] BY Zenon, <1>1 DEF AllGood
    <2>3. \A x \in Objs : Good(hello'[x]) BY Zenon, <2>2 DEF AllGood
    <2> QED BY Zenon, <2>1, <2>3 DEF AllGood, Good, HelloSound
  <1>3. \A x \in Objs : ValueOf(hello'[x]) = IF x = o THEN ValueOf(g) ELSE ValueOf(hello[x])
    BY Zenon, <1>1 DEF AllGood
  <1>4. Bar' = [x \in Objs |-> ValueOf(hello'[x])] BY Zenon DEF Bar, ValueOf, ContentValueOf
  <1>5. Bar' = [Bar EXCEPT ![o] = ValueOf(g)] BY Zenon, <1>3, <1>4 DEF Bar
  <1> QED BY Zenon, <1>2, <1>5

\* f with new values at two arguments.
Both(f, o, p, x, y) == [z \in Objs |-> IF z = o THEN x ELSE IF z = p THEN y ELSE f[z]]

\* A call that leaves two good objects changes the values of those two.
LEMMA TwoChange ==
    ASSUME AllGood, NEW o \in Objs, NEW p \in Objs \ {o}, NEW g, NEW h, Good(g), Good(h),
           hello' = Both(hello, o, p, g, h)
    PROVE  AllGood' /\ Bar' = Both(Bar, o, p, ValueOf(g), ValueOf(h))
  <1>1. \A x \in Objs : hello'[x] = IF x = o THEN g ELSE IF x = p THEN h ELSE hello[x]
    BY Zenon DEF Both
  <1>2. AllGood'
    <2>1. hello' \in [Objs -> HelloObjects] BY Zenon DEF AllGood, Good, Both
    <2>2. \A x \in Objs : Good(hello'[x]) BY Zenon, <1>1 DEF AllGood
    <2> QED BY Zenon, <2>1, <2>2 DEF AllGood, Good, HelloSound
  <1>3. \A x \in Objs :
            ValueOf(hello'[x]) = IF x = o THEN ValueOf(g)
                                 ELSE IF x = p THEN ValueOf(h) ELSE ValueOf(hello[x])
    BY Zenon, <1>1
  <1>4. Bar' = [x \in Objs |-> ValueOf(hello'[x])] BY Zenon DEF Bar, ValueOf, ContentValueOf
  <1>5. Bar' = Both(Bar, o, p, ValueOf(g), ValueOf(h)) BY Zenon, <1>3, <1>4 DEF Bar, Both
  <1> QED BY Zenon, <1>2, <1>5

\* The accessors and Clear of a Hello.
LEMMA HelloCallStep ==
    ASSUME AllGood, NEW o \in Objs, CallOnHello(o)
    PROVE  AllGood' /\ Value!Next
  <1> DEFINE h == hello[o]
  <1>0. Good(h) /\ Bar[o] = ValueOf(h) /\ Bar = [x \in Objs |-> ValueOf(hello[x])]
    BY Zenon DEF AllGood, Bar
  <1> HIDE DEF h
  <1>1. ASSUME NEW v \in Hello_HelloType \cup {None}, NEW g, Good(g), Becomes(o, g),
               ValueOf(g) = [ValueOf(h) EXCEPT !.hello_type = v]
        PROVE  AllGood' /\ Value!Next
    <2>1. AllGood' /\ Bar' = [Bar EXCEPT ![o].hello_type = v] BY <1>0, <1>1, OneChanges
    <2>2. Value!PutType(o, v) BY Zenon, <2>1 DEF Value!PutType, Bar
    <2> QED BY Zenon, <2>1, <2>2 DEF Value!Next
  <1>2. ASSUME NEW v \in Strings \cup {None}, NEW g, Good(g), Becomes(o, g),
               ValueOf(g) = [ValueOf(h) EXCEPT !.digest = v]
        PROVE  AllGood' /\ Value!Next
    <2>1. AllGood' /\ Bar' = [Bar EXCEPT ![o].digest = v] BY <1>0, <1>2, OneChanges
    <2>2. Value!PutDigest(o, v) BY Zenon, <2>1 DEF Value!PutDigest, Bar
    <2> QED BY Zenon, <2>1, <2>2 DEF Value!Next
  <1>3. ASSUME NEW g, Good(g), Becomes(o, g), ValueOf(g) = [ValueOf(h) EXCEPT !.content = None]
        PROVE  AllGood' /\ Value!Next
    <2>1. AllGood' /\ Bar' = [Bar EXCEPT ![o].content = None] BY <1>0, <1>3, OneChanges
    <2>2. Value!Drop(o) BY Zenon, <2>1 DEF Value!Drop, Bar
    <2> QED BY Zenon, <2>1, <2>2 DEF Value!Next
  <1>4. ASSUME NEW g, Good(g), Becomes(o, g), ValueOf(g) = Value!Blank
        PROVE  AllGood' /\ Value!Next
    <2>1. AllGood' /\ Bar' = [Bar EXCEPT ![o] = Value!Blank] BY Zenon, <1>4, OneChanges
    <2>2. Value!Erase(o) BY Zenon, <2>1 DEF Value!Erase, Bar
    <2> QED BY Zenon, <2>1, <2>2 DEF Value!Next
  <1>5. CASE \E v \in Hello_HelloType : Becomes(o, set_hello_type(h, v))
    BY <1>0, <1>1, <1>5, TypeCalls
  <1>6. CASE Becomes(o, clear_hello_type(h))
    BY <1>0, <1>1, <1>6, TypeCalls DEF Hello_HelloType
  <1>7. CASE \E v \in Strings :
              \/ Becomes(o, set_digest(h, v)) \/ Becomes(o, mutable_digest(h, v))
              \/ Becomes(o, set_allocated_digest(h, v))
    BY <1>0, <1>2, <1>7, DigestPuts
  <1>8. CASE \/ Becomes(o, clear_digest(h)) \/ Becomes(o, release_digest(h))
             \/ Becomes(o, set_allocated_digest(h, NULL))
    BY <1>0, <1>2, <1>8, DigestDrops
  <1>9. CASE Becomes(o, clear_content(h)) \/ Becomes(o, release_content(h))
    BY Zenon, <1>0, <1>3, <1>9, ContentDrops
  <1>10. CASE Becomes(o, Hello_Clear(h))
    BY Zenon, <1>0, <1>4, <1>10, HelloClears
  <1> QED BY <1>5, <1>6, <1>7, <1>8, <1>9, <1>10 DEF CallOnHello, h

\* The accessors and Clear of a content, through the pointer.
LEMMA ContentCallStep ==
    ASSUME AllGood, NEW o \in Objs, CallOnContent(o)
    PROVE  AllGood' /\ Value!Next
  <1> DEFINE h == hello[o]
             c == control_channel_hello_content(h)
  <1>0. /\ Good(h) /\ GoodContent(c)
        /\ Bar[o] = ValueOf(h) /\ Value!Opened(Bar[o].content) = ContentValueOf(c)
    BY Zenon, ShownGood, OpenedShown DEF AllGood, Bar
  <1> HIDE DEF h, c
  <1>1. ASSUME NEW d, GoodContent(d), Becomes(o, mutable_content(h, d))
        PROVE  AllGood' /\ Bar' = [Bar EXCEPT ![o].content = ContentValueOf(d)]
    BY <1>0, <1>1, ContentPuts, OneChanges
  <1>2. ASSUME NEW v \in Strings \cup {None}, NEW d, GoodContent(d),
               Becomes(o, mutable_content(h, d)),
               ContentValueOf(d) = [ContentValueOf(c) EXCEPT !.service_name = v]
        PROVE  AllGood' /\ Value!Next
    <2>1. AllGood' /\ Bar' = [Bar EXCEPT ![o].content =
                                 [Value!Opened(Bar[o].content) EXCEPT !.service_name = v]]
      BY Zenon, <1>0, <1>1, <1>2
    <2>2. Value!PutName(o, v) BY Zenon, <2>1 DEF Value!PutName, Bar
    <2> QED BY Zenon, <2>1, <2>2 DEF Value!Next
  <1>3. ASSUME NEW v \in Ports \cup {None}, NEW d, GoodContent(d),
               Becomes(o, mutable_content(h, d)),
               ContentValueOf(d) = [ContentValueOf(c) EXCEPT !.proxy_port = v]
        PROVE  AllGood' /\ Value!Next
    <2>1. AllGood' /\ Bar' = [Bar EXCEPT ![o].content =
                                 [Value!Opened(Bar[o].content) EXCEPT !.proxy_port = v]]
      BY Zenon, <1>0, <1>1, <1>3
    <2>2. Value!PutPort(o, v) BY Zenon, <2>1 DEF Value!PutPort, Bar
    <2> QED BY Zenon, <2>1, <2>2 DEF Value!Next
  <1>4. CASE Becomes(o, mutable_content(h, c))
    <2>1. AllGood' /\ Bar' = [Bar EXCEPT ![o].content = Value!Opened(Bar[o].content)]
      BY <1>0, <1>1, <1>4
    <2>2. Value!Open(o) BY Zenon, <2>1 DEF Value!Open, Bar
    <2> QED BY Zenon, <2>1, <2>2 DEF Value!Next
  <1>5. CASE \E v \in Strings :
              \/ Becomes(o, mutable_content(h, set_service_name(c, v)))
              \/ Becomes(o, mutable_content(h, mutable_service_name(c, v)))
              \/ Becomes(o, mutable_content(h, set_allocated_service_name(c, v)))
    <2> PICK v \in Strings :
              \/ Becomes(o, mutable_content(h, set_service_name(c, v)))
              \/ Becomes(o, mutable_content(h, mutable_service_name(c, v)))
              \/ Becomes(o, mutable_content(h, set_allocated_service_name(c, v)))
      BY Zenon, <1>5
    <2>1. 0 \in Ports BY Zenon, Apart
    <2>2. GoodContent(set_service_name(c, v)) /\ GoodContent(mutable_service_name(c, v))
          /\ GoodContent(set_allocated_service_name(c, v))
      BY Zenon, <1>0, <2>1, ContentCallsGood
    <2>3. \A d \in {set_service_name(c, v), mutable_service_name(c, v),
                    set_allocated_service_name(c, v)} :
              ContentValueOf(d) = [ContentValueOf(c) EXCEPT !.service_name = v]
      BY Zenon, <1>0, <2>1, ContentCallValues
    <2> QED BY Zenon, <1>2, <2>2, <2>3
  <1>6. CASE \/ Becomes(o, mutable_content(h, clear_service_name(c)))
             \/ Becomes(o, mutable_content(h, release_service_name(c)))
             \/ Becomes(o, mutable_content(h, set_allocated_service_name(c, NULL)))
    <2>1. 0 \in Ports /\ Empty \in Strings BY Zenon, Apart
    <2>2. GoodContent(clear_service_name(c)) /\ GoodContent(release_service_name(c))
          /\ GoodContent(set_allocated_service_name(c, NULL))
      BY Zenon, <1>0, <2>1, ContentCallsGood
    <2>3. \A d \in {clear_service_name(c), release_service_name(c),
                    set_allocated_service_name(c, NULL)} :
              ContentValueOf(d) = [ContentValueOf(c) EXCEPT !.service_name = None]
      BY Zenon, <1>0, <2>1, ContentCallValues
    <2> QED BY Zenon, <1>2, <1>6, <2>2, <2>3
  <1>7. CASE \E v \in Ports : Becomes(o, mutable_content(h, set_proxy_port(c, v)))
    <2>1. Empty \in Strings BY Zenon, Apart
    <2> QED BY <1>0, <1>3, <1>7, <2>1, ContentCallsGood, ContentCallValues
  <1>8. CASE Becomes(o, mutable_content(h, clear_proxy_port(c)))
    <2>1. 0 \in Ports /\ Empty \in Strings BY Zenon, Apart
    <2> QED BY Zenon, <1>0, <1>3, <1>8, <2>1, ContentCallsGood, ContentCallValues
  <1>9. CASE Becomes(o, mutable_content(h, Content_Clear(c)))
    <2>1. 0 \in Ports /\ Empty \in Strings BY Zenon, Apart
    <2>2. GoodContent(Content_Clear(c)) BY Zenon, <1>0, <2>1, ContentCallsGood
    <2>3. ContentValueOf(Content_Clear(c)) = Value!NoFields BY Zenon, <1>0, <2>1, ContentCallValues
    <2>4. AllGood' /\ Bar' = [Bar EXCEPT ![o].content = Value!NoFields]
      BY <1>1, <1>9, <2>2, <2>3
    <2>5. Value!EraseContent(o) BY Zenon, <2>4 DEF Value!EraseContent, Bar
    <2> QED BY Zenon, <2>4, <2>5 DEF Value!Next
  <1> QED BY <1>4, <1>5, <1>6, <1>7, <1>8, <1>9 DEF CallOnContent, ContentBecomes, content, h, c

\* Merges, copies, moves and swaps between two objects.
LEMMA TwoCallStep ==
    ASSUME AllGood, NEW o \in Objs, NEW p \in Objs \ {o}, CallOnTwo(o, p)
    PROVE  AllGood' /\ Value!Next
  <1> DEFINE g == hello[o]
             h == hello[p]
             c == content(o)
             d == content(p)
  <1>0. /\ Good(g) /\ Good(h) /\ GoodContent(c) /\ GoodContent(d)
        /\ Bar[o] = ValueOf(g) /\ Bar[p] = ValueOf(h)
        /\ Value!Opened(Bar[o].content) = ContentValueOf(c)
        /\ Value!Opened(Bar[p].content) = ContentValueOf(d)
    BY Zenon, ShownGood, OpenedShown DEF AllGood, Bar, content
  <1>a. /\ InternalSwap(o, p) => hello' = Both(hello, o, p, h, g)
        /\ MoveConstruct(o, p) => hello' = Both(hello, o, p, h, NewHello)
        /\ MoveContent(o, p) =>
             hello' = Both(hello, o, p, set_allocated_content(g, h.content), release_content(h))
        /\ SwapContents(o, p) =>
             hello' = Both(hello, o, p, mutable_content(g, d), mutable_content(h, c))
    BY Zenon DEF InternalSwap, MoveConstruct, MoveContent, SwapContents, AllGood, Both
  <1>b. h.content # NULL => d = h.content BY Zenon DEF content, control_channel_hello_content
  <1>c. \A e : ContentBecomes(o, e) => Becomes(o, mutable_content(g, e)) BY Zenon DEF ContentBecomes
  <1>d. CallOnTwo(o, p) =>
            \/ Becomes(o, Hello_MergeImpl(g, h))
            \/ Becomes(o, Hello_CopyFrom(g, h)) \/ Becomes(o, CopyOfHello(h))
            \/ InternalSwap(o, p) \/ MoveConstruct(o, p)
            \/ ContentBecomes(o, Content_MergeImpl(c, d))
            \/ ContentBecomes(o, Content_CopyFrom(c, d))
            \/ MoveContent(o, p) \/ SwapContents(o, p)
    BY Zenon DEF CallOnTwo
  <1> HIDE DEF g, h, c, d
  <1>1. CASE Becomes(o, Hello_MergeImpl(g, h))
    <2>1. AllGood' /\ Bar' = [Bar EXCEPT ![o] = Value!Overlay(Bar[o], Bar[p])]
      BY <1>0, <1>1, HelloMerges, OneChanges
    <2>2. Value!Add(o, p) BY Zenon, <2>1 DEF Value!Add, Bar
    <2> QED BY Zenon, <2>1, <2>2 DEF Value!Next
  <1>2. CASE Becomes(o, Hello_CopyFrom(g, h)) \/ Becomes(o, CopyOfHello(h))
    <2>1. AllGood' /\ Bar' = [Bar EXCEPT ![o] = Bar[p]]
      BY <1>0, <1>2, HelloCopies, OneChanges
    <2>2. Value!Assign(o, p) BY Zenon, <2>1 DEF Value!Assign, Bar
    <2> QED BY Zenon, <2>1, <2>2 DEF Value!Next
  <1>3. CASE InternalSwap(o, p)
    <2>1. AllGood' /\ Bar' = Both(Bar, o, p, ValueOf(h), ValueOf(g))
      BY <1>0, <1>a, <1>3, TwoChange
    <2>2. Value!Exchange(o, p) BY ZenonT(40), <1>0, <2>1 DEF Value!Exchange, Bar, Both
    <2> QED BY Zenon, <2>1, <2>2 DEF Value!Next
  <1>4. CASE MoveConstruct(o, p)
    <2>1. Good(NewHello) /\ ValueOf(NewHello) = Value!Blank BY Zenon, NewHelloGood
    <2>2. AllGood' /\ Bar' = Both(Bar, o, p, ValueOf(h), ValueOf(NewHello))
      BY <1>0, <1>a, <1>4, <2>1, TwoChange, SMTT(30)
    <2>3. Value!Move(o, p) BY Zenon, <1>0, <2>1, <2>2 DEF Value!Move, Bar, Both
    <2> QED BY Zenon, <2>2, <2>3 DEF Value!Next
  <1>5. CASE ContentBecomes(o, Content_MergeImpl(c, d))
    <2> DEFINE m == Content_MergeImpl(c, d)
    <2>1. GoodContent(m) BY Zenon, <1>0, ContentMergeGood
    <2>2. ContentValueOf(m) = Value!OverlayContent(ContentValueOf(c), ContentValueOf(d))
      BY Zenon, <1>0, ContentMergeValues
    <2>3. Becomes(o, mutable_content(g, m)) BY Zenon, <1>c, <1>5
    <2> HIDE DEF m
    <2>4. Good(mutable_content(g, m))
          /\ ValueOf(mutable_content(g, m)) = [ValueOf(g) EXCEPT !.content = ContentValueOf(m)]
      BY <1>0, <2>1, ContentPuts
    <2>5. AllGood' /\ Bar' = [Bar EXCEPT ![o] = ValueOf(mutable_content(g, m))]
      BY Zenon, <2>3, <2>4, OneChanges
    <2>6. Bar' = [Bar EXCEPT ![o].content = ContentValueOf(m)] BY <1>0, <2>4, <2>5
    <2>7. Value!AddContent(o, p) BY Zenon, <1>0, <2>2, <2>6 DEF Value!AddContent, Bar
    <2> QED BY Zenon, <2>5, <2>7 DEF Value!Next
  <1>6. CASE ContentBecomes(o, Content_CopyFrom(c, d))
    <2>1. Becomes(o, mutable_content(g, d)) BY <1>0, <1>c, <1>6, ContentMergeValues
    <2>2. Good(mutable_content(g, d))
          /\ ValueOf(mutable_content(g, d)) = [ValueOf(g) EXCEPT !.content = ContentValueOf(d)]
      BY <1>0, ContentPuts
    <2>3. AllGood' /\ Bar' = [Bar EXCEPT ![o] = ValueOf(mutable_content(g, d))]
      BY Zenon, <2>1, <2>2, OneChanges
    <2>4. Bar' = [Bar EXCEPT ![o].content = ContentValueOf(d)] BY Zenon, <1>0, <2>2, <2>3
    <2>5. Value!AssignContent(o, p) BY Zenon, <1>0, <2>4 DEF Value!AssignContent, Bar
    <2> QED BY Zenon, <2>3, <2>5 DEF Value!Next
  <1>7. CASE MoveContent(o, p)
    <2> DEFINE x == set_allocated_content(g, h.content)
               y == release_content(h)
    <2>1. Good(y) /\ ValueOf(y) = [ValueOf(h) EXCEPT !.content = None]
      BY Zenon, <1>0, ContentDrops
    <2>2. PICK b \in {Bar[p].content, Value!Opened(Bar[p].content)} :
              Good(x) /\ ValueOf(x) = [ValueOf(g) EXCEPT !.content = b]
      <3>1. CASE h.content = NULL
        <4>1. Bar[p].content = None BY <1>0, <3>1 DEF ValueOf, Good, HelloSound
        <4>2. Good(x) /\ ValueOf(x) = [ValueOf(g) EXCEPT !.content = None]
          BY Zenon, <1>0, <3>1, ContentDrops
        <4> QED BY Zenon, <4>1, <4>2
      <3>2. CASE h.content # NULL
        <4>1. x = set_allocated_content(g, d) BY Zenon, <1>b, <3>2
        <4>2. Good(x) /\ ValueOf(x) = [ValueOf(g) EXCEPT !.content = ContentValueOf(d)]
          BY <1>0, <4>1, ContentPuts
        <4> QED BY Zenon, <1>0, <4>2
      <3> QED BY Zenon, <3>1, <3>2
    <2>3. hello' = Both(hello, o, p, x, y) BY Zenon, <1>a, <1>7
    <2> HIDE DEF x, y
    <2>g. Good(x) /\ Good(y) BY Zenon, <2>1, <2>2
    <2>4. AllGood' /\ Bar' = Both(Bar, o, p, ValueOf(x), ValueOf(y))
      BY Zenon, <2>g, <2>3, TwoChange
    <2>5. Bar' = [Bar EXCEPT ![o].content = b, ![p].content = None]
      BY <1>0, <2>1, <2>2, <2>4 DEF Both, Bar
    <2>6. Value!HandOver(o, p) BY Zenon, <2>2, <2>5 DEF Value!HandOver, Bar
    <2> QED BY Zenon, <2>4, <2>6 DEF Value!Next
  <1>8. CASE SwapContents(o, p)
    <2> DEFINE x == mutable_content(g, d)
               y == mutable_content(h, c)
    <2>1. Good(x) /\ ValueOf(x) = [ValueOf(g) EXCEPT !.content = ContentValueOf(d)]
      BY Zenon, <1>0, ContentPuts
    <2>2. Good(y) /\ ValueOf(y) = [ValueOf(h) EXCEPT !.content = ContentValueOf(c)]
      BY Zenon, <1>0, ContentPuts
    <2>3. hello' = Both(hello, o, p, x, y) BY Zenon, <1>a, <1>8
    <2> HIDE DEF x, y
    <2>g. Good(x) /\ Good(y) BY Zenon, <2>1, <2>2
    <2>4. AllGood' /\ Bar' = Both(Bar, o, p, ValueOf(x), ValueOf(y))
      BY Zenon, <2>g, <2>3, TwoChange
    <2>5. Bar' = [Bar EXCEPT ![o].content = ContentValueOf(d), ![p].content = ContentValueOf(c)]
      BY Zenon, <1>0, <2>1, <2>2, <2>4 DEF Both, Bar
    <2>6. Value!ExchangeContents(o, p) BY Zenon, <1>0, <2>5 DEF Value!ExchangeContents, Bar
    <2> QED BY Zenon, <2>4, <2>6 DEF Value!Next
  <1> QED BY <1>1, <1>2, <1>3, <1>4, <1>5, <1>6, <1>7, <1>8, <1>d

\* Every call keeps all objects good and is a step of the abstract specification.
LEMMA CallStep == AllGood /\ Call => AllGood' /\ Value!Next
  BY Zenon, HelloCallStep, ContentCallStep, TwoCallStep DEF Call

\* All objects are good, and together they are values with optional fields.
LEMMA NewGood == NewObjects => AllGood /\ Value!Init
  <1> SUFFICES ASSUME NewObjects PROVE AllGood /\ Value!Init BY Zenon
  <1>1. hello = [o \in Objs |-> NewHello] BY Zenon DEF NewObjects
  <1>2. AllGood BY Zenon, <1>1, NewHelloGood DEF AllGood, Good
  <1>3. [o \in Objs |-> ValueOf(hello[o])] = [o \in Objs |-> Value!Blank]
    BY Zenon, <1>1, NewHelloGood
  <1> QED BY Zenon, <1>2, <1>3 DEF Value!Init

\* Bits, slots and pointer stay in step after any calls of the generated
\* functions, for every set of objects, strings and ports.
THEOREM ObjectsSound == Calls => [](TypeOK /\ HasBitsSound)
  <1>1. NewObjects => AllGood BY Zenon, NewGood
  <1>2. AllGood /\ [Call]_hello => AllGood'
    BY Zenon, CallStep DEF AllGood, Good, HelloSound
  <1>3. AllGood => TypeOK /\ HasBitsSound BY Zenon DEF AllGood, Good, TypeOK, HasBitsSound
  <1> QED BY <1>1, <1>2, <1>3, PTL DEF Calls

\* The Hello objects, under any calls of the generated functions, behave as values
\* with optional fields.
THEOREM ObjectsAreValues == Calls => ImplementsValue
  <1>1. NewObjects => AllGood /\ Value!Init BY Zenon, NewGood
  <1>2. AllGood /\ [Call]_hello => AllGood' /\ [Value!Next]_([o \in Objs |-> ValueOf(hello[o])])
    <2>1. CASE Call BY Zenon, <2>1, CallStep
    <2>2. CASE UNCHANGED hello BY Zenon, <2>2 DEF AllGood, Good, HelloSound, ValueOf, ContentValueOf
    <2> QED BY Zenon, <2>1, <2>2
  <1> QED BY <1>1, <1>2, PTL DEF Calls, ImplementsValue, Value!Spec

-----------------------------------------------------------------------------
(* The bytes of good objects.                                              *)

\* The program's objects are among the messages a parse may fill.
LEMMA GoodThere ==
    ASSUME NEW h, Good(h)
    PROVE  /\ ContentThere(h) /\ h \in HelloObjects
           /\ "content" \in h.has => h.content # NULL
<1>1. ContentObjects \subseteq ContentMessages
  BY Zenon, HelloAssumption DEF ContentObjects, ContentMessages
<1>2. h \in HelloObjects /\ ("content" \in h.has => h.content # NULL)
  BY Zenon DEF Good, HelloSound
<1>3. h \in HelloMessages /\ h.content \in ContentObjects \cup {NULL}
  BY <1>1, <1>2, HelloAssumption DEF HelloObjects, HelloMessages, Hello_HelloType
<1> QED BY <1>1, <1>2, <1>3 DEF ContentThere

\* Sizes are exact in a state of good objects.
LEMMA SizesGood == AllGood => SizeExact
<1>1. SUFFICES ASSUME AllGood, NEW o \in Objs
               PROVE  /\ Hello_ByteSizeLong(hello[o]) = Len(SerializeAsString(hello[o]))
                      /\ Content_ByteSizeLong(content(o)) = Len(Content_InternalSerialize(content(o)))
  BY Zenon DEF SizeExact
<1>2. ContentThere(hello[o])
  BY Zenon, <1>1, GoodThere DEF AllGood
<1>3. content(o) \in ContentMessages
  BY Zenon, <1>2, ContentShown DEF content
<1> QED BY Zenon, <1>2, <1>3, HelloSize, ContentSize

\* The bytes of a good object, framed or not.
LEMMA GoodBytes ==
    ASSUME NEW h, Good(h)
    PROVE  /\ SerializeAsString(h) \in Seq(Nat)
           /\ h.has # {} => Sendable(SerializeAsString(h))
           /\ headerInstaller(SerializeAsString(h)) \in Seq(Nat)
<1> DEFINE b == SerializeAsString(h)
           n == Hello_ByteSizeLong(h)
<1>1. b \in Seq(Nat) /\ n \in Nat /\ Len(b) = n
  BY Zenon, GoodThere, HelloSize
<1>2. n <= MaxInt32 /\ (h.has # {} => n >= 1)
  BY Zenon, GoodThere, HelloBound
<1> HIDE DEF b, n
<1>3. h.has # {} => Sendable(b)
  BY Zenon, <1>1, <1>2 DEF Sendable
<1>4. headerInstaller(b) \in Seq(Nat)
  <2>1. CASE n = 0
    <3>1. Header_InternalSerialize(Len(b)) = <<>>
      BY <1>1, <2>1, Zenon DEF Header_InternalSerialize, Where
    <3>2. headerInstaller(b) = <<>> \o b
      BY <3>1, Zenon DEF headerInstaller
    <3> QED BY Zenon, <1>1, <3>2, ConcatEmptySeq
  <2>2. CASE n # 0
    <3>1. Sendable(b)
      BY <1>1, <1>2, <2>2 DEF Sendable
    <3> QED BY Zenon, <3>1, FrameBytes
  <2> QED BY Zenon, <2>1, <2>2
<1> QED BY Zenon, <1>1, <1>3, <1>4 DEF b

\* Frames of good objects are read whole.
LEMMA FramesGood == AllGood => FramesReadWhole
<1>1. SUFFICES ASSUME AllGood, NEW o \in Objs, NEW p \in Objs, hello[o].has # {},
                      NEW n \in 0..Len(headerInstaller(SerializeAsString(hello[o]))
                                         \o headerInstaller(SerializeAsString(hello[p])))
               PROVE  canReadMsg(SubSeq(headerInstaller(SerializeAsString(hello[o]))
                                          \o headerInstaller(SerializeAsString(hello[p])), 1, n)) =
                          IF n < MSG_HEADER_LENGTH + Len(SerializeAsString(hello[o])) THEN 0
                          ELSE Len(SerializeAsString(hello[o]))
  BY Zenon DEF FramesReadWhole
<1> DEFINE msg == SerializeAsString(hello[o])
           rest == headerInstaller(SerializeAsString(hello[p]))
<1>2. Good(hello[o]) /\ Good(hello[p])
  BY Zenon, <1>1 DEF AllGood
<1>3. Sendable(msg) /\ rest \in Seq(Nat)
  BY Zenon, <1>1, <1>2, GoodBytes
<1>4. n \in 0..Len(headerInstaller(msg) \o rest)
  BY Zenon
<1> HIDE DEF msg, rest
<1>5. headerInstaller(msg) \o rest \in Seq(Nat)
  BY Zenon, <1>3, FrameBytes, JoinedBytes
<1>6. Len(headerInstaller(msg) \o rest) \in Nat
  BY Zenon, <1>5, LenProperties
<1>7. n \in Nat /\ n <= Len(headerInstaller(msg) \o rest)
  BY <1>4, <1>6
<1>8. canReadMsg(SubSeq(headerInstaller(msg) \o rest, 1, n)) =
          IF n < MSG_HEADER_LENGTH + Len(msg) THEN 0 ELSE Len(msg)
  BY Zenon, <1>3, <1>7, FrameRead
<1> QED BY Zenon, <1>8 DEF msg, rest

\* The frame of an enum message is read back whole in front of any bytes.
LEMMA EnumCrosses ==
    ASSUME NEW v \in {0, 1}, NEW rest \in Seq(Nat)
    PROVE  /\ ReadsFirst(Ack!InternalSerialize(Ack!set(v)), rest, Ack!Parse, Ack!set(v))
           /\ ReadsFirst(ControlChannelCmd!InternalSerialize(ControlChannelCmd!set(v)), rest,
                         ControlChannelCmd!Parse, ControlChannelCmd!set(v))
           /\ ReadsFirst(DataChannelCmd!InternalSerialize(DataChannelCmd!set(v)), rest,
                         DataChannelCmd!Parse, DataChannelCmd!set(v))
<1> DEFINE b == <<8, v>>
           S == headerInstaller(b) \o rest
           n == canReadMsg(S)
<1>1. Sendable(b) /\ Len(b) = 2 /\ b # <<>> /\ b[2] = v
  BY Zenon, EnumBytes
<1>2. /\ Ack!InternalSerialize(Ack!set(v)) = b
      /\ ControlChannelCmd!InternalSerialize(ControlChannelCmd!set(v)) = b
      /\ DataChannelCmd!InternalSerialize(DataChannelCmd!set(v)) = b
  BY Zenon DEF Ack!InternalSerialize, Ack!set, ControlChannelCmd!InternalSerialize,
     ControlChannelCmd!set, DataChannelCmd!InternalSerialize, DataChannelCmd!set
<1>3. /\ Ack!Parse(b) = Ack!set(v)
      /\ ControlChannelCmd!Parse(b) = ControlChannelCmd!set(v)
      /\ DataChannelCmd!Parse(b) = DataChannelCmd!set(v)
  <2> HIDE DEF b
  <2> QED BY <1>1, Zenon DEF Ack!Parse, ControlChannelCmd!Parse, DataChannelCmd!Parse
<1> HIDE DEF b
<1>4. /\ n = Len(b)
      /\ SubSeq(S, MSG_HEADER_LENGTH + 1, MSG_HEADER_LENGTH + n) = b
      /\ SubSeq(S, MSG_HEADER_LENGTH + n + 1, Len(S)) = rest
  BY <1>1, FrameParts, Zenon
<1>5. ReadsFirst(b, rest, Ack!Parse, Ack!set(v))
  BY <1>3, <1>4, Zenon DEF ReadsFirst
<1>6. ReadsFirst(b, rest, ControlChannelCmd!Parse, ControlChannelCmd!set(v))
  BY <1>3, <1>4, Zenon DEF ReadsFirst
<1>7. ReadsFirst(b, rest, DataChannelCmd!Parse, DataChannelCmd!set(v))
  BY <1>3, <1>4, Zenon DEF ReadsFirst
<1> QED BY <1>2, <1>5, <1>6, <1>7, Zenon

\* The objects of an enum class, and what is written of one.
EnumObjects == {[has |-> FALSE, value |-> 0], [has |-> TRUE, value |-> 0], [has |-> TRUE, value |-> 1]}
EnumWritten(m) == IF m.has THEN <<8, m.value>> ELSE <<>>
EnumTyped(m) ==
    /\ m = [has |-> m.has, value |-> m.value]
    /\ m.has \in BOOLEAN
    /\ ~m.has => m.value = 0

\* Two of them, written one after the other.
EnumPair(m, n) ==
    LET b == EnumWritten(m) \o EnumWritten(n)
    IN  /\ Len(EnumWritten(m)) = IF m.has THEN 1 + 1 ELSE 0
        /\ b = <<>> <=> ~m.has /\ ~n.has
        /\ n.has => b[Len(b)] = n.value
        /\ ~n.has /\ m.has => b[Len(b)] = m.value

\* The types of the enum messages' objects.
LEMMA EnumTypes == \A m \in EnumObjects : EnumTyped(m) /\ m.value \in Nat
<1>1. SUFFICES ASSUME NEW m \in EnumObjects PROVE EnumTyped(m) /\ m.value \in Nat
  BY Zenon
<1>2. CASE m = [has |-> FALSE, value |-> 0]
  BY Zenon, <1>2 DEF EnumTyped
<1>3. CASE m = [has |-> TRUE, value |-> 0]
  BY Zenon, <1>3 DEF EnumTyped
<1>4. CASE m = [has |-> TRUE, value |-> 1]
  BY Zenon, <1>4 DEF EnumTyped
<1> QED BY <1>1, <1>2, <1>3, <1>4, Zenon DEF EnumObjects

\* Two enum messages, one behind the other, parse to the second merged into the first.
LEMMA EnumPairs == \A m, n \in EnumObjects : EnumPair(m, n)
<1>1. SUFFICES ASSUME NEW m \in EnumObjects, NEW n \in EnumObjects PROVE EnumPair(m, n)
  BY Zenon
<1>2. m.has \in BOOLEAN /\ n.has \in BOOLEAN /\ m.value \in Nat /\ n.value \in Nat
  BY Zenon, EnumTypes DEF EnumTyped
<1> DEFINE x == m.value
           y == n.value
<1>3. x \in Nat /\ y \in Nat
  BY Zenon, <1>2
<1>4. CASE m.has /\ n.has
  <2>1. EnumWritten(m) = <<8, x>> /\ EnumWritten(n) = <<8, y>>
    BY Zenon, <1>4 DEF EnumWritten
  <2> HIDE DEF x, y
  <2>2. <<8, x>> \in Seq(Nat) /\ <<8, y>> \in Seq(Nat) /\ Len(<<8, x>>) = 2 /\ Len(<<8, y>>) = 2
        /\ <<8, y>>[2] = y
    BY <1>3
  <2> DEFINE b == <<8, x>> \o <<8, y>>
  <2>3. b \in Seq(Nat) /\ Len(b) = 4 /\ b[4] = y
    <3> DEFINE s == <<8, x>>
               t == <<8, y>>
    <3> HIDE DEF s, t
    <3>1. s \in Seq(Nat) /\ t \in Seq(Nat) /\ Len(s) = 2 /\ Len(t) = 2 /\ t[2] = y
      BY Zenon, <2>2 DEF s, t
    <3> DEFINE u == s \o t
    <3>2. /\ u \in Seq(Nat) /\ Len(u) = Len(s) + Len(t)
          /\ \A i \in 1..Len(s) + Len(t) : u[i] = IF i <= Len(s) THEN s[i] ELSE t[i - Len(s)]
      BY Zenon, <3>1, ConcatProperties
    <3> HIDE DEF u
    <3>3. Len(u) = 4 /\ u[4] = t[2]
      BY <3>1, <3>2
    <3> QED BY <3>1, <3>2, <3>3, Zenon DEF s, t, u
  <2> HIDE DEF b
  <2>4. b # <<>> /\ b[Len(b)] = y
    BY <2>3
  <2>5. EnumWritten(m) \o EnumWritten(n) = b /\ Len(EnumWritten(m)) = 1 + 1
    BY <2>1, <2>2 DEF b
  <2> QED BY Zenon, <1>4, <2>4, <2>5 DEF EnumPair, y
<1>5. CASE m.has /\ ~n.has
  <2>1. EnumWritten(m) = <<8, x>> /\ EnumWritten(n) = <<>>
    BY Zenon, <1>5 DEF EnumWritten
  <2> HIDE DEF x, y
  <2>2. <<8, x>> \o <<>> = <<8, x>>
    BY <1>3
  <2> QED BY <1>3, <1>5, <2>1, <2>2 DEF EnumPair, x
<1>6. CASE ~m.has /\ n.has
  <2>1. EnumWritten(m) = <<>> /\ EnumWritten(n) = <<8, y>>
    BY Zenon, <1>6 DEF EnumWritten
  <2> HIDE DEF x, y
  <2>2. <<>> \o <<8, y>> = <<8, y>>
    BY <1>3
  <2> QED BY <1>3, <1>6, <2>1, <2>2 DEF EnumPair, y
<1>7. CASE ~m.has /\ ~n.has
  <2>1. EnumWritten(m) = <<>> /\ EnumWritten(n) = <<>>
    BY Zenon, <1>7 DEF EnumWritten
  <2>2. <<>> \o <<>> = <<>>
    OBVIOUS
  <2> QED BY Zenon, <1>7, <2>1, <2>2 DEF EnumPair
<1> QED BY <1>2, <1>4, <1>5, <1>6, <1>7

\* Sizes, parse and merge of the three enum classes agree.
LEMMA EnumsAgree == Ack!Agree /\ ControlChannelCmd!Agree /\ DataChannelCmd!Agree
<1>1. Ack!Agree
  <2>1. {Ack!New} \cup {Ack!set(v) : v \in Ack_AckContent} = EnumObjects
    BY Zenon DEF Ack!New, Ack!set, Ack_AckContent, EnumObjects
  <2>2. \A m : Ack!InternalSerialize(m) = EnumWritten(m)
    BY Zenon DEF Ack!InternalSerialize, EnumWritten
  <2>3. ASSUME NEW m \in EnumObjects, NEW n \in EnumObjects
        PROVE  /\ Ack!ByteSizeLong(m) = Len(EnumWritten(m))
               /\ Ack!Parse(EnumWritten(m) \o EnumWritten(n)) = Ack!MergeImpl(m, n)
               /\ Ack!CopyFrom(m, n) = n
    <3>1. EnumPair(m, n)
      BY Zenon, EnumPairs
    <3>2. EnumTyped(m) /\ EnumTyped(n)
      BY EnumTypes, Zenon
    <3>3. Ack!ByteSizeLong(m) = Len(EnumWritten(m))
      BY Zenon, <3>1 DEF EnumPair, Ack!ByteSizeLong
    <3>4. Ack!CopyFrom(m, n) = n
      BY Zenon, <3>2 DEF EnumTyped, Ack!CopyFrom, Ack!MergeImpl, Ack!Clear, Ack!New
    <3>5. Ack!Parse(EnumWritten(m) \o EnumWritten(n)) = Ack!MergeImpl(m, n)
      <4> DEFINE b == EnumWritten(m) \o EnumWritten(n)
      <4>1. /\ b = <<>> <=> ~m.has /\ ~n.has
            /\ n.has => b[Len(b)] = n.value
            /\ ~n.has /\ m.has => b[Len(b)] = m.value
        BY Zenon, <3>1 DEF EnumPair
      <4> HIDE DEF b
      <4>2. Ack!Parse(b) = Ack!MergeImpl(m, n)
        BY ZenonT(40), <3>2, <4>1 DEF EnumTyped, Ack!Parse, Ack!MergeImpl, Ack!New, Ack!set
      <4> QED BY Zenon, <4>2 DEF b
    <3> QED BY Zenon, <3>3, <3>4, <3>5
  <2> QED BY <2>1, <2>2, <2>3, Zenon DEF Ack!Agree
<1>2. ControlChannelCmd!Agree
  <2>1. {ControlChannelCmd!New} \cup {ControlChannelCmd!set(v) : v \in ControlChannelCmd_CCmd} = EnumObjects
    BY Zenon DEF ControlChannelCmd!New, ControlChannelCmd!set, ControlChannelCmd_CCmd, EnumObjects
  <2>2. \A m : ControlChannelCmd!InternalSerialize(m) = EnumWritten(m)
    BY Zenon DEF ControlChannelCmd!InternalSerialize, EnumWritten
  <2>3. ASSUME NEW m \in EnumObjects, NEW n \in EnumObjects
        PROVE  /\ ControlChannelCmd!ByteSizeLong(m) = Len(EnumWritten(m))
               /\ ControlChannelCmd!Parse(EnumWritten(m) \o EnumWritten(n)) = ControlChannelCmd!MergeImpl(m, n)
               /\ ControlChannelCmd!CopyFrom(m, n) = n
    <3>1. EnumPair(m, n)
      BY Zenon, EnumPairs
    <3>2. EnumTyped(m) /\ EnumTyped(n)
      BY EnumTypes, Zenon
    <3>3. ControlChannelCmd!ByteSizeLong(m) = Len(EnumWritten(m))
      BY Zenon, <3>1 DEF EnumPair, ControlChannelCmd!ByteSizeLong
    <3>4. ControlChannelCmd!CopyFrom(m, n) = n
      BY Zenon, <3>2
          DEF EnumTyped, ControlChannelCmd!CopyFrom, ControlChannelCmd!MergeImpl,
              ControlChannelCmd!Clear, ControlChannelCmd!New
    <3>5. ControlChannelCmd!Parse(EnumWritten(m) \o EnumWritten(n)) = ControlChannelCmd!MergeImpl(m, n)
      <4> DEFINE b == EnumWritten(m) \o EnumWritten(n)
      <4>1. /\ b = <<>> <=> ~m.has /\ ~n.has
            /\ n.has => b[Len(b)] = n.value
            /\ ~n.has /\ m.has => b[Len(b)] = m.value
        BY Zenon, <3>1 DEF EnumPair
      <4> HIDE DEF b
      <4>2. ControlChannelCmd!Parse(b) = ControlChannelCmd!MergeImpl(m, n)
        BY Zenon, <3>2, <4>1
          DEF EnumTyped, ControlChannelCmd!Parse, ControlChannelCmd!MergeImpl,
              ControlChannelCmd!New, ControlChannelCmd!set
      <4> QED BY Zenon, <4>2 DEF b
    <3> QED BY Zenon, <3>3, <3>4, <3>5
  <2> QED BY <2>1, <2>2, <2>3, Zenon DEF ControlChannelCmd!Agree
<1>3. DataChannelCmd!Agree
  <2>1. {DataChannelCmd!New} \cup {DataChannelCmd!set(v) : v \in DataChannelCmd_DCmd} = EnumObjects
    BY Zenon DEF DataChannelCmd!New, DataChannelCmd!set, DataChannelCmd_DCmd, EnumObjects
  <2>2. \A m : DataChannelCmd!InternalSerialize(m) = EnumWritten(m)
    BY Zenon DEF DataChannelCmd!InternalSerialize, EnumWritten
  <2>3. ASSUME NEW m \in EnumObjects, NEW n \in EnumObjects
        PROVE  /\ DataChannelCmd!ByteSizeLong(m) = Len(EnumWritten(m))
               /\ DataChannelCmd!Parse(EnumWritten(m) \o EnumWritten(n)) = DataChannelCmd!MergeImpl(m, n)
               /\ DataChannelCmd!CopyFrom(m, n) = n
    <3>1. EnumPair(m, n)
      BY Zenon, EnumPairs
    <3>2. EnumTyped(m) /\ EnumTyped(n)
      BY EnumTypes, Zenon
    <3>3. DataChannelCmd!ByteSizeLong(m) = Len(EnumWritten(m))
      BY Zenon, <3>1 DEF EnumPair, DataChannelCmd!ByteSizeLong
    <3>4. DataChannelCmd!CopyFrom(m, n) = n
      BY Zenon, <3>2
          DEF EnumTyped, DataChannelCmd!CopyFrom, DataChannelCmd!MergeImpl,
              DataChannelCmd!Clear, DataChannelCmd!New
    <3>5. DataChannelCmd!Parse(EnumWritten(m) \o EnumWritten(n)) = DataChannelCmd!MergeImpl(m, n)
      <4> DEFINE b == EnumWritten(m) \o EnumWritten(n)
      <4>1. /\ b = <<>> <=> ~m.has /\ ~n.has
            /\ n.has => b[Len(b)] = n.value
            /\ ~n.has /\ m.has => b[Len(b)] = m.value
        BY Zenon, <3>1 DEF EnumPair
      <4> HIDE DEF b
      <4>2. DataChannelCmd!Parse(b) = DataChannelCmd!MergeImpl(m, n)
        BY Zenon, <3>2, <4>1
          DEF EnumTyped, DataChannelCmd!Parse, DataChannelCmd!MergeImpl,
              DataChannelCmd!New, DataChannelCmd!set
      <4> QED BY Zenon, <4>2 DEF b
    <3> QED BY Zenon, <3>3, <3>4, <3>5
  <2> QED BY <2>1, <2>2, <2>3, Zenon DEF DataChannelCmd!Agree
<1> QED BY Zenon, <1>1, <1>2, <1>3

\* Acknowledgements and commands cross in front of the frame of any good object.
LEMMA CommandsGood == AllGood => CommandsCross
<1>1. SUFFICES ASSUME AllGood PROVE CommandsCross
  BY Zenon
<1>2. \A o \in Objs : headerInstaller(SerializeAsString(hello[o])) \in Seq(Nat)
  BY Zenon, <1>1, GoodBytes DEF AllGood
<1> QED BY <1>2, EnumCrosses, EnumsAgree, Zenon DEF CommandsCross

-----------------------------------------------------------------------------
(* The parse loop, first of a content and then of a Hello.                 *)

\* What a parse loop does at bytes: the step for the first record, then the rest.
LoopBody(f, M, N, b) == [c \in M |-> IF b = <<>> THEN c ELSE f[FirstRecord(b).rest][N[b][c]]]
Loop(f, M, N) == f = [b \in Seq(Nat) |-> LoopBody(f, M, N, b)]
Steps(N, M) == N \in [Seq(Nat) -> [M -> M]]

\* The body of the loop gives objects.
LEMMA LoopBodyType ==
    ASSUME NEW M, NEW N, Steps(N, M), NEW f, NEW b \in Seq(Nat),
           b # <<>> => f[FirstRecord(b).rest] \in [M -> M]
    PROVE  LoopBody(f, M, N, b) \in [M -> M]
  BY Zenon DEF LoopBody, Steps

\* What follows the first record is shorter, so the loop ends.
LEMMA RestShorter ==
    ASSUME NEW b \in Seq(Nat), b # <<>>
    PROVE  /\ FirstRecord(b).rest \in Seq(Nat) /\ Len(FirstRecord(b).rest) \in Nat
           /\ Len(b) \in Nat /\ Len(FirstRecord(b).rest) < Len(b)
  BY Zenon, RecordTaken, LenProperties DEF RecordFacts

\* There is a function that loops so.
LEMMA LoopExists ==
    ASSUME NEW M, NEW N, Steps(N, M)
    PROVE  \E f : Loop(f, M, N)
<1> DEFINE S == Seq(Nat)
           V == [M -> M]
           D == [b \in S |-> [g \in [S -> V] |-> LoopBody(g, M, N, b)]]
           rank == [b \in S |-> Len(b)]
<1>1. D \in [S -> [[S -> V] -> V]]
  <2>1. \A b \in S : \A g \in [S -> V] : LoopBody(g, M, N, b) \in V
    BY Zenon, LoopBodyType, RestShorter
  <2> HIDE DEF V
  <2> QED BY Zenon, <2>1
<1>2. ASSUME NEW b \in S, NEW g \in [S -> V], NEW h \in [S -> V],
             \A c \in S : rank[c] < rank[b] => g[c] = h[c]
      PROVE  D[b][g] = D[b][h]
  <2>1. b # <<>> => g[FirstRecord(b).rest] = h[FirstRecord(b).rest]
    BY Zenon, <1>2, RestShorter
  <2>2. LoopBody(g, M, N, b) = LoopBody(h, M, N, b)
    BY Zenon, <2>1 DEF LoopBody
  <2> HIDE DEF V
  <2> QED BY Zenon, <2>2
<1>3. Solved(D, S, V)
  <2>1. rank \in [S -> Nat] /\ V # {}
    <3>1. [c \in M |-> c] \in V
      BY Zenon
    <3>2. \A b \in S : Len(b) \in Nat
      BY Zenon, LenProperties
    <3> HIDE DEF V
    <3> QED BY Zenon, <3>1, <3>2
  <2> HIDE DEF D, rank, S, V
  <2>2. Defines(D, S, V, rank)
    BY Zenon, <1>1, <1>2, <2>1 DEF Defines
  <2> QED BY Zenon, <2>2, Recursion
<1>4. PICK f \in [S -> V] : \A b \in S : f[b] = D[b][f]
  <2> HIDE DEF D, S, V
  <2> QED BY Zenon, <1>3 DEF Solved
<1>5. f = [b \in S |-> LoopBody(f, M, N, b)]
  <2> HIDE DEF V
  <2> QED BY Zenon, <1>4
<1> QED BY <1>5, Zenon DEF Loop

\* It makes messages of messages.
LEMMA LoopTyped ==
    ASSUME NEW M, NEW N, Steps(N, M), NEW f, Loop(f, M, N)
    PROVE  \A b \in Seq(Nat) : f[b] = LoopBody(f, M, N, b) /\ f[b] \in [M -> M]
<1>1. \A b \in Seq(Nat) : f[b] = LoopBody(f, M, N, b)
  BY Zenon DEF Loop
<1> DEFINE Bad == {b \in Seq(Nat) : f[b] \notin [M -> M]}
           Ranks == {Len(b) : b \in Bad}
<1>2. SUFFICES ASSUME Bad # {} PROVE FALSE
  BY Zenon, <1>1
<1>3. Ranks \in SUBSET Nat /\ Ranks # {}
  <2>1. \A b \in Bad : Len(b) \in Nat
    BY Zenon, LenProperties
  <2> HIDE DEF Bad
  <2> QED BY Zenon, <1>2, <2>1
<1>4. PICK r \in Ranks : \A s \in Ranks : r <= s
  <2> HIDE DEF Ranks
  <2> QED BY Zenon, <1>3, Least
<1>5. PICK b \in Bad : r = Len(b)
  BY Zenon
<1>6. b # <<>> => f[FirstRecord(b).rest] \in [M -> M]
  <2> SUFFICES ASSUME b # <<>>, f[FirstRecord(b).rest] \notin [M -> M] PROVE FALSE
    BY Zenon
  <2> DEFINE t == FirstRecord(b).rest
  <2>1. t \in Seq(Nat) /\ Len(t) \in Nat /\ Len(b) \in Nat /\ Len(t) < Len(b)
    BY Zenon, RestShorter
  <2> HIDE DEF t
  <2>2. t \in Bad
    BY Zenon, <2>1 DEF t
  <2>3. Len(t) \in Ranks
    BY Zenon, <2>2
  <2> HIDE DEF Ranks, Bad
  <2>4. r <= Len(t)
    BY Zenon, <1>4, <2>3
  <2> QED BY <1>5, <2>1, <2>4
<1>7. LoopBody(f, M, N, b) \in [M -> M]
  BY Zenon, <1>6, LoopBodyType
<1> QED BY Zenon, <1>1, <1>7

-----------------------------------------------------------------------------

\* The step of the content's loop.
ContentSteps ==
    [b \in Seq(Nat) |-> [c \in ContentMessages |->
        IF b = <<>> THEN c ELSE Content_table(c, FirstRecord(b))]]

\* The setters of a content keep its type.
LEMMA SettersType ==
    ASSUME NEW c \in ContentMessages
    PROVE  /\ \A s \in Seq(Nat) : set_service_name(c, s) \in ContentMessages
           /\ \A v \in Nat : set_proxy_port(c, v) \in ContentMessages
<1>1. ASSUME NEW s \in Seq(Nat) PROVE set_service_name(c, s) \in ContentMessages
  BY Zenon DEF set_service_name, ContentMessages
<1>2. ASSUME NEW v \in Nat PROVE set_proxy_port(c, v) \in ContentMessages
  BY ZenonT(40) DEF set_proxy_port, ContentMessages
<1> QED BY Zenon, <1>1, <1>2

\* So does a row of its parse table.
LEMMA ContentTableType ==
    ASSUME NEW c \in ContentMessages, NEW r, NEW b, RecordFacts(r, b)
    PROVE  Content_table(c, r) \in ContentMessages
<1>1. CASE r.tag = 10
  <2>1. r.value \in Seq(Nat)
    BY <1>1 DEF RecordFacts
  <2>2. Content_table(c, r) = set_service_name(c, r.value)
    BY Zenon, <1>1 DEF Content_table
  <2> QED BY Zenon, <2>1, <2>2, SettersType
<1>2. CASE r.tag = 16
  <2>1. r.value \in Nat
    BY <1>2 DEF RecordFacts
  <2>2. Content_table(c, r) = set_proxy_port(c, r.value)
    BY <1>2 DEF Content_table
  <2> QED BY Zenon, <2>1, <2>2, SettersType
<1>3. CASE r.tag # 10 /\ r.tag # 16
  BY Zenon, <1>3 DEF Content_table
<1> QED BY <1>1, <1>2, <1>3

\* The steps of the loop over a content's records.
LEMMA ContentStepsType == Steps(ContentSteps, ContentMessages)
<1>1. \A b \in Seq(Nat) : \A c \in ContentMessages :
        (IF b = <<>> THEN c ELSE Content_table(c, FirstRecord(b))) \in ContentMessages
  BY Zenon, RecordTaken, ContentTableType
<1> HIDE DEF ContentMessages
<1> QED BY Zenon, <1>1 DEF Steps, ContentSteps

\* Content_Parse is that loop.
LEMMA ContentLoop == Loop(Content_Parse, ContentMessages, ContentSteps)
<1> DEFINE Body(f, b) ==
      [c \in ContentMessages |->
        IF b = <<>> THEN c
        ELSE LET record == FirstRecord(b) IN f[record.rest][Content_table(c, record)]]
<1>1. \A f : \A b \in Seq(Nat) : LoopBody(f, ContentMessages, ContentSteps, b) = Body(f, b)
  <2> SUFFICES ASSUME NEW f, NEW b \in Seq(Nat)
               PROVE  LoopBody(f, ContentMessages, ContentSteps, b) = Body(f, b)
    BY Zenon
  <2>1. \A c \in ContentMessages : b # <<>> => ContentSteps[b][c] = Content_table(c, FirstRecord(b))
    <3> HIDE DEF ContentMessages
    <3> QED BY Zenon DEF ContentSteps
  <2> QED BY Zenon, <2>1 DEF LoopBody
<1>2. PICK f : Loop(f, ContentMessages, ContentSteps)
  BY Zenon, LoopExists, ContentStepsType
<1>3. f = [b \in Seq(Nat) |-> Body(f, b)]
  <2> HIDE DEF Body
  <2> QED BY Zenon, <1>1, <1>2 DEF Loop
<1>4. \E g : g = [b \in Seq(Nat) |-> Body(g, b)]
  BY <1>3, Zenon
<1>5. Content_Parse = [b \in Seq(Nat) |-> Body(Content_Parse, b)]
  BY <1>4, Zenon DEF Content_Parse
<1> HIDE DEF Body
<1> QED BY Zenon, <1>1, <1>5 DEF Loop

\* Its two equations.
LEMMA ContentParses ==
    /\ \A b \in Seq(Nat) : Content_Parse[b] \in [ContentMessages -> ContentMessages]
    /\ \A c \in ContentMessages : Content_Parse[<<>>][c] = c
    /\ \A b \in Seq(Nat) : \A c \in ContentMessages :
          b # <<>> => Content_Parse[b][c] =
                        Content_Parse[FirstRecord(b).rest][Content_table(c, FirstRecord(b))]
<1>1. \A b \in Seq(Nat) :
          /\ Content_Parse[b] = LoopBody(Content_Parse, ContentMessages, ContentSteps, b)
          /\ Content_Parse[b] \in [ContentMessages -> ContentMessages]
  BY Zenon, ContentLoop, ContentStepsType, LoopTyped
<1>2. <<>> \in Seq(Nat)
  BY Zenon, EmptySeq
<1>3. \A b \in Seq(Nat) : \A c \in ContentMessages :
          b # <<>> => ContentSteps[b][c] = Content_table(c, FirstRecord(b))
  <2> HIDE DEF ContentMessages
  <2> QED BY Zenon DEF ContentSteps
<1> HIDE DEF ContentMessages, ContentSteps
<1>4. ASSUME NEW b \in Seq(Nat), NEW c \in ContentMessages
      PROVE  Content_Parse[b][c] =
            IF b = <<>> THEN c ELSE Content_Parse[FirstRecord(b).rest][ContentSteps[b][c]]
  <2>1. Content_Parse[b] = LoopBody(Content_Parse, ContentMessages, ContentSteps, b)
    BY <1>1, Zenon
  <2>2. LoopBody(Content_Parse, ContentMessages, ContentSteps, b)[c] =
            IF b = <<>> THEN c ELSE Content_Parse[FirstRecord(b).rest][ContentSteps[b][c]]
    BY Zenon DEF LoopBody
  <2> QED BY <2>1, <2>2, Zenon
<1>5. \A c \in ContentMessages : Content_Parse[<<>>][c] = c
  BY <1>2, <1>4, Zenon
<1>6. ASSUME NEW b \in Seq(Nat), NEW c \in ContentMessages, b # <<>>
      PROVE  Content_Parse[b][c] =
               Content_Parse[FirstRecord(b).rest][Content_table(c, FirstRecord(b))]
  <2>1. ContentSteps[b][c] = Content_table(c, FirstRecord(b))
    BY Zenon, <1>3, <1>6
  <2>2. Content_Parse[b][c] = Content_Parse[FirstRecord(b).rest][ContentSteps[b][c]]
    BY <1>4, <1>6, Zenon
  <2> QED BY <2>1, <2>2, Zenon
<1> QED BY <1>1, <1>5, <1>6, Zenon

\* A string field and a number field of a content, written in front, are put into it.
LEMMA ContentFields ==
    ASSUME NEW c \in ContentMessages, NEW rest \in Seq(Nat)
    PROVE  /\ \A s \in Seq(Nat) : Content_Parse[Delimited(1, s) \o rest][c]
                                    = Content_Parse[rest][set_service_name(c, s)]
           /\ \A v \in Nat : Content_Parse[Number(2, v) \o rest][c]
                               = Content_Parse[rest][set_proxy_port(c, v)]
<1>1. ASSUME NEW s \in Seq(Nat)
      PROVE  Content_Parse[Delimited(1, s) \o rest][c] = Content_Parse[rest][set_service_name(c, s)]
  <2> DEFINE b == Delimited(1, s) \o rest
             r == [tag |-> 10, value |-> s, rest |-> rest]
  <2>1. b \in Seq(Nat) /\ b # <<>> /\ FirstRecord(b) = r
    BY 1 \in Nat, 8 * 1 + 2 = 10, DelimitedFirst, ZenonT(40)
  <2>2. Content_table(c, r) = set_service_name(c, s) /\ r.rest = rest
    BY Zenon DEF Content_table
  <2> HIDE DEF b, r
  <2>3. Content_Parse[b][c] = Content_Parse[FirstRecord(b).rest][Content_table(c, FirstRecord(b))]
    BY <2>1, ContentParses, Zenon
  <2> QED BY <2>1, <2>2, <2>3, Zenon DEF b
<1>2. ASSUME NEW v \in Nat
      PROVE  Content_Parse[Number(2, v) \o rest][c] = Content_Parse[rest][set_proxy_port(c, v)]
  <2> DEFINE b == Number(2, v) \o rest
             r == [tag |-> 16, value |-> v, rest |-> rest]
  <2>1. b \in Seq(Nat) /\ b # <<>> /\ FirstRecord(b) = r
    BY 2 \in Nat, 8 * 2 = 16, NumberFirst, Zenon
  <2>2. Content_table(c, r) = set_proxy_port(c, v) /\ r.rest = rest
    BY 16 # 10 DEF Content_table
  <2> HIDE DEF b, r
  <2>3. Content_Parse[b][c] = Content_Parse[FirstRecord(b).rest][Content_table(c, FirstRecord(b))]
    BY <2>1, ContentParses, Zenon
  <2> QED BY <2>1, <2>2, <2>3, Zenon DEF b
<1> QED BY Zenon, <1>1, <1>2

\* The bytes of a content, parsed into another, merge it in.
LEMMA ContentReads ==
    ASSUME NEW c \in ContentMessages, NEW d \in ContentMessages
    PROVE  Content_Parse[Content_InternalSerialize(d)][c] = Content_MergeImpl(c, d)
<1> DEFINE p == "service_name" \in d.has
           q == "proxy_port" \in d.has
           s == d.service_name
           v == d.proxy_port
           X == Where(p, Delimited(1, s))
           Y == Where(q, Number(2, v))
           e == IF p THEN set_service_name(c, s) ELSE c
           g == IF q THEN set_proxy_port(e, v) ELSE e
<1>1. s \in Seq(Nat) /\ v \in Nat /\ d.has \subseteq {"service_name", "proxy_port"}
  BY Zenon DEF ContentMessages
<1>2. e \in ContentMessages
  <2> HIDE DEF s, p
  <2> QED BY Zenon, <1>1, SettersType
<1>3. g \in ContentMessages
  <2> HIDE DEF e, q, v
  <2> QED BY Zenon, <1>1, <1>2, SettersType
<1>4. g = Content_MergeImpl(c, d)
  <2>1. c = [has |-> c.has, service_name |-> c.service_name, proxy_port |-> c.proxy_port]
    BY Zenon DEF ContentMessages
  <2>2. d.has = (IF p THEN {"service_name"} ELSE {}) \cup (IF q THEN {"proxy_port"} ELSE {})
    BY Zenon, <1>1
  <2> QED BY Zenon, <2>1, <2>2 DEF set_service_name, set_proxy_port, Content_MergeImpl
<1>5. Content_InternalSerialize(d) = X \o Y
  BY Zenon DEF Content_InternalSerialize
<1>6. Y \in Seq(Nat) /\ <<>> \in Seq(Nat)
  <2>1. q \in BOOLEAN
    OBVIOUS
  <2> HIDE DEF q, v
  <2> QED BY <1>1, <2>1, 2 < 15, 2 \in Nat, NumberPart, EmptySeq, Zenon
<1>7. Content_Parse[X \o Y][c] = Content_Parse[Y][e]
  <2>1. CASE p
    <3>1. X = Delimited(1, s) /\ e = set_service_name(c, s)
      BY <2>1, Zenon DEF Where
    <3> HIDE DEF X, Y, e, s
    <3> QED BY <1>1, <1>6, <3>1, ContentFields, Zenon
  <2>2. CASE ~p
    <3>1. X = <<>> /\ e = c
      BY <2>2, Zenon DEF Where
    <3> HIDE DEF X, Y, e
    <3>2. X \o Y = Y
      BY Zenon, <1>6, <3>1, ConcatEmptySeq
    <3> QED BY <3>1, <3>2, Zenon
  <2> QED BY Zenon, <2>1, <2>2
<1>8. Content_Parse[Y][e] = g
  <2>1. CASE q
    <3>1. Y = Number(2, v) /\ g = set_proxy_port(e, v)
      BY <2>1, Zenon DEF Where
    <3> HIDE DEF Y, e, g, v
    <3>2. Y \o <<>> = Y
      BY Zenon, <1>6, ConcatEmptySeq
    <3>3. Content_Parse[Y \o <<>>][e] = Content_Parse[<<>>][g]
      BY <1>1, <1>2, <1>6, <3>1, ContentFields, Zenon
    <3> QED BY <1>3, <3>2, <3>3, ContentParses, Zenon
  <2>2. CASE ~q
    <3>1. Y = <<>> /\ g = e
      BY <2>2, Zenon DEF Where
    <3> HIDE DEF Y, e, g
    <3> QED BY <1>2, <3>1, ContentParses, Zenon
  <2> QED BY Zenon, <2>1, <2>2
<1> HIDE DEF X, Y, e, g
<1> QED BY <1>4, <1>5, <1>7, <1>8, Zenon

HelloSteps ==
    [b \in Seq(Nat) |-> [h \in HelloMessages |->
        IF b = <<>> THEN h ELSE Hello_table(h, FirstRecord(b))]]

\* The setters of a Hello keep its type.
LEMMA HelloSettersType ==
    ASSUME NEW h \in HelloMessages
    PROVE  /\ \A v \in Nat : set_hello_type(h, v) \in HelloMessages
           /\ \A s \in Seq(Nat) : set_digest(h, s) \in HelloMessages
           /\ \A c \in ContentMessages : mutable_content(h, c) \in HelloMessages
           /\ control_channel_hello_content(h) \in ContentMessages
<1>1. ASSUME NEW v \in Nat PROVE set_hello_type(h, v) \in HelloMessages
  BY Zenon DEF set_hello_type, HelloMessages
<1>2. ASSUME NEW s \in Seq(Nat) PROVE set_digest(h, s) \in HelloMessages
  BY Zenon DEF set_digest, HelloMessages
<1>3. ASSUME NEW c \in ContentMessages PROVE mutable_content(h, c) \in HelloMessages
  BY Zenon DEF mutable_content, HelloMessages
<1>4. control_channel_hello_content(h) \in ContentMessages
  <2>1. NewContent \in ContentMessages
    <3>1. <<>> \in Seq(Nat)
      BY Zenon, EmptySeq
    <3> QED BY Zenon, <3>1 DEF NewContent, Empty, ContentMessages
  <2>2. h.content \in ContentMessages \cup {NULL}
    BY Zenon DEF HelloMessages
  <2> QED BY Zenon, <2>1, <2>2 DEF control_channel_hello_content
<1> QED BY <1>1, <1>2, <1>3, <1>4

\* So does a row of its parse table.
LEMMA HelloTableType ==
    ASSUME NEW h \in HelloMessages, NEW r, NEW b, RecordFacts(r, b)
    PROVE  Hello_table(h, r) \in HelloMessages
<1>1. CASE r.tag = 8
  <2>1. r.value \in Nat
    BY <1>1 DEF RecordFacts
  <2>2. Hello_table(h, r) = set_hello_type(h, r.value)
    BY Zenon, <1>1 DEF Hello_table
  <2> QED BY Zenon, <2>1, <2>2, HelloSettersType
<1>2. CASE r.tag = 18
  <2>1. r.value \in Seq(Nat)
    BY <1>2 DEF RecordFacts
  <2>2. Hello_table(h, r) = set_digest(h, r.value)
    BY <1>2 DEF Hello_table
  <2> QED BY Zenon, <2>1, <2>2, HelloSettersType
<1>3. CASE r.tag = 26
  <2> DEFINE c == Content_Parse[r.value][control_channel_hello_content(h)]
  <2>1. r.value \in Seq(Nat)
    BY <1>3 DEF RecordFacts
  <2>2. Hello_table(h, r) = mutable_content(h, c)
    BY <1>3 DEF Hello_table
  <2>3. c \in ContentMessages
    BY ZenonT(40), <2>1, ContentParses, HelloSettersType
  <2> HIDE DEF c
  <2> QED BY Zenon, <2>2, <2>3, HelloSettersType
<1>4. CASE r.tag # 8 /\ r.tag # 18 /\ r.tag # 26
  BY <1>4 DEF Hello_table
<1> QED BY <1>1, <1>2, <1>3, <1>4

\* The steps of the loop over a Hello's records.
LEMMA HelloStepsType == Steps(HelloSteps, HelloMessages)
<1>1. \A b \in Seq(Nat) : \A h \in HelloMessages :
        (IF b = <<>> THEN h ELSE Hello_table(h, FirstRecord(b))) \in HelloMessages
  BY Zenon, RecordTaken, HelloTableType
<1> QED BY Zenon, <1>1 DEF Steps, HelloSteps

\* Hello_Parse is the same loop.
LEMMA HelloLoop == Loop(Hello_Parse, HelloMessages, HelloSteps)
<1> DEFINE Body(f, b) ==
      [h \in HelloMessages |->
        IF b = <<>> THEN h
        ELSE LET record == FirstRecord(b) IN f[record.rest][Hello_table(h, record)]]
<1>1. \A f : \A b \in Seq(Nat) : LoopBody(f, HelloMessages, HelloSteps, b) = Body(f, b)
  <2> SUFFICES ASSUME NEW f, NEW b \in Seq(Nat)
               PROVE  LoopBody(f, HelloMessages, HelloSteps, b) = Body(f, b)
    BY Zenon
  <2>1. \A h \in HelloMessages : b # <<>> => HelloSteps[b][h] = Hello_table(h, FirstRecord(b))
    BY Zenon DEF HelloSteps
  <2> QED BY Zenon, <2>1 DEF LoopBody
<1>2. PICK f : Loop(f, HelloMessages, HelloSteps)
  BY Zenon, LoopExists, HelloStepsType
<1>3. f = [b \in Seq(Nat) |-> Body(f, b)]
  <2> HIDE DEF Body
  <2> QED BY Zenon, <1>1, <1>2 DEF Loop
<1>4. \E g : g = [b \in Seq(Nat) |-> Body(g, b)]
  BY <1>3, Zenon
<1>5. Hello_Parse = [b \in Seq(Nat) |-> Body(Hello_Parse, b)]
  BY <1>4, Zenon DEF Hello_Parse
<1> HIDE DEF Body
<1> QED BY Zenon, <1>1, <1>5 DEF Loop

\* Its two equations.
LEMMA HelloParses ==
    /\ \A h \in HelloMessages : Hello_Parse[<<>>][h] = h
    /\ \A b \in Seq(Nat) : \A h \in HelloMessages :
          b # <<>> => Hello_Parse[b][h] =
                        Hello_Parse[FirstRecord(b).rest][Hello_table(h, FirstRecord(b))]
<1>1. \A b \in Seq(Nat) : Hello_Parse[b] = LoopBody(Hello_Parse, HelloMessages, HelloSteps, b)
  BY HelloLoop, HelloStepsType, LoopTyped
<1>2. <<>> \in Seq(Nat)
  BY Zenon, EmptySeq
<1>3. \A b \in Seq(Nat) : \A h \in HelloMessages :
          b # <<>> => HelloSteps[b][h] = Hello_table(h, FirstRecord(b))
  BY Zenon DEF HelloSteps
<1>4. ASSUME NEW b \in Seq(Nat), NEW h \in HelloMessages
      PROVE  Hello_Parse[b][h] =
            IF b = <<>> THEN h ELSE Hello_Parse[FirstRecord(b).rest][HelloSteps[b][h]]
  <2>1. Hello_Parse[b] = LoopBody(Hello_Parse, HelloMessages, HelloSteps, b)
    BY <1>1, Zenon
  <2>2. LoopBody(Hello_Parse, HelloMessages, HelloSteps, b)[h] =
            IF b = <<>> THEN h ELSE Hello_Parse[FirstRecord(b).rest][HelloSteps[b][h]]
    BY Zenon DEF LoopBody
  <2> QED BY <2>1, <2>2, Zenon
<1>5. \A h \in HelloMessages : Hello_Parse[<<>>][h] = h
  BY <1>2, <1>4, Zenon
<1>6. ASSUME NEW b \in Seq(Nat), NEW h \in HelloMessages, b # <<>>
      PROVE  Hello_Parse[b][h] = Hello_Parse[FirstRecord(b).rest][Hello_table(h, FirstRecord(b))]
  <2>1. HelloSteps[b][h] = Hello_table(h, FirstRecord(b))
    BY Zenon, <1>3, <1>6
  <2>2. Hello_Parse[b][h] = Hello_Parse[FirstRecord(b).rest][HelloSteps[b][h]]
    BY <1>4, <1>6, Zenon
  <2> QED BY <2>1, <2>2, Zenon
<1> QED BY <1>5, <1>6, Zenon

\* The three fields of a message, written in front, are put into it.
LEMMA HelloFields ==
    ASSUME NEW h \in HelloMessages, NEW rest \in Seq(Nat)
    PROVE  /\ \A v \in Nat : Hello_Parse[Number(1, v) \o rest][h]
                               = Hello_Parse[rest][set_hello_type(h, v)]
           /\ \A s \in Seq(Nat) : Hello_Parse[Delimited(2, s) \o rest][h]
                                    = Hello_Parse[rest][set_digest(h, s)]
           /\ \A s \in Seq(Nat) : Hello_Parse[Delimited(3, s) \o rest][h]
                = Hello_Parse[rest][mutable_content(h,
                                      Content_Parse[s][control_channel_hello_content(h)])]
<1>1. ASSUME NEW v \in Nat
      PROVE  Hello_Parse[Number(1, v) \o rest][h] = Hello_Parse[rest][set_hello_type(h, v)]
  <2> DEFINE b == Number(1, v) \o rest
             r == [tag |-> 8, value |-> v, rest |-> rest]
  <2>1. b \in Seq(Nat) /\ b # <<>> /\ FirstRecord(b) = r
    BY 1 \in Nat, 8 * 1 = 8, NumberFirst, Zenon
  <2>2. Hello_table(h, r) = set_hello_type(h, v) /\ r.rest = rest
    BY Zenon DEF Hello_table
  <2> HIDE DEF b, r
  <2>3. Hello_Parse[b][h] = Hello_Parse[FirstRecord(b).rest][Hello_table(h, FirstRecord(b))]
    BY <2>1, HelloParses, Zenon
  <2> QED BY <2>1, <2>2, <2>3, Zenon DEF b
<1>2. ASSUME NEW s \in Seq(Nat)
      PROVE  Hello_Parse[Delimited(2, s) \o rest][h] = Hello_Parse[rest][set_digest(h, s)]
  <2> DEFINE b == Delimited(2, s) \o rest
             r == [tag |-> 18, value |-> s, rest |-> rest]
  <2>1. b \in Seq(Nat) /\ b # <<>> /\ FirstRecord(b) = r
    BY 2 \in Nat, 8 * 2 + 2 = 18, DelimitedFirst, Zenon
  <2>2. Hello_table(h, r) = set_digest(h, s) /\ r.rest = rest
    BY DEF Hello_table
  <2> HIDE DEF b, r
  <2>3. Hello_Parse[b][h] = Hello_Parse[FirstRecord(b).rest][Hello_table(h, FirstRecord(b))]
    BY <2>1, HelloParses, Zenon
  <2> QED BY <2>1, <2>2, <2>3, Zenon DEF b
<1>3. ASSUME NEW s \in Seq(Nat)
      PROVE  Hello_Parse[Delimited(3, s) \o rest][h]
                = Hello_Parse[rest][mutable_content(h,
                                      Content_Parse[s][control_channel_hello_content(h)])]
  <2> DEFINE b == Delimited(3, s) \o rest
             r == [tag |-> 26, value |-> s, rest |-> rest]
  <2>1. b \in Seq(Nat) /\ b # <<>> /\ FirstRecord(b) = r
    BY 3 \in Nat, 8 * 3 + 2 = 26, DelimitedFirst, Zenon
  <2>2. Hello_table(h, r) = mutable_content(h, Content_Parse[s][control_channel_hello_content(h)])
        /\ r.rest = rest
    BY DEF Hello_table
  <2> HIDE DEF b, r
  <2>3. Hello_Parse[b][h] = Hello_Parse[FirstRecord(b).rest][Hello_table(h, FirstRecord(b))]
    BY <2>1, HelloParses, Zenon
  <2> QED BY <2>1, <2>2, <2>3, Zenon DEF b
<1> QED BY Zenon, <1>1, <1>2, <1>3

\* The bytes of a message, parsed into another, merge it in.
LEMMA HelloReads ==
    ASSUME NEW h, NEW g, Good(h), Good(g), NEW rest \in Seq(Nat)
    PROVE  Hello_Parse[SerializeAsString(g) \o rest][h] = Hello_Parse[rest][Hello_MergeImpl(h, g)]
<1> DEFINE p == "hello_type" \in g.has
           q == "digest" \in g.has
           r == "content" \in g.has
           v == g.hello_type
           s == g.digest
           d == control_channel_hello_content(g)
           t == Content_InternalSerialize(d)
           X == Where(p, Number(1, v))
           Y == Where(q, Delimited(2, s))
           Z == Where(r, Delimited(3, t))
           a == IF p THEN set_hello_type(h, v) ELSE h
           b == IF q THEN set_digest(a, s) ELSE a
           c == Content_MergeImpl(control_channel_hello_content(b), d)
           e == IF r THEN mutable_content(b, c) ELSE b
<1>0. ContentThere(g) /\ ContentThere(h)
  BY Zenon, GoodThere
<1>1. v \in Nat /\ s \in Seq(Nat) /\ g.has \subseteq {"hello_type", "digest", "content"}
      /\ h \in HelloMessages
  BY Zenon, <1>0 DEF ContentThere, HelloMessages
<1>2. d \in ContentMessages /\ (r => d = g.content)
  BY Zenon, <1>0, ContentShown
<1>3. t \in Seq(Nat)
  <2> HIDE DEF d
  <2> QED BY Zenon, <1>2, ContentSize
<1>4. a \in HelloMessages
  <2> HIDE DEF p, v
  <2> QED BY Zenon, <1>1, HelloSettersType
<1>5. b \in HelloMessages
  <2> HIDE DEF a, q, s
  <2> QED BY Zenon, <1>1, <1>4, HelloSettersType
<1>6. SerializeAsString(g) = (X \o Y) \o Z
  BY Zenon, <1>0, HelloRecords
<1>7. X \in Seq(Nat) /\ Y \in Seq(Nat) /\ Z \in Seq(Nat)
  <2>1. p \in BOOLEAN /\ q \in BOOLEAN /\ r \in BOOLEAN
    OBVIOUS
  <2> HIDE DEF p, q, r, v, s, t
  <2>2. X \in Seq(Nat)
    BY <1>1, <2>1, 1 < 15, 1 \in Nat, NumberPart, Zenon
  <2>3. Y \in Seq(Nat)
    BY <1>1, <2>1, 2 < 15, 2 \in Nat, StringPart, Zenon
  <2>4. Z \in Seq(Nat)
    BY <1>3, <2>1, 3 < 15, 3 \in Nat, StringPart, Zenon
  <2> QED BY Zenon, <2>2, <2>3, <2>4
<1> DEFINE R == Z \o rest
           Q == Y \o R
<1>8. R \in Seq(Nat)
  <2> HIDE DEF Z
  <2> QED BY <1>7, JoinedBytes, Zenon
<1>9. Q \in Seq(Nat)
  <2> HIDE DEF Y, R
  <2> QED BY <1>7, <1>8, JoinedBytes, Zenon
<1>10. ((X \o Y) \o Z) \o rest = X \o Q
  <2> HIDE DEF X, Y, Z
  <2>1. X \o Y \in Seq(Nat)
    BY <1>7, JoinedBytes, Zenon
  <2>2. ((X \o Y) \o Z) \o rest = (X \o Y) \o (Z \o rest)
    BY <1>7, <2>1, Joined, Zenon
  <2>3. (X \o Y) \o R = X \o (Y \o R)
    <3> HIDE DEF R
    <3>1. Concat(Concat(X, Y), R) = Concat(X, Concat(Y, R))
      BY <1>7, <1>8, ConcatLaws DEF ByteStrings
    <3> QED BY <3>1, Zenon DEF Concat
  <2> QED BY <2>2, <2>3, Zenon
<1>11. Hello_Parse[X \o Q][h] = Hello_Parse[Q][a]
  <2>1. CASE p
    <3>1. X = Number(1, v) /\ a = set_hello_type(h, v)
      BY <2>1, Zenon DEF Where
    <3> HIDE DEF X, Q, a, v
    <3> QED BY <1>1, <1>9, <3>1, HelloFields, Zenon
  <2>2. CASE ~p
    <3>1. X = <<>> /\ a = h
      BY <2>2, Zenon DEF Where
    <3> HIDE DEF X, Q, a
    <3>2. X \o Q = Q
      BY <1>9, <3>1, ConcatEmptySeq, SMTT(30)
    <3> QED BY <3>1, <3>2, Zenon
  <2> QED BY Zenon, <2>1, <2>2
<1>12. Hello_Parse[Q][a] = Hello_Parse[R][b]
  <2>1. CASE q
    <3>1. Y = Delimited(2, s) /\ b = set_digest(a, s)
      BY <2>1, Zenon DEF Where
    <3> HIDE DEF Y, R, a, b, s
    <3>2. Hello_Parse[Y \o R][a] = Hello_Parse[R][b]
      BY <1>1, <1>4, <1>8, <3>1, HelloFields, Zenon
    <3> QED BY <3>2, Zenon
  <2>2. CASE ~q
    <3>1. Y = <<>> /\ b = a
      BY <2>2, Zenon DEF Where
    <3> HIDE DEF Y, R, a, b
    <3>2. Y \o R = R
      BY <1>8, <3>1, ConcatEmptySeq, SMTT(30)
    <3> QED BY <3>1, <3>2, Zenon
  <2> QED BY Zenon, <2>1, <2>2
<1>13. Hello_Parse[R][b] = Hello_Parse[rest][e]
  <2>1. CASE r
    <3>1. Z = Delimited(3, t) /\ e = mutable_content(b, c)
      BY <2>1, Zenon DEF Where
    <3>2. Content_Parse[t][control_channel_hello_content(b)] = c
      <4> HIDE DEF b, d
      <4>1. control_channel_hello_content(b) \in ContentMessages
        BY Zenon, <1>5, HelloSettersType
      <4> QED BY <1>2, <4>1, ContentReads, Zenon
    <3> HIDE DEF Z, b, c, t, e
    <3>3. Hello_Parse[Z \o rest][b] = Hello_Parse[rest][e]
      BY <1>3, <1>5, <3>1, <3>2, HelloFields, Zenon
    <3> QED BY <3>3, Zenon
  <2>2. CASE ~r
    <3>1. Z = <<>> /\ e = b
      BY <2>2, Zenon DEF Where
    <3> HIDE DEF Z, b, e
    <3>2. Z \o rest = rest
      BY <3>1, ConcatEmptySeq
    <3> QED BY <3>1, <3>2, Zenon
  <2> QED BY Zenon, <2>1, <2>2
<1>14. e = Hello_MergeImpl(h, g)
  <2>1. h = [has |-> h.has, hello_type |-> h.hello_type, digest |-> h.digest, content |-> h.content]
    BY Zenon, <1>1 DEF HelloMessages
  <2>2. g.has = (IF p THEN {"hello_type"} ELSE {}) \cup (IF q THEN {"digest"} ELSE {})
                   \cup (IF r THEN {"content"} ELSE {})
    BY Zenon, <1>1
  <2>3. control_channel_hello_content(b) = control_channel_hello_content(h) /\ b.content = h.content
    BY Zenon, <2>1 DEF control_channel_hello_content, set_hello_type, set_digest
  <2>4. r => Hello_MergeImpl(h, g).content = c
    <3> HIDE DEF b, d
    <3> QED BY <1>2, <2>3, MergedContent
  <2>5. b = [has |-> b.has, hello_type |-> b.hello_type, digest |-> b.digest, content |-> h.content]
        /\ b.has = h.has \cup (IF p THEN {"hello_type"} ELSE {}) \cup (IF q THEN {"digest"} ELSE {})
        /\ b.hello_type = (IF p THEN v ELSE h.hello_type)
        /\ b.digest = (IF q THEN s ELSE h.digest)
    BY Zenon, <2>1 DEF set_hello_type, set_digest
  <2> HIDE DEF b, c
  <2>6. e = [has |-> h.has \cup g.has, hello_type |-> b.hello_type, digest |-> b.digest,
             content |-> IF r THEN c ELSE h.content]
    BY Zenon, <2>2, <2>5 DEF mutable_content
  <2>7. Hello_MergeImpl(h, g) = [has |-> h.has \cup g.has, hello_type |-> b.hello_type,
             digest |-> b.digest, content |-> Hello_MergeImpl(h, g).content]
    BY Zenon, <2>5 DEF Hello_MergeImpl
  <2>8. ~r => Hello_MergeImpl(h, g).content = h.content
    BY Zenon DEF Hello_MergeImpl
  <2> HIDE DEF e
  <2> QED BY <2>4, <2>6, <2>7, <2>8
<1> HIDE DEF X, Y, Z, Q, R, a, b, e
<1> QED BY <1>6, <1>10, <1>11, <1>12, <1>13, <1>14, Zenon

\* Parsing agrees with merging in a state of good objects.
LEMMA ParsesGood == AllGood => ParseMerges
<1>1. SUFFICES ASSUME AllGood, NEW to \in Objs, NEW o \in Objs, NEW p \in Objs
               PROVE  ParseFromString(hello[to], SerializeAsString(hello[o]) \o SerializeAsString(hello[p]))
                        = Hello_MergeImpl(Hello_CopyFrom(hello[to], hello[o]), hello[p])
  BY Zenon DEF ParseMerges
<1> DEFINE k == Hello_Clear(hello[to])
           g == hello[o]
           h == hello[p]
           m == Hello_MergeImpl(k, g)
           S == SerializeAsString(g)
           T == SerializeAsString(h)
<1>2. Good(k) /\ Good(g) /\ Good(h)
  BY Zenon, <1>1, HelloClears DEF AllGood
<1>3. ParseFromString(hello[to], S \o T) = Hello_Parse[S \o T][k]
      /\ Hello_CopyFrom(hello[to], g) = m
  BY Zenon DEF ParseFromString, Hello_CopyFrom
<1> HIDE DEF k, g, h
<1>4. T \in Seq(Nat) /\ <<>> \in Seq(Nat)
  BY <1>2, GoodBytes, EmptySeq
<1>5. Hello_Parse[S \o T][k] = Hello_Parse[T][m]
  BY <1>2, <1>4, HelloReads
<1>6. Good(m)
  BY Zenon, <1>2, HelloMerges
<1> HIDE DEF m
<1>7. Hello_Parse[T \o <<>>][m] = Hello_Parse[<<>>][Hello_MergeImpl(m, h)]
  BY ZenonT(40), <1>2, <1>4, <1>6, HelloReads
<1>8. T \o <<>> = T
  BY Zenon, <1>4, ConcatEmptySeq
<1>9. Good(Hello_MergeImpl(m, h))
  BY <1>2, <1>6, HelloMerges
<1>10. Hello_MergeImpl(m, h) \in HelloMessages
  BY Zenon, <1>9, GoodThere DEF ContentThere
<1>11. Hello_Parse[T][m] = Hello_MergeImpl(m, h)
  BY <1>7, <1>8, <1>10, HelloParses, Zenon
<1> QED BY <1>3, <1>5, <1>11, Zenon DEF m, g, h

\* Good objects stay good under the calls of the generated functions.
LEMMA CallsGood == Calls => []AllGood
  <1>1. NewObjects => AllGood BY Zenon, NewGood
  <1>2. AllGood /\ [Call]_hello => AllGood'
    BY Zenon, CallStep DEF AllGood, Good, HelloSound
  <1> QED BY <1>1, <1>2, PTL DEF Calls

\* After any calls of the generated functions ByteSizeLong is the number of bytes that
\* InternalSerialize writes, for a Hello and for its content.
THEOREM SizesExact == Calls => []SizeExact
  BY CallsGood, SizesGood, PTL

\* After any calls, the bytes of two objects, one behind the other, parse to the second
\* merged into the first, and an object's own bytes to that object.
THEOREM ParsingMerges == Calls => []ParseMerges
  BY CallsGood, ParsesGood, PTL

\* After any calls, canReadMsg finds the first of two frames exactly when it has arrived
\* whole, however the bytes are cut.
THEOREM FramesRead == Calls => []FramesReadWhole
  BY CallsGood, FramesGood, PTL

\* After any calls, every command and answer in front of any frame is read back as sent.
THEOREM CommandsRead == Calls => []CommandsCross
  BY CallsGood, CommandsGood, PTL

=============================================================================
