---------------------------- MODULE EventParser ----------------------------
(***************************************************************************)
(* What parse_event() makes of a message.  A payload is what protobuf      *)
(* makes of it: whether it decodes, and the fields that parse_event()      *)
(* looks at.  A payload that does not decode may have filled any of them   *)
(* before the decoder gave up.  "value" is what a kind of message has to   *)
(* itself: a comment, a count, a gift.                                     *)
(***************************************************************************)
EXTENDS Integers, Sequences

\* A field of an event is a sequence of one value, or Blank if it was not assigned.
Blank == <<>>

\* Images are lists of URLs; one that the message lacks is as good as one without.
Preferred(image, otherwise) ==
    LET urls == image \o otherwise IN IF urls = <<>> THEN Blank ELSE <<urls[1]>>

fill_user(m) ==
    <<[id |-> m.user, avatar_url |-> Preferred(m.avatar_thumb, m.avatar_medium)]>>

\* The fields of an event that depend on its type.
NewEvent ==
    [type |-> "Unknown", user |-> Blank, comment |-> Blank, gift |-> Blank,
     gift_streaking |-> Blank, gift_icon_url |-> Blank, like_count |-> Blank,
     member_count |-> Blank, viewer_count |-> Blank, control_action |-> Blank]

\* The messages with a user, and the type of event each is.
UserMessages ==
    [WebcastChatMessage |-> "Comment", WebcastGiftMessage |-> "Gift",
     WebcastLikeMessage |-> "Like", WebcastMemberMessage |-> "Join",
     WebcastSocialMessage |-> "Social", WebcastSubNotifyMessage |-> "Subscribe"]

OtherMessages == {"WebcastRoomUserSeqMessage", "WebcastControlMessage"}

Methods == DOMAIN UserMessages \cup OtherMessages

SocialType(m) == IF m.action = 3 \/ m.share_type # 0 THEN "Share" ELSE "Follow"

\* STREAM_ENDED (3), STREAM_SUSPENDED (4)
ControlType(m) == IF m.action \in {3, 4} THEN "LiveEnd" ELSE "Control"

\* A gift without its description has no icon.
GiftIcon(m) == IF m.has_gift THEN Preferred(m.image, m.icon) ELSE Blank

\* What a decoded message assigns besides its user.
Assign(ev, method, m) ==
    CASE method = "WebcastChatMessage" -> [ev EXCEPT !.comment = <<m.value>>]
      [] method = "WebcastGiftMessage" ->
             [ev EXCEPT !.gift = <<m.value>>, !.gift_streaking = <<m.repeat_end = 0>>,
                        !.gift_icon_url = GiftIcon(m)]
      [] method = "WebcastLikeMessage" -> [ev EXCEPT !.like_count = <<m.value>>]
      [] method = "WebcastMemberMessage" -> [ev EXCEPT !.member_count = <<m.value>>]
      [] method = "WebcastSocialMessage" ->
             [ev EXCEPT !.type = SocialType(m), !.member_count = <<m.value>>]
      [] method = "WebcastRoomUserSeqMessage" ->
             [ev EXCEPT !.type = "RoomUserSeq", !.viewer_count = <<m.value>>]
      [] method = "WebcastSubNotifyMessage" -> ev
      [] method = "WebcastControlMessage" ->
             [ev EXCEPT !.type = ControlType(m), !.control_action = <<m.action>>]

Decoded(method, m) ==
    Assign(IF method \in DOMAIN UserMessages
           THEN [NewEvent EXCEPT !.type = UserMessages[method], !.user = fill_user(m)]
           ELSE NewEvent,
           method, m)

parse_event_IgnoresFailure(method, m) ==
    IF method \in Methods THEN Decoded(method, m) ELSE NewEvent

parse_event(method, m) ==
    IF method \in Methods /\ m.decodes THEN Decoded(method, m) ELSE NewEvent
=============================================================================
