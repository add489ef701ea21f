SPECIFICATION MessagingSpec
CONSTANTS
  Topics = {t1, t2}
  MemSubs = {s1, s2}
  Publishers = {p1}
  MaxPublish = 2
  HttpSubs = {s1, s2}
  Groupings = {bc, q1}
  MaxConnects = 2
  MaxRefusals = 1
  Messages = {m1, m2}
  Queues = {q1}
  Broadcast = bc
  Nodes = {n1}
  InboxMax = 2
  BatchMax = 2
  Events = {e1}
  Consumers = {c1, c2}
  ByHand = {c1}
  Replaying = {c1}
  Groups = {g1, g2}
  EventTopics = {t1}
  RetryLimit = 1
  Addrs = {a1}
  Listens = {l1, l2}
  Dials = {d1, d2}
  Talking = {d1}
INVARIANTS NeverGivenUpEarly QuietAfterClose NoMessageForgotten
PROPERTIES UnsubscribedForGood EventReachesGroup DialAndListenReturn SubscriberRegisteredAgain
CHECK_DEADLOCK FALSE
