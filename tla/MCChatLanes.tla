---- MODULE MCChatLanes ----
EXTENDS ChatLanes, TLC
====
