----------------------------- MODULE Downloads -----------------------------
(***************************************************************************)
(* The download history ("bucket list") of src/downloads.c: a list of the  *)
(* ids of the torrents that were handed over, newest first.  It is what    *)
(* keeps Automatic from downloading a torrent twice.  The list is the      *)
(* sequence of the strings its nodes hold; a feed item is a record with    *)
(* (at least) the fields guid and url, guid being NoGUID when the feed     *)
(* gives none.                                                             *)
(***************************************************************************)
EXTENDS Naturals, Sequences

CONSTANT NoGUID       \* the guid of a feed item that has none (NULL)

\* bucket_hasGUID: a missing guid is in no bucket, any other is looked up.
bucket_hasGUID(guid, bucket) ==
    /\ guid # NoGUID
    /\ \E k \in 1..Len(bucket) : bucket[k] = guid

\* Seeded bug: an item is looked up by its URL only.
has_url_been_downloaded(bucket, item) == bucket_hasGUID(item.url, bucket)

\* An item is known by its guid or by its URL.
has_been_downloaded(bucket, item) ==
    bucket_hasGUID(item.guid, bucket) \/ bucket_hasGUID(item.url, bucket)

\* What processRSSList stores for an item: its guid, its URL without one.
BucketId(item) == IF item.guid # NoGUID THEN item.guid ELSE item.url

\* list.c removeLast: a bucket that is not empty loses its oldest entry.
removeLast(bucket) == SubSeq(bucket, 1, Len(bucket) - 1)

\* Seeded bug: the list is cut one entry too short.
addToSmallerBucket(id, bucket, maxBucketItems) ==
    LET grown == <<id>> \o bucket
    IN  IF maxBucketItems > 0 /\ Len(grown) >= maxBucketItems
        THEN removeLast(grown)
        ELSE grown

(***************************************************************************)
(* addToBucket: the id becomes the head of the list, and one entry, never  *)
(* more, is dropped from its tail when the list is now longer than         *)
(* maxBucketItems.  A maximum of 0 means no maximum.                       *)
(***************************************************************************)
addToBucket(id, bucket, maxBucketItems) ==
    LET grown == <<id>> \o bucket
    IN  IF maxBucketItems > 0 /\ Len(grown) > maxBucketItems
        THEN removeLast(grown)
        ELSE grown
=============================================================================
