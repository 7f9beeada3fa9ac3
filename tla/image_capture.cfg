\* The two cameras with three buffers each; dequeueing and queueing may fail.
CONSTANT frameBufferCount = 3
SPECIFICATION FairSpec
INVARIANTS ImageNotOverwritten DriverHasBuffer
PROPERTIES EveryImageOnce ImagesKeepComing
