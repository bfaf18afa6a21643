SPECIFICATION Spec
CONSTANTS
    TOPICS_MAX = 2
    PROPS_MAX = 2
    NAMELEN = 127
    IDLEN = 11
    Width <- MCWidth
    NumberOf <- MCNumberOf
    Names <- MCNames
    TopicArgs <- AllTopics
    PropArgs <- NoProps
INVARIANT PartitionsAsAsked
